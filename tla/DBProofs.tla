------------------------------ MODULE DBProofs ------------------------------
(***************************************************************************)
(* A leveldb database loses no write it promised to keep, opens again, and *)
(* is the store of module DurableStore, for any number of readers, writes, *)
(* files and failures, if logs are not reused (the default, and what       *)
(* Firebase opens its database with).                                      *)
(*                                                                         *)
(* The invariant says of every state that the manifest may be in after a   *)
(* crash (Left) what Recover would find there: file numbers below the next *)
(* one, tables that exist, and, in them or in the logs from its log number *)
(* on, all that was promised.  The parts of it follow the code: what a     *)
(* process numbers, the files of the versions in use, the edit on its way  *)
(* to the manifest, the promises, what Open has rebuilt so far, the order  *)
(* of the records, their sequence numbers, and the write under way.        *)
(***************************************************************************)
EXTENDS DBImpl, TLAPS, FiniteSetTheorems, WellFoundedInduction, SequenceTheorems

USE DBAssumption

\* A file of a version: its level and number.
FileRef == (0..1) \X Num
\* The types of the records.
EditRec == [kind : {"edit", "snapshot", "torn", "flush", "move", "compact"}, log : 0..MaxFile,
            next : Nat, last : Nat, add : SUBSET FileRef, del : SUBSET FileRef]
Writer == [pc : {"idle", "room", "append", "commit"}, kind : {"none", "sync", "async", "null"},
           force : BOOLEAN]
OpeningState ==
  [todo : SUBSET Num, add : SUBSET FileRef, maxseq : Nat, save : BOOLEAN, reuse : BOOLEAN]
VersionState == [current : SUBSET FileRef, log : 0..MaxFile, next : Nat, last : Nat, man : Nat]
CompState == [on : BOOLEAN, inputs : SUBSET FileRef, base : SUBSET FileRef, out : 0..MaxFile]
State == [files : SUBSET FileRef, log : 0..MaxFile, next : Nat, last : Nat]

\* The files.
Recs == Seq(0..MaxWrites)
LogFile == {f \in [recs : Recs, synced : Nat] : f.synced <= Len(f.recs)}
ManifestFile == {m \in [edits : Seq(EditRec), synced : Nat] : m.synced <= Len(m.edits)}

\* What a reader of a log returns, of all of it and of its synced part.
Good(recs) == {recs[i] : i \in {j \in DOMAIN recs : \A k \in 1..j : recs[k] # Torn}}
GoodSynced(l) == Good(SubSeq(l.recs, 1, l.synced))

\* Where a write can be found.
InTables(tab, files, w) == \E f \in files : f[2] \in DOMAIN tab /\ w \in tab[f[2]]
InLogs(l, from, w) == \E n \in DOMAIN l : n >= from /\ w \in Good(l[n].recs)
InSynced(l, from, w) == \E n \in DOMAIN l : n >= from /\ w \in GoodSynced(l[n])

\* What a crash of the machine may leave of a manifest.
LeftOf(edits, synced) == {Replay(SubSeq(edits, 1, k)) : k \in synced..Len(edits)}
Left == LeftOf(manifest[CURRENT].edits, manifest[CURRENT].synced)

\* The types of the variables.
DBTypes ==
  /\ DOMAIN log \subseteq Num /\ DOMAIN table \subseteq Num /\ DOMAIN manifest \subseteq Num
  /\ log \in [DOMAIN log -> LogFile]
  /\ table \in [DOMAIN table -> SUBSET (1..MaxWrites)]
  /\ manifest \in [DOMAIN manifest -> ManifestFile]
  /\ CURRENT \in DOMAIN manifest \cup {0}
  /\ phase \in {"down", "replay", "saving", "naming", "installed", "up"}
  /\ opening \in OpeningState /\ vset \in VersionState
  /\ mem \subseteq 1..MaxWrites /\ imm \in [on : BOOLEAN, ids : SUBSET (1..MaxWrites)]
  /\ logfile \in 0..MaxFile
  /\ pending \subseteq Num /\ flush \in 0..MaxFile
  /\ edit \in EditRec \cup {NoEdit}
  /\ comp \in CompState
  /\ scheduled \in BOOLEAN /\ bg_error \in BOOLEAN
  /\ wr \in Writer
  /\ held \in [Readers -> SUBSET FileRef]
  /\ seqOf \in Seq(Nat) /\ Len(seqOf) <= MaxWrites
  /\ incidents \in Nat

\* A process is opening the database.
Opens == phase \in {"replay", "saving", "naming", "installed"}

\* What is not there before a database is open.
Phases ==
  /\ phase # "up" =>
       /\ mem = {} /\ imm = NoImm /\ pending = {} /\ flush = 0 /\ comp = NoComp
       /\ ~scheduled /\ ~bg_error /\ wr = Idle /\ \A r \in Readers : held[r] = {}
  /\ phase = "down" => opening = NoOpening /\ vset = NoVset /\ logfile = 0 /\ edit = NoEdit
  /\ phase = "replay" => logfile = 0 /\ edit = NoEdit
  /\ phase \in {"saving", "naming", "installed"} =>
       /\ opening.todo = {}
       /\ edit = Edit(logfile, vset.next, vset.last, opening.add, {})
  /\ Opens => opening.save /\ ~opening.reuse
  /\ phase = "up" => /\ opening = NoOpening
                     /\ edit = NoEdit \/ edit.kind \in {"flush", "move", "compact"}
  /\ wr.pc \in {"append", "commit"} => wr.kind # "null"
  /\ ~imm.on => imm = NoImm
  /\ CURRENT = 0 => /\ phase = "down" /\ must = {} /\ safe = {} /\ seqOf = << >>
                    /\ DOMAIN log = {} /\ DOMAIN table = {} /\ DOMAIN manifest = {}

\* The files that somebody uses.
UsedFiles == vset.current \cup comp.base \cup opening.add \cup UNION {held[r] : r \in Readers}

\* Every number a process has seen is below the next one.
Numbered ==
  /\ CURRENT # 0 => \A d \in Left :
       /\ \A f \in d.files : f[2] < d.next
       /\ d = Blank \/ (d.log < d.next /\ CURRENT < d.next)
       /\ d.next <= IF phase = "down" THEN DiskState.next ELSE vset.next
       /\ CURRENT > 1 => d.next # 0
  /\ phase # "down" =>
       /\ \A f \in UsedFiles : f[2] < vset.next
       /\ \A n \in DOMAIN log \ opening.todo : n < vset.next
       /\ logfile < vset.next /\ vset.log < vset.next /\ vset.man < vset.next
       /\ flush < vset.next /\ comp.out < vset.next

\* A file that a flush or a compaction is writing: of no version, and pending.
Fresh(n) ==
  n # 0 =>
    /\ n \in DOMAIN table /\ n \in pending
    /\ \A f \in UsedFiles : f[2] # n
    /\ \A d \in Left : \A f \in d.files : f[2] # n

\* The tables exist and are not empty.
Filled(files) == \A f \in files : f[2] \in DOMAIN table /\ table[f[2]] # {}

\* No table that somebody uses, or a crash may bring back, is missing.
Tables ==
  /\ Filled(UsedFiles)
  /\ CURRENT # 0 => \A d \in Left : Filled(d.files)
  /\ pending \subseteq {flush, comp.out}
  /\ Fresh(flush)
  /\ IF edit.kind = "compact" THEN comp.out \in pending ELSE Fresh(comp.out)
  /\ flush # 0 => flush # comp.out /\ imm.on /\ edit = NoEdit
  /\ comp.on => comp.inputs # {} /\ comp.inputs \subseteq vset.current /\ comp.inputs \subseteq comp.base
  /\ ~comp.on => comp = NoComp

\* The record on its way to the manifest.
Recorded ==
  phase = "up" =>
    /\ CURRENT # 0 /\ vset.man = CURRENT
    /\ edit = NoEdit /\ ~bg_error => DiskState.files = vset.current
    /\ edit # NoEdit =>
         LET m == manifest[CURRENT] IN
           /\ m.synced < Len(m.edits)
           /\ edit.add \subseteq DiskState.files
           /\ DiskState.log = edit.log
           /\ Filled(edit.add)
           /\ ~bg_error => DiskState.files = (vset.current \ edit.del) \cup edit.add
           /\ \A w \in 1..MaxWrites : InTables(table, edit.del, w) => InTables(table, edit.add, w)
           /\ edit.kind = "flush" =>
                /\ imm.on /\ edit.log = logfile /\ edit.del = {}
                /\ \A w \in 1..MaxWrites : w \in imm.ids <=> InTables(table, edit.add, w)
           /\ edit.kind # "flush" =>
                /\ edit.log = vset.log
                /\ edit.del \subseteq vset.current
                /\ \A w \in 1..MaxWrites : InTables(table, edit.add, w) => InTables(table, edit.del, w)
           /\ edit.kind = "compact" => comp.on /\ edit.add = {<<1, comp.out>>} /\ edit.del = comp.inputs
           /\ edit.kind = "move" => ~comp.on /\ \A f \in edit.add : \E g \in edit.del : f[2] = g[2]

\* Where the promised writes are.
Durable ==
  /\ safe \subseteq must /\ must \subseteq 1..Len(seqOf)
  /\ CURRENT # 0 /\ phase # "up" => \A d \in Left :
       /\ \A w \in must : InTables(table, d.files, w) \/ InLogs(log, d.log, w)
       /\ \A w \in safe : InTables(table, d.files, w) \/ InSynced(log, d.log, w)
  /\ phase = "up" =>
       /\ logfile \in DOMAIN log /\ vset.log <= logfile /\ \A n \in DOMAIN log : n <= logfile
       /\ imm.on => vset.log < logfile
       /\ \A w \in must : w \in mem \/ w \in imm.ids \/ InTables(table, vset.current, w)
       /\ \A w \in mem \cap must : w \in Good(log[logfile].recs)
       /\ \A w \in mem \cap safe : w \in GoodSynced(log[logfile])
       /\ \A w \in imm.ids \cap must : InLogs(log, vset.log, w)
       /\ \A w \in imm.ids \cap safe : InSynced(log, vset.log, w)
       /\ \A d \in Left :
            /\ \A w \in 1..MaxWrites : InTables(table, vset.current, w) => InTables(table, d.files, w)
            /\ d.log = vset.log \/ (/\ d.log = logfile /\ imm.on
                                    /\ \A w \in imm.ids : InTables(table, d.files, w))

\* What Open has read and rebuilt.
Opened ==
  /\ phase \in {"replay", "saving", "naming"} =>
       /\ CURRENT # 0 /\ vset.man \notin {0, CURRENT}
       /\ vset.current = DiskState.files
       /\ opening.todo \subseteq LogsOf(DiskState)
       /\ \A n \in DOMAIN log : n >= DiskState.log /\ n \notin opening.todo =>
            \A w \in Good(log[n].recs) : InTables(table, opening.add, w) /\ seqOf[w] <= Larger(vset.last, opening.maxseq)
       /\ \A w \in 1..MaxWrites : InTables(table, opening.add, w) => InLogs(log, DiskState.log, w)
       /\ \A w \in 1..MaxWrites : InTables(table, vset.current, w) => seqOf[w] <= vset.last
  /\ phase \in {"saving", "naming", "installed"} =>
       /\ logfile \in DOMAIN log /\ log[logfile].recs = << >>
       /\ \A n \in DOMAIN log : n <= logfile
       /\ opening.maxseq <= vset.last
       /\ vset.man \in DOMAIN manifest
       /\ Replay(manifest[vset.man].edits) =
            [files |-> vset.current \cup opening.add, log |-> logfile, next |-> vset.next,
             last |-> vset.last]
  /\ phase \in {"saving", "naming"} => Len(manifest[vset.man].edits) = 2
  /\ phase = "naming" => manifest[vset.man].synced = 2
  /\ phase = "installed" => CURRENT = vset.man /\ Left = {DiskState}

\* The writes that count, now or after a crash.
Counts(w) ==
  IF phase = "up"
  THEN \/ w \in mem \/ w \in imm.ids \/ InLogs(log, vset.log, w)
       \/ \E d \in Left : InTables(table, d.files, w)
  ELSE \E d \in Left : InTables(table, d.files, w) \/ InLogs(log, d.log, w)

\* The records of a log are in the order of their writes.
Logged ==
  /\ \A n \in DOMAIN log : \A i, j \in DOMAIN log[n].recs :
       /\ log[n].recs[i] <= Len(seqOf)
       /\ i < j /\ log[n].recs[j] # Torn => log[n].recs[i] < log[n].recs[j]
  /\ \A n \in DOMAIN table : table[n] \subseteq 1..Len(seqOf)
  /\ mem \cup imm.ids \subseteq 1..Len(seqOf) /\ mem \cap imm.ids = {}

\* Of the writes that count the later have the larger sequence numbers.
Sequenced ==
  /\ CURRENT # 0 =>
      /\ \A a, b \in 1..Len(seqOf) : Counts(a) /\ Counts(b) /\ a < b => seqOf[a] < seqOf[b]
      /\ \A d \in Left : \A w \in 1..Len(seqOf) : InTables(table, d.files, w) => seqOf[w] <= d.last
  /\ phase = "up" => \A w \in 1..Len(seqOf) : Counts(w) =>
       seqOf[w] <= vset.last \/ (wr.pc = "commit" /\ w = Write)

\* The write under way.
Attempt ==
  /\ wr.pc \in {"append", "commit"} =>
       /\ phase = "up" /\ Len(seqOf) > 0 /\ seqOf[Write] = vset.last + 1
       /\ Write \notin mem \cup imm.ids \cup must
       /\ \A n \in DOMAIN table : Write \notin table[n]
  /\ wr.pc = "room" /\ wr.kind # "null" => Len(seqOf) < MaxWrites
  /\ wr.pc = "append" => \A n \in DOMAIN log : \A i \in DOMAIN log[n].recs : log[n].recs[i] # Write
  /\ wr.pc = "commit" => LET r == log[logfile].recs IN r # << >> /\ r[Len(r)] = Write

\* The next file number rises from each state of a manifest to the next.
Rises(edits, synced) ==
  \A i, j \in synced..Len(edits) :
    i <= j => Replay(SubSeq(edits, 1, i)).next <= Replay(SubSeq(edits, 1, j)).next

\* The manifest that counts has this property.
Rising == CURRENT # 0 => Rises(manifest[CURRENT].edits, manifest[CURRENT].synced)

\* The invariant, with Rising, which few steps need or disturb.
DBInv ==
  DBTypes /\ Phases /\ Numbered /\ Tables /\ Recorded /\ Durable /\ Opened
    /\ Logged /\ Sequenced /\ Attempt

-----------------------------------------------------------------------------
(* The state that a manifest describes.                                    *)

\* A set of numbers has a least one.
LEMMA LeastNat ==
    ASSUME NEW S \in SUBSET Nat, S # {}
    PROVE  \E x \in S : \A y \in S : x <= y
<1>1. PICK x \in S : \A y \in S : <<y, x>> \notin OpToRel(<, Nat)
  BY NatLessThanWellFounded, WFMin
<1>2. \A y \in S : ~(y < x)
  BY <1>1 DEF OpToRel
<1> QED
  BY <1>2

\* An edit leads from a state of the manifest to another (Builder::Apply).
LEMMA ApplyType ==
    ASSUME NEW st \in State, NEW e \in EditRec
    PROVE  Apply(st, e) \in State
BY DEF Apply, State, EditRec

\* The state before the first edit is one.
LEMMA BlankType == Blank \in State
BY DEF Blank, State

\* The states after 0, 1, ... edits.
Stages(edits, n, f) ==
    /\ f \in [0..n -> State] /\ f[0] = Blank
    /\ \A k \in 1..n : f[k] = Apply(f[k - 1], edits[k])

\* A manifest has its states, however long it is.
LEMMA StagesExist ==
    ASSUME NEW edits \in Seq(EditRec)
    PROVE  \A n \in 0..Len(edits) : \E f : Stages(edits, n, f)
<1> DEFINE Bad == {n \in 0..Len(edits) : ~\E f : Stages(edits, n, f)}
<1>1. SUFFICES ASSUME Bad # {} PROVE FALSE
  OBVIOUS
<1>2. PICK n \in Bad : \A m \in Bad : n <= m
  <2>1. Bad \in SUBSET Nat
    OBVIOUS
  <2> HIDE DEF Bad
  <2> QED
    BY <1>1, <2>1, LeastNat
<1>3. CASE n = 0
  <2> DEFINE f == [k \in 0..0 |-> Blank]
  <2>1. Stages(edits, 0, f)
    BY BlankType DEF Stages
  <2> QED
    BY <1>2, <1>3, <2>1
<1>4. CASE n # 0
  <2>1. n \in Nat /\ n - 1 \in 0..Len(edits) /\ n \in 1..Len(edits)
    BY <1>4, <1>2
  <2>2. PICK f : Stages(edits, n - 1, f)
    BY <1>2, <2>1
  <2> DEFINE g == [k \in 0..n |-> IF k = n THEN Apply(f[n - 1], edits[n]) ELSE f[k]]
  <2>3. f \in [0..n - 1 -> State] /\ edits[n] \in EditRec
    BY <2>1, <2>2 DEF Stages
  <2>4. Apply(f[n - 1], edits[n]) \in State
    BY <2>1, <2>3, ApplyType
  <2>5. g \in [0..n -> State]
    BY <2>1, <2>3, <2>4
  <2>6. \A k \in 1..n : g[k] = Apply(g[k - 1], edits[k])
    BY <2>1, <2>2 DEF Stages
  <2>7. g[0] = Blank
    BY <2>1, <2>2 DEF Stages
  <2> QED
    BY <1>2, <2>5, <2>6, <2>7 DEF Stages
<1> QED
  BY <1>3, <1>4

\* Two manifests that begin alike go through the same states.
LEMMA StagesUnique ==
    ASSUME NEW edits, NEW n \in Nat, NEW m \in Nat, m <= n, NEW f, NEW g,
           Stages(edits, n, f), Stages(edits, m, g)
    PROVE  \A k \in 0..m : f[k] = g[k]
<1> DEFINE Bad == {k \in 0..m : f[k] # g[k]}
<1>1. SUFFICES ASSUME Bad # {} PROVE FALSE
  OBVIOUS
<1>2. PICK k \in Bad : \A l \in Bad : k <= l
  <2>1. Bad \in SUBSET Nat
    OBVIOUS
  <2> HIDE DEF Bad
  <2> QED
    BY <1>1, <2>1, LeastNat
<1>3. k # 0
  BY <1>2 DEF Stages
<1>4. k \in Nat /\ k - 1 \in 0..m /\ k \in 1..m /\ k \in 1..n /\ k - 1 \notin Bad
  BY <1>2, <1>3
<1>5. f[k - 1] = g[k - 1]
  BY <1>4
<1> QED
  BY <1>2, <1>4, <1>5 DEF Stages

\* Replay is the last of them.
LEMMA ReplayIsLast ==
    ASSUME NEW edits \in Seq(EditRec), NEW f, Stages(edits, Len(edits), f)
    PROVE  Replay(edits) = f[Len(edits)]
<1> DEFINE E(h) == [k \in 0..Len(edits) |-> IF k = 0 THEN Blank ELSE Apply(h[k - 1], edits[k])]
           c == CHOOSE h : h = E(h)
<1>0. Len(edits) \in Nat
  OBVIOUS
<1>1. f = E(f)
  BY <1>0 DEF Stages
<1>2. c = E(c)
  BY <1>1
<1>3. ASSUME NEW k \in 0..Len(edits) PROVE c[k] = f[k]
  <2> DEFINE Bad == {l \in 0..Len(edits) : c[l] # f[l]}
  <2>1. SUFFICES ASSUME Bad # {} PROVE FALSE
    BY <1>3
  <2>2. PICK l \in Bad : \A m \in Bad : l <= m
    <3>1. Bad \in SUBSET Nat
      OBVIOUS
    <3> HIDE DEF Bad
    <3> QED
      BY <2>1, <3>1, LeastNat
  <2>3. \A m \in 0..Len(edits) : c[m] = IF m = 0 THEN Blank ELSE Apply(c[m - 1], edits[m])
    BY <1>2
  <2>4. l # 0
    BY <2>2, <2>3, <1>0 DEF Stages
  <2>5. l \in Nat /\ l \in 1..Len(edits) /\ l - 1 \in 0..Len(edits) /\ l - 1 \notin Bad
    BY <2>2, <2>4
  <2>6. c[l - 1] = f[l - 1]
    BY <2>5
  <2> HIDE DEF c
  <2> QED
    BY <2>2, <2>3, <2>4, <2>5, <2>6 DEF Stages
<1>4. Replay(edits) = c[Len(edits)]
  BY DEF Replay
<1> QED
  BY <1>0, <1>3, <1>4

\* What Recover rebuilds from a manifest is a state.
LEMMA ReplayType ==
    ASSUME NEW edits \in Seq(EditRec)
    PROVE  Replay(edits) \in State
<1>1. Len(edits) \in 0..Len(edits)
  OBVIOUS
<1>2. PICK f : Stages(edits, Len(edits), f)
  BY <1>1, StagesExist
<1>3. Replay(edits) = f[Len(edits)]
  BY <1>2, ReplayIsLast
<1> QED
  BY <1>1, <1>2, <1>3 DEF Stages

\* An empty manifest says nothing.
LEMMA ReplayEmpty == Replay(<< >>) = Blank
<1>1. << >> \in Seq(EditRec) /\ Len(<< >>) = 0
  OBVIOUS
<1>2. PICK f : Stages(<< >>, 0, f)
  BY <1>1, StagesExist, 0 \in 0..Len(<< >>)
<1> QED
  BY <1>1, <1>2, ReplayIsLast DEF Stages

\* One edit more is one step more.
LEMMA ReplayAppend ==
    ASSUME NEW edits \in Seq(EditRec), NEW e \in EditRec
    PROVE  Replay(Append(edits, e)) = Apply(Replay(edits), e)
<1> DEFINE more == Append(edits, e)
           n == Len(edits)
<1>1. n \in Nat /\ more \in Seq(EditRec) /\ Len(more) = n + 1 /\ more[n + 1] = e
  OBVIOUS
<1>2. PICK f : Stages(more, n + 1, f)
  BY <1>1, StagesExist, n + 1 \in 0..Len(more)
<1>3. Stages(edits, n, [k \in 0..n |-> f[k]])
  BY <1>1, <1>2 DEF Stages
<1>4. Replay(edits) = f[n]
  BY <1>1, <1>3, ReplayIsLast
<1>5. Replay(more) = f[n + 1]
  BY <1>1, <1>2, ReplayIsLast
<1> QED
  BY <1>1, <1>2, <1>4, <1>5 DEF Stages

-----------------------------------------------------------------------------
(* What is left of a manifest.                                             *)

\* The beginning of a manifest is a manifest.
LEMMA PrefixType ==
    ASSUME NEW edits \in Seq(EditRec), NEW k \in 0..Len(edits)
    PROVE  /\ SubSeq(edits, 1, k) \in Seq(EditRec) /\ Len(SubSeq(edits, 1, k)) = k
           /\ \A i \in 1..k : SubSeq(edits, 1, k)[i] = edits[i]
OBVIOUS

\* A beginning of a beginning is a beginning.
LEMMA PrefixOfPrefix ==
    ASSUME NEW S, NEW s \in Seq(S), NEW k \in 0..Len(s), NEW l \in 0..k
    PROVE  SubSeq(SubSeq(s, 1, k), 1, l) = SubSeq(s, 1, l)
<1>1. SubSeq(s, 1, k) \in Seq(S) /\ Len(SubSeq(s, 1, k)) = k
  OBVIOUS
<1> QED
  BY <1>1

\* Appending a record leaves what was there before it.
LEMMA PrefixOfAppend ==
    ASSUME NEW S, NEW s \in Seq(S), NEW e \in S, NEW k \in 0..Len(s)
    PROVE  SubSeq(Append(s, e), 1, k) = SubSeq(s, 1, k)
OBVIOUS

\* A sequence is its own longest beginning.
LEMMA WholePrefix ==
    ASSUME NEW S, NEW s \in Seq(S)
    PROVE  SubSeq(s, 1, Len(s)) = s
OBVIOUS

\* A crash may leave all of the manifest.
LEMMA LeftHasLast ==
    ASSUME NEW edits \in Seq(EditRec), NEW synced \in 0..Len(edits)
    PROVE  Replay(edits) \in LeftOf(edits, synced) /\ LeftOf(edits, synced) \subseteq State
<1>1. Len(edits) \in synced..Len(edits)
  OBVIOUS
<1>2. Replay(edits) \in LeftOf(edits, synced)
  BY <1>1, WholePrefix DEF LeftOf
<1>3. ASSUME NEW k \in synced..Len(edits) PROVE Replay(SubSeq(edits, 1, k)) \in State
  <2>1. k \in 0..Len(edits)
    OBVIOUS
  <2> QED
    BY <2>1, PrefixType, ReplayType
<1> QED
  BY <1>2, <1>3 DEF LeftOf

\* A record is appended.
LEMMA LeftAppend ==
    ASSUME NEW edits \in Seq(EditRec), NEW synced \in 0..Len(edits), NEW e \in EditRec
    PROVE  /\ Append(edits, e) \in Seq(EditRec)
           /\ Len(Append(edits, e)) = Len(edits) + 1
           /\ synced < Len(Append(edits, e))
           /\ Replay(Append(edits, e)) = Apply(Replay(edits), e)
           /\ LeftOf(Append(edits, e), synced) = LeftOf(edits, synced) \cup {Replay(Append(edits, e))}
<1>1. PICK more : more = Append(edits, e)
  OBVIOUS
<1>2. PICK n : n = Len(edits)
  OBVIOUS
<1>3. more \in Seq(EditRec) /\ Len(more) = n + 1 /\ n \in Nat /\ synced \in 0..n
  BY <1>1, <1>2
<1>4. \A k \in synced..n : SubSeq(more, 1, k) = SubSeq(edits, 1, k)
  <2> TAKE k \in synced..n
  <2>1. k \in 0..Len(edits)
    BY <1>2, <1>3
  <2> QED
    BY <1>1, <2>1, PrefixOfAppend
<1>5. SubSeq(more, 1, n + 1) = more
  BY <1>3, WholePrefix
<1>6. synced..Len(more) = (synced..n) \cup {n + 1}
  BY <1>3
<1>7. LeftOf(more, synced) = LeftOf(edits, synced) \cup {Replay(more)}
  BY <1>2, <1>4, <1>5, <1>6 DEF LeftOf
<1> QED
  BY <1>1, <1>2, <1>3, <1>7, ReplayAppend

\* The manifest is synced.
LEMMA LeftSynced ==
    ASSUME NEW edits \in Seq(EditRec)
    PROVE  LeftOf(edits, Len(edits)) = {Replay(edits)}
<1>1. Len(edits) \in Nat
  OBVIOUS
<1>2. PICK n : n = Len(edits)
  OBVIOUS
<1>3. n..n = {n} /\ SubSeq(edits, 1, n) = edits
  BY <1>1, <1>2, WholePrefix
<1> QED
  BY <1>2, <1>3 DEF LeftOf

\* A record that was cut short at the end changes nothing.
LEMMA TornIsSkipped ==
    ASSUME NEW edits \in Seq(EditRec)
    PROVE  /\ TornEdit \in EditRec
           /\ Replay(Append(edits, TornEdit)) = Replay(edits)
<1>1. TornEdit \in EditRec /\ TornEdit.kind = "torn"
  BY DEF TornEdit, Edit, EditRec, Num, FileRef
<1>2. Replay(Append(edits, TornEdit)) = Apply(Replay(edits), TornEdit)
  BY <1>1, ReplayAppend
<1> QED
  BY <1>1, <1>2 DEF Apply

\* What a crash leaves is one of these, and nothing else is possible then.
LEMMA LeftByCrash ==
    ASSUME NEW edits \in Seq(EditRec), NEW synced \in 0..Len(edits),
           NEW left \in Remains(edits, synced, TornEdit)
    PROVE  /\ left \in Seq(EditRec)
           /\ Replay(left) \in LeftOf(edits, synced)
           /\ LeftOf(left, Len(left)) = {Replay(left)}
<1>1. /\ left \in Seq(EditRec)
      /\ \E k \in synced..Len(edits) : Replay(left) = Replay(SubSeq(edits, 1, k))
  <2>1. ASSUME NEW k \in synced..Len(edits), left = SubSeq(edits, 1, k)
        PROVE  left \in Seq(EditRec) /\ Replay(left) = Replay(SubSeq(edits, 1, k))
    <3>1. k \in 0..Len(edits)
      OBVIOUS
    <3> QED
      BY <2>1, <3>1, PrefixType
  <2>2. ASSUME NEW k \in synced..(Len(edits) - 1), left = Append(SubSeq(edits, 1, k), TornEdit)
        PROVE  k \in synced..Len(edits) /\ left \in Seq(EditRec) /\ Replay(left) = Replay(SubSeq(edits, 1, k))
    <3>1. k \in 0..Len(edits) /\ k \in synced..Len(edits)
      OBVIOUS
    <3>2. PICK s : s = SubSeq(edits, 1, k)
      OBVIOUS
    <3>3. s \in Seq(EditRec)
      BY <3>1, <3>2, PrefixType
    <3>4. left \in Seq(EditRec)
      BY <2>2, <3>2, <3>3, TornIsSkipped, AppendProperties
    <3> QED
      BY <2>2, <3>1, <3>2, <3>3, <3>4, TornIsSkipped
  <2> QED
    BY <2>1, <2>2 DEF Remains
<1> QED
  BY <1>1, LeftSynced DEF LeftOf

\* The last record is lost or cut short.
LEMMA LeftBefore ==
    ASSUME NEW edits \in Seq(EditRec), NEW synced \in 0..Len(edits), synced < Len(edits),
           NEW before, before = SubSeq(edits, 1, Len(edits) - 1),
           NEW left \in {edits, before, Append(before, TornEdit)}
    PROVE  /\ left \in Seq(EditRec) /\ synced \in 0..Len(left)
           /\ LeftOf(left, synced) \subseteq LeftOf(edits, synced)
           /\ Replay(left) \in LeftOf(edits, synced)
<1>1. PICK n : n = Len(edits) - 1
  OBVIOUS
<1>2. n \in Nat /\ synced \in 0..n /\ Len(edits) = n + 1 /\ n \in 0..Len(edits) /\ n \in synced..Len(edits)
  BY <1>1
<1>3. before \in Seq(EditRec) /\ Len(before) = n
  BY <1>1, <1>2, PrefixType
<1>4. \A k \in synced..n : SubSeq(before, 1, k) = SubSeq(edits, 1, k)
  <2> TAKE k \in synced..n
  <2>1. k \in 0..n
    BY <1>2
  <2> QED
    BY <1>1, <1>2, <2>1, PrefixOfPrefix
<1>5. Replay(before) \in LeftOf(edits, synced)
  BY <1>1, <1>2 DEF LeftOf
<1>6. synced..n \subseteq synced..Len(edits)
  BY <1>2
<1>7. CASE left = edits
  BY <1>2, <1>7, LeftHasLast
<1>8. CASE left = before
  BY <1>2, <1>3, <1>4, <1>5, <1>6, <1>8 DEF LeftOf
<1>9. CASE left = Append(before, TornEdit)
  <2>1. left \in Seq(EditRec) /\ Len(left) = n + 1
    BY <1>3, <1>9, TornIsSkipped, AppendProperties
  <2>2. \A k \in synced..n : SubSeq(left, 1, k) = SubSeq(edits, 1, k)
    <3> TAKE k \in synced..n
    <3>1. k \in 0..Len(before)
      BY <1>2, <1>3
    <3> QED
      BY <1>3, <1>4, <1>9, <3>1, PrefixOfAppend, TornIsSkipped
  <2>3. SubSeq(left, 1, n + 1) = left /\ Replay(left) = Replay(before)
    BY <1>3, <1>9, <2>1, WholePrefix, TornIsSkipped
  <2>4. synced..Len(left) = (synced..n) \cup {n + 1}
    BY <1>2, <2>1
  <2> QED
    BY <1>2, <1>5, <1>6, <2>1, <2>2, <2>3, <2>4 DEF LeftOf
<1> QED
  BY <1>7, <1>8, <1>9

-----------------------------------------------------------------------------
(* What can be read of a log.                                              *)

\* A reader returns the records before the first one that was cut short.
LEMMA ReadableIsGood ==
    ASSUME NEW recs \in Recs
    PROVE  /\ Readable(recs) \in Recs /\ ToSet(Readable(recs)) = Good(recs)
           /\ \E k \in 0..Len(recs) : /\ Readable(recs) = SubSeq(recs, 1, k)
                                      /\ \A i \in 1..k : recs[i] # Torn
<1> DEFINE Cut == {i \in 1..Len(recs) : recs[i] = Torn}
<1>1. PICK n : n = Len(recs)
  OBVIOUS
<1>2. n \in Nat /\ DOMAIN recs = 1..n
  BY <1>1 DEF Recs
<1>3. CASE Cut = {}
  <2>1. Readable(recs) = recs
    BY <1>3 DEF Readable, SelectInSeq
  <2>2. \A i \in 1..n : recs[i] # Torn
    BY <1>1, <1>3
  <2>3. SubSeq(recs, 1, n) = recs
    BY <1>1, WholePrefix DEF Recs
  <2>4. ToSet(recs) = Good(recs)
    <3>1. {j \in DOMAIN recs : \A k \in 1..j : recs[k] # Torn} = DOMAIN recs
      BY <1>2, <2>2
    <3> QED
      BY <3>1 DEF Good, ToSet
  <2> QED
    BY <1>1, <1>2, <2>1, <2>2, <2>3, <2>4
<1>4. CASE Cut # {}
  <2>1. PICK m \in Cut : \A i \in Cut : m <= i
    <3>1. Cut \in SUBSET Nat
      OBVIOUS
    <3> HIDE DEF Cut
    <3> QED
      BY <1>4, <3>1, LeastNat
  <2>2. m \in Nat /\ m \in 1..n /\ \A i \in Cut : i \in Nat
    BY <1>1, <2>1
  <2>3. Min(Cut) = m
    <3>1. Min(Cut) \in Cut /\ \A i \in Cut : Min(Cut) <= i
      BY <2>1 DEF Min
    <3>2. Min(Cut) <= m /\ m <= Min(Cut) /\ Min(Cut) \in Nat
      BY <2>1, <2>2, <3>1
    <3> HIDE DEF Cut
    <3> QED
      BY <2>2, <3>2
  <2>4. Readable(recs) = SubSeq(recs, 1, m - 1)
    <3>1. SelectInSeq(recs, LAMBDA r : r = Torn) = Min(Cut)
      BY <1>4 DEF SelectInSeq
    <3>2. SelectInSeq(recs, LAMBDA r : r = Torn) = m /\ m # 0
      BY <2>2, <2>3, <3>1
    <3> QED
      BY <3>2 DEF Readable
  <2>5. \A i \in 1..(m - 1) : i \in 1..n /\ recs[i] # Torn
    <3> TAKE i \in 1..(m - 1)
    <3>1. i \in 1..n /\ ~(m <= i)
      BY <1>2, <2>2
    <3> QED
      BY <1>1, <2>1, <3>1
  <2>6. m - 1 \in 0..n
    BY <1>2, <2>2
  <2>7. PICK s : s = SubSeq(recs, 1, m - 1)
    OBVIOUS
  <2>8. s \in Recs /\ DOMAIN s = 1..(m - 1) /\ \A i \in 1..(m - 1) : s[i] = recs[i]
    BY <1>1, <2>2, <2>6, <2>7 DEF Recs
  <2>9. {j \in DOMAIN recs : \A k \in 1..j : recs[k] # Torn} = 1..(m - 1)
    <3>1. ASSUME NEW j \in 1..(m - 1) PROVE j \in DOMAIN recs /\ \A k \in 1..j : recs[k] # Torn
      BY <1>2, <2>5, <2>2
    <3>2. ASSUME NEW j \in 1..n, \A k \in 1..j : recs[k] # Torn PROVE j \in 1..(m - 1)
      <4>1. recs[m] = Torn
        BY <2>1
      <4>2. ~(m \in 1..j)
        BY <3>2, <4>1
      <4> QED
        BY <2>2, <4>2
    <3> QED
      BY <1>2, <3>1, <3>2
  <2>10. ToSet(s) = Good(recs)
    BY <2>8, <2>9 DEF Good, ToSet
  <2> QED
    BY <1>1, <2>4, <2>5, <2>6, <2>7, <2>8, <2>10
<1> QED
  BY <1>3, <1>4

\* Membership, for what follows.
LEMMA InGood ==
    ASSUME NEW recs, NEW w
    PROVE  w \in Good(recs) <=>
             \E i \in DOMAIN recs : w = recs[i] /\ \A k \in 1..i : recs[k] # Torn
BY DEF Good

\* What is read of a log are writes that were appended to it.
LEMMA GoodType ==
    ASSUME NEW recs \in Recs
    PROVE  /\ Good(recs) \subseteq 1..MaxWrites
           /\ \A w \in Good(recs) : \E i \in 1..Len(recs) : w = recs[i]
BY DEF Good, Recs, Torn

\* Less of a log has no more to read.
LEMMA GoodPrefix ==
    ASSUME NEW recs \in Recs, NEW k \in 0..Len(recs)
    PROVE  /\ SubSeq(recs, 1, k) \in Recs
           /\ Good(SubSeq(recs, 1, k)) \subseteq Good(recs)
           /\ \A l \in 0..k : Good(SubSeq(recs, 1, l)) \subseteq Good(SubSeq(recs, 1, k))
<1>1. PICK n : n = Len(recs)
  OBVIOUS
<1>2. n \in Nat /\ DOMAIN recs = 1..n /\ k \in 0..n
  BY <1>1 DEF Recs
<1>3. \A l \in 0..n : /\ SubSeq(recs, 1, l) \in Recs /\ DOMAIN SubSeq(recs, 1, l) = 1..l
                      /\ \A i \in 1..l : SubSeq(recs, 1, l)[i] = recs[i]
  BY <1>1 DEF Recs
<1>4. ASSUME NEW l \in 0..n, NEW w
      PROVE  w \in Good(SubSeq(recs, 1, l)) <=>
               \E i \in 1..l : w = recs[i] /\ \A j \in 1..i : recs[j] # Torn
  <2>1. PICK s : s = SubSeq(recs, 1, l)
    OBVIOUS
  <2>2. DOMAIN s = 1..l /\ \A i \in 1..l : s[i] = recs[i]
    BY <1>3, <2>1
  <2>3. \A i \in 1..l : \A j \in 1..i : j \in 1..l
    BY <1>2
  <2>4. \A i \in 1..l : (\A j \in 1..i : s[j] # Torn) <=> (\A j \in 1..i : recs[j] # Torn)
    BY <2>2, <2>3
  <2>5. w \in Good(s) <=> \E i \in 1..l : w = s[i] /\ \A j \in 1..i : s[j] # Torn
    BY <2>2, InGood, SMTT(30)
  <2> QED
    BY <2>1, <2>2, <2>4, <2>5
<1>5. \A w : w \in Good(recs) <=> \E i \in 1..n : w = recs[i] /\ \A j \in 1..i : recs[j] # Torn
  BY <1>2, InGood
<1>6. \A l \in 0..k : l \in 0..n /\ 1..l \subseteq 1..k
  BY <1>2
<1>7. 1..k \subseteq 1..n
  BY <1>2
<1> QED
  BY <1>2, <1>3, <1>4, <1>5, <1>6, <1>7

\* A record appended to a log is read unless the log was torn before it.
LEMMA GoodAppend ==
    ASSUME NEW recs \in Recs, NEW w \in 0..MaxWrites
    PROVE  /\ Append(recs, w) \in Recs
           /\ Len(Append(recs, w)) = Len(recs) + 1
           /\ \A i \in 1..Len(recs) : Append(recs, w)[i] = recs[i]
           /\ Append(recs, w)[Len(recs) + 1] = w
           /\ Good(recs) \subseteq Good(Append(recs, w))
           /\ Good(Append(recs, w)) \subseteq Good(recs) \cup {w}
           /\ w = Torn => Good(Append(recs, w)) = Good(recs)
           /\ \A k \in 0..Len(recs) : SubSeq(Append(recs, w), 1, k) = SubSeq(recs, 1, k)
<1>1. PICK n, s : n = Len(recs) /\ s = Append(recs, w)
  OBVIOUS
<1>2. n \in Nat /\ DOMAIN recs = 1..n /\ s \in Recs /\ DOMAIN s = 1..(n + 1)
        /\ (\A i \in 1..n : s[i] = recs[i]) /\ s[n + 1] = w /\ Len(s) = n + 1
  BY <1>1 DEF Recs
<1>3. \A i \in 1..n : (\A j \in 1..i : s[j] # Torn) <=> (\A j \in 1..i : recs[j] # Torn)
  <2>1. \A i \in 1..n : \A j \in 1..i : j \in 1..n
    BY <1>2
  <2> QED
    BY <1>2, <2>1
<1>4. ASSUME NEW v \in Good(recs) PROVE v \in Good(s)
  <2>1. PICK i \in 1..n : v = recs[i] /\ \A j \in 1..i : recs[j] # Torn
    BY <1>2, InGood
  <2>2. i \in 1..(n + 1)
    BY <1>2
  <2> QED
    BY <1>2, <1>3, <2>1, <2>2, InGood
<1>5. ASSUME NEW v \in Good(s) PROVE v \in Good(recs) \/ (v = w /\ w # Torn)
  <2>1. PICK i \in 1..(n + 1) : v = s[i] /\ \A j \in 1..i : s[j] # Torn
    BY <1>2, InGood
  <2>2. CASE i = n + 1
    <3>1. n + 1 \in 1..i
      BY <1>2, <2>2
    <3> QED
      BY <1>2, <2>1, <2>2, <3>1
  <2>3. CASE i # n + 1
    <3>1. i \in 1..n
      BY <1>2, <2>3
    <3> QED
      BY <1>2, <1>3, <2>1, <3>1, InGood
  <2> QED
    BY <2>2, <2>3
<1>6. \A k \in 0..n : SubSeq(s, 1, k) = SubSeq(recs, 1, k)
  BY <1>1, PrefixOfAppend DEF Recs
<1> QED
  BY <1>1, <1>2, <1>4, <1>5, <1>6

\* A crash keeps what was synced and adds nothing.
LEMMA GoodRemains ==
    ASSUME NEW recs \in Recs, NEW synced \in 0..Len(recs), NEW left \in Remains(recs, synced, Torn)
    PROVE  /\ left \in Recs
           /\ Good(SubSeq(recs, 1, synced)) \subseteq Good(left) /\ Good(left) \subseteq Good(recs)
           /\ \A i \in 1..Len(left) : left[i] = Torn \/ (i \in 1..Len(recs) /\ left[i] = recs[i])
           /\ \A i, j \in 1..Len(left) : i < j /\ left[j] # Torn => i \in 1..Len(recs) /\ left[i] = recs[i]
<1>1. PICK n : n = Len(recs)
  OBVIOUS
<1>2. n \in Nat /\ synced \in 0..n /\ DOMAIN recs = 1..n
  BY <1>1 DEF Recs
<1>3. ASSUME NEW k \in synced..n
      PROVE  /\ k \in 0..n /\ synced \in 0..k /\ 1..k \subseteq 1..n
             /\ SubSeq(recs, 1, k) \in Recs /\ Len(SubSeq(recs, 1, k)) = k
             /\ \A i \in 1..k : SubSeq(recs, 1, k)[i] = recs[i]
             /\ Good(SubSeq(recs, 1, synced)) \subseteq Good(SubSeq(recs, 1, k))
             /\ Good(SubSeq(recs, 1, k)) \subseteq Good(recs)
  <2>1. k \in 0..n /\ synced \in 0..k /\ 1..k \subseteq 1..n
    BY <1>2
  <2>2. SubSeq(recs, 1, k) \in Recs /\ Len(SubSeq(recs, 1, k)) = k
             /\ \A i \in 1..k : SubSeq(recs, 1, k)[i] = recs[i]
    BY <1>1, <2>1 DEF Recs
  <2> QED
    BY <1>1, <2>1, <2>2, GoodPrefix
<1>4. CASE left \in {SubSeq(recs, 1, k) : k \in synced..n}
  <2>1. PICK k \in synced..n : left = SubSeq(recs, 1, k)
    BY <1>4
  <2> QED
    BY <1>1, <1>3, <2>1
<1>5. CASE left \in {Append(SubSeq(recs, 1, k), Torn) : k \in synced..(n - 1)}
  <2>1. PICK k \in synced..(n - 1) : left = Append(SubSeq(recs, 1, k), Torn)
    BY <1>5
  <2>2. k \in synced..n /\ k \in Nat
    BY <1>2
  <2>3. PICK s : s = SubSeq(recs, 1, k)
    OBVIOUS
  <2>4. /\ s \in Recs /\ Len(s) = k /\ 1..k \subseteq 1..n
        /\ \A i \in 1..k : s[i] = recs[i]
        /\ Good(SubSeq(recs, 1, synced)) \subseteq Good(s)
        /\ Good(s) \subseteq Good(recs)
    BY <1>3, <2>2, <2>3
  <2>5. Torn \in 0..MaxWrites
    BY DEF Torn
  <2>6. left \in Recs /\ Len(left) = k + 1 /\ Good(left) = Good(s)
          /\ (\A i \in 1..k : left[i] = recs[i]) /\ left[k + 1] = Torn
    BY <2>1, <2>3, <2>4, <2>5, GoodAppend
  <2>7. \A i \in 1..(k + 1) : i \in 1..k \/ i = k + 1
    BY <2>2
  <2>8. \A i, j \in 1..(k + 1) : i < j => i \in 1..k
    BY <2>2
  <2> QED
    BY <1>1, <2>4, <2>6, <2>7, <2>8
<1> QED
  BY <1>1, <1>4, <1>5 DEF Remains

-----------------------------------------------------------------------------
(* The writes that count.                                                  *)

\* Counting a sequence or a file number keeps the type of VersionSet.
LEMMA VersionFields ==
    ASSUME NEW v \in VersionState
    PROVE  /\ [v EXCEPT !.last = @ + 1] \in VersionState
           /\ \A n \in Nat : [v EXCEPT !.next = n] \in VersionState
<1>1. v.last + 1 \in Nat
  BY DEF VersionState
<1> QED
  BY <1>1 DEF VersionState

\* What counts was begun.
LEMMA CountsBounded ==
    ASSUME DBTypes, Logged, CURRENT # 0, NEW w, Counts(w)
    PROVE  w \in 1..Len(seqOf)
<1>1. ASSUME NEW files, InTables(table, files, w) PROVE w \in 1..Len(seqOf)
  BY <1>1 DEF InTables, Logged
<1>2. ASSUME NEW from, InLogs(log, from, w) PROVE w \in 1..Len(seqOf)
  <2>1. PICK n \in DOMAIN log : w \in Good(log[n].recs)
    BY <1>2 DEF InLogs
  <2>2. log[n].recs \in Recs
    BY DEF DBTypes, LogFile
  <2>3. w \in 1..MaxWrites /\ \E i \in DOMAIN log[n].recs : w = log[n].recs[i]
    BY <2>1, <2>2, GoodType DEF Recs
  <2>4. w <= Len(seqOf)
    BY <2>3 DEF Logged
  <2> QED
    BY <2>3, <2>4 DEF DBTypes
<1> QED
  BY <1>1, <1>2 DEF Counts, Logged

\* A writer at the head of the queue changes nothing yet.
LEMMA WriteStartStep ==
    ASSUME DBInv, NEW kind \in {"sync", "async", "null"}, WriteStart(kind)
    PROVE  DBInv'
<1> USE DEF DBInv, WriteStart, disk, memory, bgvars, UsedFiles, Left, DiskState
<1>1. DBTypes'
  <2>1. wr' \in Writer
    <3>1. CASE kind = "null"
      BY <3>1 DEF Writer
    <3>2. CASE kind # "null"
      BY <3>2 DEF Writer
    <3> QED
      BY <3>1, <3>2
  <2>2. incidents' \in Nat
    BY DEF DBTypes, Incident
  <2> QED
    BY <2>1, <2>2 DEF DBTypes
<1>2. Phases'
  BY DEF Phases, DBTypes, Opens, Idle
<1>3. Numbered'
  BY DEF Numbered
<1>4. Tables'
  BY DEF Tables, Filled, Fresh
<1>5. Recorded'
  BY DEF Recorded, Filled
<1>6. Durable'
  BY DEF Durable
<1>7. Opened'
  BY DEF Opened, LogsOf
<1>8. Logged'
  BY DEF Logged
<1>9. Sequenced'
  <2>1. \A w : Counts(w)' <=> Counts(w)
    BY DEF Counts
  <2> QED
    BY <2>1 DEF Sequenced, Phases, Write, Attempt
<1>10. Attempt'
  BY DEF Attempt, Phases, Write
<1> QED
  BY <1>1, <1>2, <1>3, <1>4, <1>5, <1>6, <1>7, <1>8, <1>9, <1>10

\* A write refused for bg_error_ changes nothing.
LEMMA WriteRefusedStep ==
    ASSUME DBInv, WriteRefused
    PROVE  DBInv'
<1> USE DEF DBInv, WriteRefused, disk, memory, bgvars, UsedFiles, Left, DiskState
<1>1. DBTypes'
  <2>1. wr' \in Writer
    BY DEF Idle, Writer
  <2> QED
    BY <2>1 DEF DBTypes
<1>2. Phases'
  BY DEF Phases, DBTypes, Opens, Idle
<1>3. Numbered'
  BY DEF Numbered
<1>4. Tables'
  BY DEF Tables, Filled, Fresh
<1>5. Recorded'
  BY DEF Recorded, Filled
<1>6. Durable'
  BY DEF Durable
<1>7. Opened'
  BY DEF Opened, LogsOf
<1>8. Logged'
  BY DEF Logged
<1>9. Sequenced'
  <2>1. \A w : Counts(w)' <=> Counts(w)
    BY DEF Counts
  <2> QED
    BY <2>1 DEF Sequenced, Phases, Write, Attempt
<1>10. Attempt'
  BY DEF Attempt, Idle
<1> QED
  BY <1>1, <1>2, <1>3, <1>4, <1>5, <1>6, <1>7, <1>8, <1>9, <1>10

\* A log that cannot be created leaves the old one in use.
LEMMA SwitchFailsStep ==
    ASSUME DBInv, SwitchFails
    PROVE  DBInv'
<1> USE DEF DBInv, SwitchFails, disk, memory, bgvars, UsedFiles, Left, DiskState
<1>1. DBTypes'
  <2>1. wr' \in Writer
    BY DEF Idle, Writer
  <2>2. incidents' \in Nat
    BY DEF DBTypes, Incident
  <2> QED
    BY <2>1, <2>2 DEF DBTypes
<1>2. Phases'
  BY DEF Phases, DBTypes, Opens, Idle
<1>3. Numbered'
  BY DEF Numbered
<1>4. Tables'
  BY DEF Tables, Filled, Fresh
<1>5. Recorded'
  BY DEF Recorded, Filled
<1>6. Durable'
  BY DEF Durable
<1>7. Opened'
  BY DEF Opened, LogsOf
<1>8. Logged'
  BY DEF Logged
<1>9. Sequenced'
  <2>1. \A w : Counts(w)' <=> Counts(w)
    BY DEF Counts
  <2> QED
    BY <2>1 DEF Sequenced, Phases, Write, Attempt
<1>10. Attempt'
  BY DEF Attempt, Idle
<1> QED
  BY <1>1, <1>2, <1>3, <1>4, <1>5, <1>6, <1>7, <1>8, <1>9, <1>10

\* A reader references a version whose files are all there.
LEMMA ReadStartStep ==
    ASSUME DBInv, NEW r \in Readers, ReadStart(r)
    PROVE  DBInv'
<1> USE DEF DBInv, ReadStart, disk, memory, bgvars, UsedFiles, Left, DiskState
<1>1. DBTypes'
  BY DEF DBTypes, VersionState
<1>2. Phases'
  BY DEF Phases, DBTypes, Opens, Idle
<1>3. Numbered'
  BY DEF Numbered
<1>4. Tables'
  BY DEF Tables, Filled, Fresh
<1>5. Recorded'
  BY DEF Recorded, Filled
<1>6. Durable'
  BY DEF Durable
<1>7. Opened'
  BY DEF Opened, LogsOf
<1>8. Logged'
  BY DEF Logged
<1>9. Sequenced'
  <2>1. \A w : Counts(w)' <=> Counts(w)
    BY DEF Counts
  <2> QED
    BY <2>1 DEF Sequenced, Phases, Write, Attempt
<1>10. Attempt'
  BY DEF Attempt, Phases, Write
<1> QED
  BY <1>1, <1>2, <1>3, <1>4, <1>5, <1>6, <1>7, <1>8, <1>9, <1>10

\* A reader drops its version, and may ask for a compaction.
LEMMA ReadEndStep ==
    ASSUME DBInv, NEW r \in Readers, ReadEnd(r)
    PROVE  DBInv'
<1> USE DEF DBInv, ReadEnd, disk, memory, bgvars, UsedFiles, Left, DiskState
<1>1. DBTypes'
  BY DEF DBTypes, Incident
<1>2. Phases'
  BY DEF Phases, DBTypes, Opens, Idle
<1>3. Numbered'
  BY DEF Numbered
<1>4. Tables'
  BY DEF Tables, Filled, Fresh
<1>5. Recorded'
  BY DEF Recorded, Filled
<1>6. Durable'
  BY DEF Durable
<1>7. Opened'
  BY DEF Opened, LogsOf
<1>8. Logged'
  BY DEF Logged
<1>9. Sequenced'
  <2>1. \A w : Counts(w)' <=> Counts(w)
    BY DEF Counts
  <2> QED
    BY <2>1 DEF Sequenced, Phases, Write, Attempt
<1>10. Attempt'
  BY DEF Attempt, Phases, Write
<1> QED
  BY <1>1, <1>2, <1>3, <1>4, <1>5, <1>6, <1>7, <1>8, <1>9, <1>10

\* A background thread with nothing to do changes nothing.
LEMMA BackgroundIdleStep ==
    ASSUME DBInv, BackgroundIdle
    PROVE  DBInv'
<1> USE DEF DBInv, BackgroundIdle, disk, memory, bgvars, UsedFiles, Left, DiskState
<1>1. DBTypes'
  BY DEF DBTypes, Incident
<1>2. Phases'
  BY DEF Phases, DBTypes, Opens, Idle
<1>3. Numbered'
  BY DEF Numbered
<1>4. Tables'
  BY DEF Tables, Filled, Fresh
<1>5. Recorded'
  BY DEF Recorded, Filled
<1>6. Durable'
  BY DEF Durable
<1>7. Opened'
  BY DEF Opened, LogsOf
<1>8. Logged'
  BY DEF Logged
<1>9. Sequenced'
  <2>1. \A w : Counts(w)' <=> Counts(w)
    BY DEF Counts
  <2> QED
    BY <2>1 DEF Sequenced, Phases, Write, Attempt
<1>10. Attempt'
  BY DEF Attempt, Phases, Write
<1> QED
  BY <1>1, <1>2, <1>3, <1>4, <1>5, <1>6, <1>7, <1>8, <1>9, <1>10

\* A write whose sync fails is in the log but not promised.
LEMMA SyncFailsStep ==
    ASSUME DBInv, SyncFails
    PROVE  DBInv'
<1> USE DEF DBInv, SyncFails, disk, memory, bgvars, UsedFiles, Left, DiskState
<1>0. phase = "up"
  BY DEF Attempt, Phases, Idle, NoComp
<1>1. DBTypes'
  <2>1. wr' \in Writer
    BY DEF Idle, Writer
  <2>2. incidents' \in Nat
    BY DEF DBTypes, Incident
  <2>3. vset' \in VersionState
    BY VersionFields DEF DBTypes
  <2> QED
    BY <2>1, <2>2, <2>3 DEF DBTypes
<1>2. Phases'
  BY DEF Phases, DBTypes, Opens, Idle
<1>3. Numbered'
  BY DEF Numbered
<1>4. Tables'
  BY DEF Tables, Filled, Fresh
<1>5. Recorded'
  BY DEF Recorded, Filled
<1>6. Durable'
  BY DEF Durable
<1>7. Opened'
  BY <1>0 DEF Opened
<1>8. Logged'
  BY DEF Logged
<1>9. Sequenced'
  <2>1. \A w : Counts(w)' <=> Counts(w)
    BY DEF Counts
  <2>2. vset.last \in Nat /\ vset'.last = vset.last + 1 /\ \A w \in 1..Len(seqOf) : seqOf[w] \in Nat
    BY SMTT(30) DEF DBTypes, VersionState
  <2>3. seqOf[Write] = vset'.last
    BY <2>2 DEF Attempt
  <2>4. \A w \in 1..Len(seqOf) : seqOf[w] <= vset.last => seqOf[w] <= vset'.last
    BY <2>2
  <2> QED
    BY <1>0, <2>1, <2>2, <2>3, <2>4 DEF Sequenced, Write
<1>10. Attempt'
  BY DEF Attempt, Idle
<1> QED
  BY <1>1, <1>2, <1>3, <1>4, <1>5, <1>6, <1>7, <1>8, <1>9, <1>10

\* A compaction reads files of the current version, and keeps that version.
LEMMA CompactStartStep ==
    ASSUME DBInv, CompactStart
    PROVE  DBInv'
<1> USE DEF DBInv, CompactStart, disk, memory, bgvars, UsedFiles, Left, DiskState, MayCompact, Quiet, Inputs
<1>p. PICK S \in SUBSET vset.current :
         S # {} /\ comp' = [on |-> TRUE, inputs |-> S, base |-> vset.current, out |-> 0]
  OBVIOUS
<1>1. DBTypes'
  BY <1>p DEF DBTypes, CompState, VersionState
<1>2. Phases'
  BY DEF Phases, DBTypes, Opens, Idle
<1>3. Numbered'
  BY DEF Numbered
<1>4. Tables'
  <2>1. UsedFiles' \subseteq UsedFiles
    BY <1>p
  <2>2. comp'.out = 0 /\ comp'.on /\ comp'.inputs = S /\ comp'.base = vset.current /\ flush = 0
    BY <1>p
  <2>3. comp.out = 0 /\ edit.kind # "compact"
    BY DEF Tables, NoComp, NoEdit
  <2> QED
    BY <1>p, <2>1, <2>2, <2>3 DEF Tables, Filled, Fresh
<1>5. Recorded'
  BY DEF Recorded, Filled
<1>6. Durable'
  BY DEF Durable
<1>7. Opened'
  BY DEF Opened, LogsOf
<1>8. Logged'
  BY DEF Logged
<1>9. Sequenced'
  <2>1. \A w : Counts(w)' <=> Counts(w)
    BY DEF Counts
  <2> QED
    BY <2>1 DEF Sequenced, Phases, Write, Attempt
<1>10. Attempt'
  BY DEF Attempt, Phases, Write
<1> QED
  BY <1>1, <1>2, <1>3, <1>4, <1>5, <1>6, <1>7, <1>8, <1>9, <1>10

\* The output of a compaction that fails is of no version.
LEMMA CompactFailsStep ==
    ASSUME DBInv, CompactFails
    PROVE  DBInv'
<1> USE DEF DBInv, CompactFails, disk, memory, bgvars, UsedFiles, Left, DiskState, Quiet, NoComp
<1>1. DBTypes'
  <2>1. incidents' \in Nat
    BY DEF DBTypes, Incident
  <2>2. comp' \in CompState
    BY DEF CompState
  <2> QED
    BY <2>1, <2>2 DEF DBTypes
<1>2. Phases'
  BY DEF Phases, DBTypes, Opens, Idle
<1>3. Numbered'
  BY DEF Numbered
<1>4. Tables'
  <2>1. UsedFiles' \subseteq UsedFiles
    OBVIOUS
  <2>2. comp'.out = 0 /\ ~comp'.on /\ flush = 0 /\ edit' = edit /\ edit.kind # "compact"
    BY DEF NoEdit
  <2> QED
    BY <2>1, <2>2 DEF Tables, Filled, Fresh
<1>5. Recorded'
  BY DEF Recorded, Filled
<1>6. Durable'
  BY DEF Durable
<1>7. Opened'
  BY DEF Opened, LogsOf
<1>8. Logged'
  BY DEF Logged
<1>9. Sequenced'
  <2>1. \A w : Counts(w)' <=> Counts(w)
    BY DEF Counts
  <2> QED
    BY <2>1 DEF Sequenced, Phases, Write, Attempt
<1>10. Attempt'
  BY DEF Attempt, Phases, Write
<1> QED
  BY <1>1, <1>2, <1>3, <1>4, <1>5, <1>6, <1>7, <1>8, <1>9, <1>10

\* The next sequence number is larger than that of every write that counts.
LEMMA RoomFoundStep ==
    ASSUME DBInv, RoomFound
    PROVE  DBInv'
<1> USE DEF DBInv, RoomFound, disk, memory, bgvars, UsedFiles, Left, DiskState
<1>1. CASE wr.kind = "null"
  <2>1. wr' = Idle /\ seqOf' = seqOf
    BY <1>1
  <2>2. DBTypes'
    BY <2>1 DEF DBTypes, Idle, Writer
  <2>3. Phases'
    BY <2>1 DEF Phases, Idle, Opens
  <2>4. Numbered' /\ Tables' /\ Recorded'
    BY DEF Numbered, Tables, Recorded, Filled, Fresh
  <2>5. Durable' /\ Opened' /\ Logged'
    BY <2>1 DEF Durable, Opened, Logged, LogsOf
  <2>6. \A w : Counts(w)' <=> Counts(w)
    BY DEF Counts
  <2>7. Sequenced' /\ Attempt'
    BY <2>1, <2>6 DEF Sequenced, Attempt, Idle
  <2> QED
    BY <2>2, <2>3, <2>4, <2>5, <2>7
<1>2. CASE wr.kind # "null"
  <2> DEFINE n == Len(seqOf)
  <2>1. /\ n \in Nat /\ n + 1 <= MaxWrites /\ MaxWrites \in Nat
        /\ seqOf \in Seq(Nat) /\ vset.last \in Nat /\ vset.last + 1 \in Nat
    BY <1>2 DEF DBTypes, VersionState, Attempt
  <2>2. seqOf' = Append(seqOf, vset.last + 1) /\ wr' = [wr EXCEPT !.pc = "append"]
    BY <1>2
  <2>3. /\ seqOf' \in Seq(Nat) /\ Len(seqOf') = n + 1 /\ seqOf'[n + 1] = vset.last + 1
        /\ \A w \in 1..n : seqOf'[w] = seqOf[w]
    BY <2>1, <2>2
  <2>4. wr' \in Writer /\ wr'.pc = "append" /\ wr'.kind # "null"
    BY <1>2, <2>2 DEF DBTypes, Writer
  <2>5. phase = "up"
    BY DEF Phases, Idle
  <2>6. 1..n \subseteq 1..(n + 1) /\ n + 1 \notin 1..n /\ \A w \in 1..(n + 1) : w \in 1..n \/ w = n + 1
    BY <2>1
  <2>7. DBTypes'
    BY <2>1, <2>3, <2>4 DEF DBTypes
  <2>8. Phases'
    BY <2>4, <2>5 DEF Phases, Opens, Idle
  <2>9. Numbered' /\ Tables' /\ Recorded'
    BY DEF Numbered, Tables, Recorded, Filled, Fresh
  <2>10. Durable' /\ Opened'
    BY <2>3, <2>5, <2>6 DEF Durable, Opened
  <2>11. Logged'
    <3>1. \A m \in DOMAIN log : \A i \in DOMAIN log[m].recs : log[m].recs[i] \in Nat
      BY DEF DBTypes, LogFile, Recs
    <3>2. \A m \in DOMAIN log : \A i \in DOMAIN log[m].recs : log[m].recs[i] <= n + 1
      BY <2>1, <3>1 DEF Logged
    <3> QED
      BY <2>3, <2>6, <3>2 DEF Logged
  <2>12. \A w : Counts(w)' <=> Counts(w)
    BY DEF Counts
  <2>13. \A w : Counts(w) => w \in 1..n
    BY <2>5, CountsBounded DEF Phases
  <2>14. \A d \in Left : \A w : InTables(table, d.files, w) => w \in 1..n
    BY DEF InTables, Logged
  <2>15. Sequenced'
    BY <2>3, <2>5, <2>6, <2>12, <2>13, <2>14 DEF Sequenced
  <2>16. Attempt'
    <3>1. \A m \in DOMAIN log : \A i \in DOMAIN log[m].recs : log[m].recs[i] # n + 1
      <4>1. \A m \in DOMAIN log : \A i \in DOMAIN log[m].recs :
              log[m].recs[i] \in Nat /\ log[m].recs[i] <= n
        BY DEF DBTypes, LogFile, Recs, Logged
      <4> QED
        BY <2>1, <4>1
    <3>2. n + 1 \notin mem \cup imm.ids \cup must
      BY <2>6 DEF Logged, Durable
    <3> QED
      BY <2>1, <2>3, <2>4, <2>5, <2>6, <3>1, <3>2 DEF Attempt, Logged, Write
  <2> QED
    BY <2>7, <2>8, <2>9, <2>10, <2>11, <2>15, <2>16
<1> QED
  BY <1>1, <1>2

-----------------------------------------------------------------------------
(* The writer at its log.                                                  *)

\* The logs with a record, or part of one, more at the end of the current one.
Extended(l2, w) ==
  /\ l2 \in [DOMAIN log -> LogFile] /\ DOMAIN l2 = DOMAIN log
  /\ \A n \in DOMAIN log : n # logfile => l2[n] = log[n]
  /\ l2[logfile].synced = log[logfile].synced
  /\ l2[logfile].recs = Append(log[logfile].recs, w)

\* What is read of them.
ReadAlike(l2, w) ==
  /\ \A n \in DOMAIN log : /\ Good(log[n].recs) \subseteq Good(l2[n].recs)
                           /\ w = Torn => Good(l2[n].recs) = Good(log[n].recs)
                           /\ GoodSynced(l2[n]) = GoodSynced(log[n])
  /\ \A from, v : /\ InLogs(log, from, v) => InLogs(l2, from, v)
                  /\ InLogs(l2, from, v) => InLogs(log, from, v) \/ (v = w /\ w # Torn)
                  /\ InSynced(l2, from, v) <=> InSynced(log, from, v)

\* A log with one more record is read as before, but for the last write.
LEMMA LogExtended ==
    ASSUME DBTypes, logfile \in DOMAIN log, NEW w \in 0..MaxWrites, NEW l2, Extended(l2, w)
    PROVE  ReadAlike(l2, w)
<1> USE DEF Extended
<1>0. log \in [DOMAIN log -> LogFile]
  BY DEF DBTypes
<1>1. PICK r, y, q : r = log[logfile].recs /\ y = log[logfile].synced /\ q = l2[logfile].recs
  OBVIOUS
<1>2. r \in Recs /\ y \in 0..Len(r) /\ Len(r) \in Nat /\ q = Append(r, w)
  BY <1>0, <1>1 DEF LogFile, Recs
<1>3. /\ Good(r) \subseteq Good(q) /\ Good(q) \subseteq Good(r) \cup {w}
      /\ w = Torn => Good(q) = Good(r)
      /\ SubSeq(q, 1, y) = SubSeq(r, 1, y)
      /\ q \in Recs
  BY <1>2, GoodAppend
<1>4. Torn \notin Good(q)
  BY <1>3, GoodType DEF Torn
<1>5. \A n \in DOMAIN log : /\ Good(log[n].recs) \subseteq Good(l2[n].recs)
                            /\ Good(l2[n].recs) \subseteq Good(log[n].recs) \cup {w}
                            /\ w = Torn => Good(l2[n].recs) = Good(log[n].recs)
                            /\ Torn \in Good(l2[n].recs) => Torn \in Good(log[n].recs)
                            /\ GoodSynced(l2[n]) = GoodSynced(log[n])
  <2> TAKE n \in DOMAIN log
  <2>1. CASE n = logfile
    BY <1>1, <1>3, <1>4, <2>1 DEF GoodSynced
  <2>2. CASE n # logfile
    BY <2>2
  <2> QED
    BY <2>1, <2>2
<1>6. DOMAIN l2 = DOMAIN log
  OBVIOUS
<1>7. \A from, v : /\ InLogs(log, from, v) => InLogs(l2, from, v)
                   /\ InLogs(l2, from, v) => InLogs(log, from, v) \/ (v = w /\ w # Torn)
                   /\ InSynced(l2, from, v) <=> InSynced(log, from, v)
  BY <1>5, <1>6 DEF InLogs, InSynced
<1> QED
  BY <1>5, <1>7 DEF ReadAlike

\* How the code appends a record to the current log.
LEMMA AppendedToLog ==
    ASSUME DBTypes, logfile \in DOMAIN log, NEW w \in 0..MaxWrites,
           NEW l2, l2 = [log EXCEPT ![logfile].recs = @ \o <<w>>]
    PROVE  Extended(l2, w) /\ ReadAlike(l2, w)
<1>1. log \in [DOMAIN log -> LogFile] /\ log[logfile].recs \in Recs
        /\ log[logfile].synced \in Nat /\ log[logfile].synced <= Len(log[logfile].recs)
        /\ log[logfile] \in [recs : Recs, synced : Nat]
  BY DEF DBTypes, LogFile
<1>2. log[logfile].recs \o <<w>> = Append(log[logfile].recs, w)
  BY <1>1 DEF Recs
<1>3. PICK r, y : r = log[logfile].recs /\ y = log[logfile].synced
  OBVIOUS
<1>4. [recs |-> Append(r, w), synced |-> y] \in LogFile
  <2>1. Append(r, w) \in Recs /\ Len(Append(r, w)) = Len(r) + 1
    BY <1>1, <1>3, GoodAppend
  <2>2. y \in Nat /\ Len(r) \in Nat /\ y <= Len(r)
    BY <1>1, <1>3 DEF Recs
  <2> QED
    BY <2>1, <2>2 DEF LogFile
<1>5. l2[logfile] = [recs |-> Append(r, w), synced |-> y] /\ DOMAIN l2 = DOMAIN log
  BY <1>1, <1>2, <1>3
<1>6. \A n \in DOMAIN log : n # logfile => l2[n] = log[n]
  OBVIOUS
<1>7. \A n \in DOMAIN log : l2[n] \in LogFile
  BY <1>1, <1>4, <1>5, <1>6
<1>8. l2 = [n \in DOMAIN log |-> l2[n]]
  OBVIOUS
<1>9. Extended(l2, w)
  <2>1. l2 \in [DOMAIN log -> LogFile]
    BY <1>7, <1>8
  <2>2. l2[logfile].synced = log[logfile].synced /\ l2[logfile].recs = Append(log[logfile].recs, w)
    BY <1>3, <1>5
  <2> QED
    BY <1>5, <1>6, <2>1, <2>2 DEF Extended
<1> QED
  BY <1>9, LogExtended

\* What the writer relies on.
LEMMA WriterFacts ==
    ASSUME DBInv, wr.pc \in {"append", "commit"}
    PROVE  /\ phase = "up" /\ CURRENT # 0 /\ logfile \in DOMAIN log /\ log \in [DOMAIN log -> LogFile]
           /\ Write = Len(seqOf) /\ Write \in 1..MaxWrites /\ Write \in Nat
           /\ vset.last \in Nat /\ seqOf[Write] = vset.last + 1
           /\ \A w \in 1..Len(seqOf) : w <= Write /\ seqOf[w] \in Nat
           /\ Write \in 1..Len(seqOf)
<1>1. phase = "up" /\ logfile \in DOMAIN log /\ seqOf[Write] = vset.last + 1 /\ Len(seqOf) > 0
  BY DEF DBInv, Attempt, Durable
<1>2. /\ log \in [DOMAIN log -> LogFile] /\ seqOf \in Seq(Nat) /\ Len(seqOf) <= MaxWrites
      /\ vset.last \in Nat /\ Len(seqOf) \in Nat
  BY DEF DBInv, DBTypes, VersionState
<1>3. CURRENT # 0
  BY <1>1 DEF DBInv, Phases
<1> QED
  BY <1>1, <1>2, <1>3 DEF Write

\* A log to which the write under way, or a part of it, is added is in order still.
LEMMA LogOrdered ==
    ASSUME DBInv, wr.pc = "append", NEW w \in {Write, Torn},
           NEW q, q = Append(log[logfile].recs, w)
    PROVE  /\ \A i, j \in DOMAIN q : q[i] <= Len(seqOf) /\ (i < j /\ q[j] # Torn => q[i] < q[j])
           /\ q # << >> /\ q[Len(q)] = w
<1>2. /\ phase = "up" /\ CURRENT # 0 /\ logfile \in DOMAIN log /\ log \in [DOMAIN log -> LogFile]
      /\ Write = Len(seqOf) /\ Write \in 1..MaxWrites /\ Write \in Nat
  BY WriterFacts
<1>3. /\ log[logfile].recs \in Recs /\ Len(log[logfile].recs) \in Nat
      /\ DOMAIN log[logfile].recs = 1..Len(log[logfile].recs)
      /\ w \in 0..MaxWrites /\ w <= Len(seqOf)
  BY <1>2 DEF LogFile, Recs, Torn
<1>4. PICK r, n : r = log[logfile].recs /\ n = Len(r)
  OBVIOUS
<1>5. \A i \in 1..n : r[i] \in Nat /\ r[i] <= Len(seqOf) /\ r[i] # Write /\ r[i] < Write
  <2>1. \A i \in 1..n : r[i] \in Nat
    BY <1>3, <1>4, SMTT(30) DEF Recs
  <2> QED
    BY <1>2, <1>3, <1>4, <2>1 DEF DBInv, Logged, Attempt
<1>6. DOMAIN q = 1..(n + 1) /\ Len(q) = n + 1 /\ q[n + 1] = w /\ (\A i \in 1..n : q[i] = r[i])
  BY <1>3, <1>4 DEF Recs
<1>7. \A i \in 1..(n + 1) : i \in 1..n \/ i = n + 1
  BY <1>3, <1>4
<1>8. \A i, j \in 1..(n + 1) : i < j => i \in 1..n
  BY <1>3, <1>4
<1>9. \A i, j \in 1..n : i < j /\ r[j] # Torn => r[i] < r[j]
  BY <1>2, <1>3, <1>4 DEF DBInv, Logged
<1>10. \A i \in 1..(n + 1) : q[i] <= Len(seqOf)
  BY <1>3, <1>5, <1>6, <1>7
<1>11. ASSUME NEW i \in 1..(n + 1), NEW j \in 1..(n + 1), i < j, q[j] # Torn PROVE q[i] < q[j]
  <2>1. i \in 1..n /\ q[i] = r[i]
    BY <1>6, <1>8, <1>11
  <2>2. CASE j = n + 1
    <3>1. w = Write
      BY <1>6, <1>11, <2>2
    <3> QED
      BY <1>5, <1>6, <2>1, <2>2, <3>1
  <2>3. CASE j # n + 1
    BY <1>6, <1>7, <1>9, <1>11, <2>1, <2>3
  <2> QED
    BY <2>2, <2>3
<1>12. n + 1 # 0
  BY <1>3, <1>4
<1> QED
  BY <1>6, <1>10, <1>11, <1>12

\* AddRecord: the write is in the log before it is anywhere else.
LEMMA LogAppendStep ==
    ASSUME DBInv, LogAppend
    PROVE  DBInv'
<1> USE DEF LogAppend, Append2Log
<1>1. wr.pc = "append" /\ wr' = [wr EXCEPT !.pc = "commit"] /\ wr'.pc = "commit" /\ wr' \in Writer
        /\ wr'.kind = wr.kind
  BY DEF DBInv, DBTypes, Writer
<1>2. /\ phase = "up" /\ CURRENT # 0 /\ logfile \in DOMAIN log /\ log \in [DOMAIN log -> LogFile]
      /\ Write = Len(seqOf) /\ Write \in 1..MaxWrites /\ Write \in Nat
      /\ vset.last \in Nat /\ seqOf[Write] = vset.last + 1
      /\ \A w \in 1..Len(seqOf) : w <= Write /\ seqOf[w] \in Nat
      /\ Write \in 1..Len(seqOf)
  BY <1>1, WriterFacts
<1>3. Extended(log', Write) /\ ReadAlike(log', Write)
  <2>1. PICK l2, w : l2 = [log EXCEPT ![logfile].recs = @ \o <<w>>] /\ w = Write
    OBVIOUS
  <2>2. l2 = log' /\ w \in 0..MaxWrites /\ DBTypes
    BY <1>2, <2>1 DEF DBInv
  <2>3. Extended(l2, w) /\ ReadAlike(l2, w)
    BY <1>2, <2>1, <2>2, AppendedToLog
  <2> QED
    BY <2>1, <2>2, <2>3
<1> USE DEF Extended, ReadAlike
<1>4. DBTypes'
  BY <1>1, <1>3 DEF DBInv, DBTypes, disk, memory, bgvars
<1>5. Phases'
  BY <1>1, <1>2, <1>3 DEF DBInv, Phases, Idle, Opens, memory, bgvars
<1>6. Numbered'
  BY <1>3 DEF DBInv, Numbered, UsedFiles, Left, DiskState, memory, bgvars
<1>7. Tables' /\ Recorded'
  BY DEF DBInv, Tables, Recorded, Filled, Fresh, UsedFiles, Left, DiskState, memory, bgvars
<1>8. Durable'
  BY <1>2, <1>3 DEF DBInv, Durable, Left, memory, bgvars
<1>9. Opened'
  BY <1>2 DEF Opened
<1>10. Logged'
  <2>1. PICK q : q = Append(log[logfile].recs, Write)
    OBVIOUS
  <2>2. \A i, j \in DOMAIN q : q[i] <= Len(seqOf) /\ (i < j /\ q[j] # Torn => q[i] < q[j])
    BY <1>1, <2>1, LogOrdered
  <2>10. \A m \in DOMAIN log' : \A i, j \in DOMAIN log'[m].recs :
          /\ log'[m].recs[i] <= Len(seqOf)
          /\ i < j /\ log'[m].recs[j] # Torn => log'[m].recs[i] < log'[m].recs[j]
    <3> TAKE m \in DOMAIN log'
    <3>0. log'[logfile].recs = q
      BY <1>3, <2>1
    <3>1. CASE m = logfile
      <4> HIDE DEF LogAppend, Append2Log, Extended, ReadAlike
      <4> QED
        BY <2>2, <3>0, <3>1
    <3>2. CASE m # logfile
      BY <1>3, <3>2 DEF DBInv, Logged
    <3> QED
      BY <3>1, <3>2
  <2> HIDE DEF LogAppend
  <2>12. seqOf' = seqOf /\ table' = table /\ mem' = mem /\ imm' = imm
    BY DEF LogAppend, memory
  <2> QED
    BY <2>10, <2>12 DEF DBInv, Logged
<1>11. Sequenced'
  <2>1. \A v : Counts(v)' => Counts(v) \/ v = Write
    BY <1>2, <1>3 DEF Counts, memory, Left
  <2>2. \A v \in 1..Len(seqOf) : Counts(v) => seqOf[v] <= vset.last
    BY <1>1, <1>2 DEF DBInv, Sequenced
  <2>3. \A a \in 1..Len(seqOf) : seqOf[a] <= vset.last => seqOf[a] < seqOf[Write]
    BY <1>2
  <2>4. \A b \in 1..Len(seqOf) : ~(Write < b)
    BY <1>2
  <2> QED
    BY <1>1, <1>2, <2>1, <2>2, <2>3, <2>4 DEF DBInv, Sequenced, Left, Write
<1>12. Attempt'
  <2>1. PICK q : q = Append(log[logfile].recs, Write)
    OBVIOUS
  <2>2. q # << >> /\ q[Len(q)] = Write
    BY <1>1, <2>1, LogOrdered
  <2> QED
    BY <1>1, <1>2, <1>3, <2>1, <2>2 DEF DBInv, Attempt, Write, memory
<1> QED
  BY <1>4, <1>5, <1>6, <1>7, <1>8, <1>9, <1>10, <1>11, <1>12 DEF DBInv

\* AddRecord fails: whatever of the record is there, no promise was made for it.
LEMMA LogAppendFailsStep ==
    ASSUME DBInv, LogAppendFails
    PROVE  DBInv'
<1>1. /\ wr.pc = "append" /\ wr' = Idle /\ vset' = [vset EXCEPT !.last = @ + 1]
      /\ incidents' \in Nat
      /\ UNCHANGED <<table, manifest, CURRENT, phase, opening, memory, bgvars, bg_error, held,
                     seqOf, must, safe>>
  BY DEF DBInv, DBTypes, LogAppendFails, Incident
<1>2. /\ phase = "up" /\ CURRENT # 0 /\ logfile \in DOMAIN log /\ log \in [DOMAIN log -> LogFile]
      /\ Write = Len(seqOf) /\ Write \in 1..MaxWrites /\ Write \in Nat
      /\ vset.last \in Nat /\ seqOf[Write] = vset.last + 1
      /\ \A w \in 1..Len(seqOf) : w <= Write /\ seqOf[w] \in Nat
      /\ Write \in 1..Len(seqOf)
  BY <1>1, WriterFacts
<1>3. log' = log \/ \E w \in {Write, Torn} : Extended(log', w) /\ ReadAlike(log', w)
  <2>1. PICK recs \in {<< >>, <<Write>>, <<Torn>>} : log' = [log EXCEPT ![logfile].recs = @ \o recs]
    BY DEF LogAppendFails, Append2Log
  <2>2. CASE recs = << >>
    <3>1. log[logfile] \in [recs : Recs, synced : Nat] /\ log[logfile].recs \o << >> = log[logfile].recs
      BY <1>2 DEF LogFile, Recs
    <3>2. log' = log
      BY <1>2, <2>1, <2>2, <3>1
    <3> QED
      BY <3>2
  <2>3. CASE recs # << >>
    <3>1. PICK w, l2 : w \in {Write, Torn} /\ recs = <<w>> /\ l2 = [log EXCEPT ![logfile].recs = @ \o <<w>>]
      BY <2>1, <2>3
    <3>2. l2 = log' /\ w \in 0..MaxWrites /\ DBTypes
      BY <1>2, <2>1, <3>1 DEF DBInv, Torn
    <3>3. Extended(l2, w) /\ ReadAlike(l2, w)
      BY <1>2, <3>1, <3>2, AppendedToLog
    <3> QED
      BY <3>1, <3>2, <3>3
  <2> QED
    BY <2>2, <2>3
<1>4. /\ log' \in [DOMAIN log -> LogFile] /\ DOMAIN log' = DOMAIN log
      /\ \A n \in DOMAIN log : /\ Good(log[n].recs) \subseteq Good(log'[n].recs)
                               /\ GoodSynced(log'[n]) = GoodSynced(log[n])
      /\ \A from, v : /\ InLogs(log, from, v) => InLogs(log', from, v)
                      /\ InLogs(log', from, v) => InLogs(log, from, v) \/ v = Write
                      /\ InSynced(log', from, v) <=> InSynced(log, from, v)
  BY <1>2, <1>3, ZenonT(60) DEF Extended, ReadAlike
<1> USE DEF DBInv, disk, memory, bgvars, UsedFiles, Left, DiskState
<1>5. DBTypes'
  BY <1>1, <1>4, VersionFields DEF DBTypes, Writer, Idle
<1>6. Phases'
  BY <1>1, <1>2 DEF Phases, Idle, Opens
<1>7. Numbered' /\ Tables' /\ Recorded'
  BY <1>1, <1>2, <1>4, SMTT(30) DEF Numbered, Tables, Recorded, Filled, Fresh
<1>8. Durable'
  <2>1. vset'.log = vset.log /\ vset'.current = vset.current
    BY <1>1 DEF DBTypes, VersionState
  <2>2. Durable /\ Left' = Left
    BY <1>1
  <2>3. UNCHANGED <<table, CURRENT, phase, mem, imm, logfile, seqOf, must, safe>>
    BY <1>1
  <2> HIDE DEF DBInv, UsedFiles, Left, DiskState
  <2> QED
    BY <1>2, <1>4, <2>1, <2>2, <2>3 DEF Durable
<1>9. Opened'
  BY <1>1, <1>2 DEF Opened
<1>10. Logged'
  <2>1. ASSUME NEW w \in {Write, Torn}, Extended(log', w) PROVE Logged'
    <3>1. PICK q : q = Append(log[logfile].recs, w)
      OBVIOUS
    <3>2. \A i, j \in DOMAIN q : q[i] <= Len(seqOf) /\ (i < j /\ q[j] # Torn => q[i] < q[j])
      BY <1>1, <3>1, LogOrdered
    <3>3. log'[logfile].recs = q /\ DOMAIN log' = DOMAIN log
          /\ \A n \in DOMAIN log : n # logfile => log'[n] = log[n]
      BY <2>1, <3>1 DEF Extended
    <3>4. \A m \in DOMAIN log' : \A i, j \in DOMAIN log'[m].recs :
            /\ log'[m].recs[i] <= Len(seqOf)
            /\ i < j /\ log'[m].recs[j] # Torn => log'[m].recs[i] < log'[m].recs[j]
      <4> TAKE m \in DOMAIN log'
      <4>1. CASE m = logfile
        BY <3>2, <3>3, <4>1
      <4>2. CASE m # logfile
        BY <3>3, <4>2 DEF Logged
      <4> QED
        BY <4>1, <4>2
    <3> QED
      BY <1>1, <3>4 DEF Logged
  <2>2. CASE log' = log
    BY <1>1, <2>2 DEF Logged
  <2> QED
    BY <1>3, <2>1, <2>2
<1>11. Sequenced'
  <2>1. \A v : Counts(v)' => Counts(v) \/ v = Write
    BY <1>1, <1>2, <1>4 DEF Counts
  <2>2. \A v \in 1..Len(seqOf) : Counts(v) => seqOf[v] <= vset.last
    BY <1>1, <1>2 DEF Sequenced
  <2>3. vset'.last = vset.last + 1
    BY <1>1 DEF DBTypes, VersionState
  <2>4. \A a \in 1..Len(seqOf) : seqOf[a] <= vset.last => seqOf[a] < seqOf[Write] /\ seqOf[a] <= vset'.last
    BY <1>2, <2>3
  <2>5. \A b \in 1..Len(seqOf) : ~(Write < b)
    BY <1>2
  <2>6. seqOf[Write] <= vset'.last
    BY <1>2, <2>3
  <2> QED
    BY <1>1, <1>2, <2>1, <2>2, <2>4, <2>5, <2>6 DEF Sequenced
<1>12. Attempt'
  BY <1>1 DEF Attempt, Idle
<1> QED
  BY <1>5, <1>6, <1>7, <1>8, <1>9, <1>10, <1>11, <1>12

\* The logs with y records of the current one synced, where more may be than before.
SyncedMore(l2, y) ==
  /\ l2 \in [DOMAIN log -> LogFile] /\ DOMAIN l2 = DOMAIN log
  /\ \A n \in DOMAIN log : l2[n].recs = log[n].recs /\ GoodSynced(log[n]) \subseteq GoodSynced(l2[n])
  /\ \A from, v : /\ InLogs(l2, from, v) <=> InLogs(log, from, v)
                  /\ InSynced(log, from, v) => InSynced(l2, from, v)
  /\ y = Len(log[logfile].recs) => GoodSynced(l2[logfile]) = Good(log[logfile].recs)

\* A synced log is read as before.
LEMMA LogSynced ==
    ASSUME DBTypes, logfile \in DOMAIN log, NEW y \in {log[logfile].synced, Len(log[logfile].recs)},
           NEW l2, l2 = [log EXCEPT ![logfile].synced = y]
    PROVE  SyncedMore(l2, y)
<1>1. log \in [DOMAIN log -> LogFile] /\ log[logfile].recs \in Recs
        /\ log[logfile].synced \in Nat /\ log[logfile].synced <= Len(log[logfile].recs)
        /\ log[logfile] \in [recs : Recs, synced : Nat]
  BY DEF DBTypes, LogFile
<1>2. PICK r, z : r = log[logfile].recs /\ z = log[logfile].synced
  OBVIOUS
<1>3. Len(r) \in Nat /\ z \in 0..Len(r) /\ y \in 0..Len(r) /\ y \in Nat /\ y <= Len(r) /\ r \in Recs /\ z \in 0..y
  BY <1>1, <1>2 DEF Recs
<1>4. l2[logfile] = [recs |-> r, synced |-> y] /\ DOMAIN l2 = DOMAIN log
        /\ \A n \in DOMAIN log : n # logfile => l2[n] = log[n]
  BY <1>1, <1>2
<1>5. l2[logfile] \in LogFile
  BY <1>3, <1>4 DEF LogFile
<1>6. l2 = [n \in DOMAIN log |-> l2[n]]
  OBVIOUS
<1>7. l2 \in [DOMAIN log -> LogFile]
  BY <1>1, <1>4, <1>5, <1>6
<1>8. Good(SubSeq(r, 1, z)) \subseteq Good(SubSeq(r, 1, y))
  BY <1>3, GoodPrefix
<1>9. SubSeq(r, 1, Len(r)) = r
  BY <1>3, WholePrefix DEF Recs
<1>10. \A n \in DOMAIN log : l2[n].recs = log[n].recs /\ GoodSynced(log[n]) \subseteq GoodSynced(l2[n])
  <2> TAKE n \in DOMAIN log
  <2>1. CASE n = logfile
    <3>1. l2[logfile].recs = r /\ l2[logfile].synced = y
      BY <1>4
    <3> QED
      BY <1>2, <1>8, <2>1, <3>1 DEF GoodSynced
  <2>2. CASE n # logfile
    BY <1>4, <2>2
  <2> QED
    BY <2>1, <2>2
<1>11. y = Len(r) => GoodSynced(l2[logfile]) = Good(r)
  BY <1>4, <1>9 DEF GoodSynced
<1>12. \A from, v : /\ InLogs(l2, from, v) <=> InLogs(log, from, v)
                    /\ InSynced(log, from, v) => InSynced(l2, from, v)
  BY <1>4, <1>10 DEF InLogs, InSynced
<1> QED
  BY <1>2, <1>4, <1>7, <1>10, <1>11, <1>12 DEF SyncedMore

\* Write answers: what it promises is in the log that is used, and synced if
\* that was asked for.
LEMMA CommitStep ==
    ASSUME DBInv, Commit
    PROVE  DBInv'
<1>1. /\ wr.pc = "commit" /\ wr' = Idle /\ vset' = [vset EXCEPT !.last = @ + 1] /\ mem' = mem \cup {Write}
      /\ UNCHANGED <<table, manifest, CURRENT, phase, opening, imm, logfile, bgvars, bg_error, held,
                     seqOf, incidents>>
  BY DEF Commit
<1>2. /\ phase = "up" /\ CURRENT # 0 /\ logfile \in DOMAIN log /\ log \in [DOMAIN log -> LogFile]
      /\ Write = Len(seqOf) /\ Write \in 1..MaxWrites /\ Write \in Nat
      /\ vset.last \in Nat /\ seqOf[Write] = vset.last + 1
      /\ \A w \in 1..Len(seqOf) : w <= Write /\ seqOf[w] \in Nat
      /\ Write \in 1..Len(seqOf)
  BY <1>1, WriterFacts
<1>3. PICK good : good = Good(log[logfile].recs)
  OBVIOUS
<1>4. ToSet(Readable(log[logfile].recs)) = good
  <2>1. log[logfile].recs \in Recs
    BY <1>2 DEF LogFile
  <2> QED
    BY <1>3, <2>1, ReadableIsGood
<1>5. /\ must' = must \cup ({Write} \cap good)
      /\ safe' = IF wr.kind = "sync" THEN safe \cup (good \cap (must \cup {Write})) ELSE safe
  BY <1>4 DEF Commit
<1>6. \E y : SyncedMore(log', y) /\ (wr.kind = "sync" => y = Len(log[logfile].recs))
  <2>1. PICK y, l2 : /\ y = LengthSynced(log[logfile].recs, wr.kind, log[logfile].synced)
                     /\ l2 = [log EXCEPT ![logfile].synced = y]
    OBVIOUS
  <2>2. l2 = log'
    BY <2>1 DEF Commit
  <2>3. y \in {log[logfile].synced, Len(log[logfile].recs)} /\ (wr.kind = "sync" => y = Len(log[logfile].recs))
    BY <2>1 DEF LengthSynced
  <2>4. SyncedMore(l2, y)
    BY <1>2, <2>1, <2>3, LogSynced DEF DBInv
  <2> QED
    BY <2>2, <2>3, <2>4
<1>7. /\ log' \in [DOMAIN log -> LogFile] /\ DOMAIN log' = DOMAIN log
      /\ \A n \in DOMAIN log : /\ log'[n].recs = log[n].recs
                               /\ GoodSynced(log[n]) \subseteq GoodSynced(log'[n])
      /\ \A from, v : /\ InLogs(log', from, v) <=> InLogs(log, from, v)
                      /\ InSynced(log, from, v) => InSynced(log', from, v)
      /\ wr.kind = "sync" => GoodSynced(log'[logfile]) = good
  BY <1>3, <1>6, Zenon DEF SyncedMore
<1> USE DEF DBInv, disk, memory, bgvars, UsedFiles, Left, DiskState
<1>8. DBTypes'
  BY <1>1, <1>2, <1>7, VersionFields DEF DBTypes, Writer, Idle
<1>9. Phases'
  BY <1>1, <1>2 DEF Phases, Idle, Opens
<1>10. Numbered' /\ Tables' /\ Recorded'
  BY <1>1, <1>2, <1>7 DEF Numbered, Tables, Recorded, Filled, Fresh
<1>11. Durable'
  <2>1. vset'.log = vset.log /\ vset'.current = vset.current
    BY <1>1 DEF DBTypes, VersionState
  <2>2. Durable /\ Left' = Left /\ Write \notin mem \cup imm.ids \cup must
    BY <1>1 DEF Attempt
  <2>3. UNCHANGED <<table, CURRENT, phase, imm, logfile, seqOf>>
    BY <1>1
  <2> HIDE DEF DBInv, UsedFiles, Left, DiskState
  <2>4. safe' \subseteq must' /\ must' \subseteq 1..Len(seqOf) /\ must' \subseteq must \cup {Write}
    BY <1>2, <1>5, <2>2 DEF Durable
  <2>5. \A w \in must' : w \in mem' \/ w \in imm.ids \/ InTables(table, vset.current, w)
    BY <1>1, <1>2, <2>2, <2>4 DEF Durable
  <2>6. \A w \in mem' \cap must' : w \in Good(log'[logfile].recs)
    BY <1>1, <1>2, <1>3, <1>5, <1>7, <2>2 DEF Durable
  <2>7. \A w \in safe' : w \in safe \/ (wr.kind = "sync" /\ w \in good)
    BY <1>5
  <2>8. \A w \in mem' \cap safe' : w \in GoodSynced(log'[logfile])
    BY <1>1, <1>2, <1>7, <2>2, <2>7 DEF Durable
  <2>9. \A w \in imm.ids \cap must' : InLogs(log', vset.log, w)
    BY <1>2, <1>7, <2>2, <2>4 DEF Durable
  <2>10. \A w \in imm.ids \cap safe' : InSynced(log', vset.log, w)
    <3>1. wr.kind = "sync" => \A w \in good : InSynced(log', vset.log, w)
      BY <1>2, <1>7, <2>2 DEF InSynced, Durable
    <3> QED
      BY <1>2, <1>7, <2>2, <2>7, <3>1 DEF Durable
  <2> QED
    BY <1>2, <1>7, <2>1, <2>2, <2>3, <2>4, <2>5, <2>6, <2>8, <2>9, <2>10 DEF Durable
<1>12. Opened'
  BY <1>1, <1>2 DEF Opened
<1>13. Logged'
  <2>1. Write \notin imm.ids
    BY <1>1 DEF Attempt
  <2> QED
    BY <1>1, <1>2, <1>7, <2>1 DEF Logged
<1>14. Sequenced'
  <2>1. \A v : Counts(v)' => Counts(v) \/ v = Write
    BY <1>1, <1>2, <1>7 DEF Counts
  <2>2. \A v \in 1..Len(seqOf) : Counts(v) => seqOf[v] <= vset.last \/ v = Write
    BY <1>1, <1>2 DEF Sequenced
  <2>3. vset'.last = vset.last + 1
    BY <1>1 DEF DBTypes, VersionState
  <2>4. \A a \in 1..Len(seqOf) : seqOf[a] <= vset.last => seqOf[a] < seqOf[Write] /\ seqOf[a] <= vset'.last
    BY <1>2, <2>3
  <2>5. \A b \in 1..Len(seqOf) : ~(Write < b) /\ (b < Write => b # Write)
    BY <1>2
  <2>6. seqOf[Write] <= vset'.last
    BY <1>2, <2>3
  <2> QED
    BY <1>1, <1>2, <2>1, <2>2, <2>4, <2>5, <2>6, SMTT(30) DEF Sequenced
<1>15. Attempt'
  BY <1>1 DEF Attempt, Idle
<1> QED
  BY <1>8, <1>9, <1>10, <1>11, <1>12, <1>13, <1>14, <1>15

-----------------------------------------------------------------------------
(* A new log.                                                              *)

\* The logs with an empty one, number n, beside them.
WithNewLog(l2, n) ==
  /\ l2 \in [DOMAIN l2 -> LogFile] /\ DOMAIN l2 = DOMAIN log \cup {n}
  /\ \A m \in DOMAIN log : l2[m] = log[m]
  /\ l2[n].recs = << >> /\ l2[n].synced = 0
  /\ \A from, v : /\ InLogs(l2, from, v) <=> InLogs(log, from, v)
                  /\ InSynced(l2, from, v) <=> InSynced(log, from, v)

\* A new log is empty, and the others are read as before.
LEMMA NewLog ==
    ASSUME DBTypes, NEW n \in Num, n \notin DOMAIN log,
           NEW l2, l2 = Put(log, n, [recs |-> << >>, synced |-> 0])
    PROVE  WithNewLog(l2, n)
<1>1. DOMAIN l2 = DOMAIN log \cup {n} /\ l2[n] = [recs |-> << >>, synced |-> 0]
        /\ \A m \in DOMAIN log : l2[m] = log[m]
  BY DEF Put
<1>2. [recs |-> << >>, synced |-> 0] \in LogFile
  BY DEF LogFile, Recs
<1>3. \A m \in DOMAIN l2 : l2[m] \in LogFile
  BY <1>1, <1>2 DEF DBTypes
<1>4. l2 = [m \in DOMAIN l2 |-> l2[m]]
  BY DEF Put
<1>6. l2[n].recs = << >> /\ l2[n].synced = 0
  BY <1>1
<1>5. Good(<< >>) = {} /\ GoodSynced(l2[n]) = {}
  <2>1. Good(<< >>) = {}
    BY DEF Good
  <2>2. SubSeq(<< >>, 1, 0) = << >>
    OBVIOUS
  <2> QED
    BY <1>6, <2>1, <2>2 DEF GoodSynced
<1>7. \A m \in DOMAIN l2 : m = n \/ m \in DOMAIN log
  BY <1>1
<1>8. \A from, v : /\ InLogs(l2, from, v) <=> InLogs(log, from, v)
                   /\ InSynced(l2, from, v) <=> InSynced(log, from, v)
  BY <1>1, <1>5, <1>6, <1>7 DEF InLogs, InSynced
<1> QED
  BY <1>1, <1>3, <1>4, <1>6, <1>8 DEF WithNewLog

\* The old memtable keeps its log until its table is installed.
LEMMA SwitchMemTableStep ==
    ASSUME DBInv, SwitchMemTable
    PROVE  DBInv'
<1>1. PICK n : n = vset.next
  OBVIOUS
<1>2. /\ wr.pc = "room" /\ ~imm.on /\ n \in Num /\ n \in Nat
      /\ log' = Put(log, n, [recs |-> << >>, synced |-> 0])
      /\ logfile' = n /\ vset' = [vset EXCEPT !.next = n + 1]
      /\ imm' = [on |-> TRUE, ids |-> mem] /\ mem' = {}
      /\ wr' = [wr EXCEPT !.force = FALSE] /\ scheduled' = TRUE
      /\ UNCHANGED <<table, manifest, CURRENT, phase, opening, pending, edit, flush, comp,
                 bg_error, held, seqOf, must, safe, incidents>>
  BY <1>1 DEF SwitchMemTable, MaySwitch, HasNumber, NewFileNumber, Num
<1>3. /\ phase = "up" /\ CURRENT # 0 /\ opening.todo = {} /\ imm.ids = {}
      /\ logfile \in DOMAIN log /\ logfile \in Nat /\ logfile < n /\ vset.log < n /\ vset.log <= logfile
      /\ vset.log \in Nat /\ vset.log < n
  BY <1>1, <1>2 DEF DBInv, DBTypes, VersionState, Phases, Durable, Numbered, Idle, NoOpening, NoImm
<1>4. n \notin DOMAIN log /\ \A m \in DOMAIN log : m < n /\ m \in Nat
  BY <1>1, <1>2, <1>3 DEF DBInv, DBTypes, Numbered, Num
<1>5. WithNewLog(log', n)
  <2>1. PICK l2 : l2 = Put(log, n, [recs |-> << >>, synced |-> 0])
    OBVIOUS
  <2>2. WithNewLog(l2, n)
    BY <1>2, <1>4, <2>1, NewLog DEF DBInv
  <2> QED
    BY <1>2, <2>1, <2>2
<1>6. /\ vset' \in VersionState /\ vset'.current = vset.current /\ vset'.log = vset.log
      /\ vset'.next = n + 1 /\ vset'.last = vset.last /\ vset'.man = vset.man
  <2>1. vset \in VersionState
    BY DEF DBInv, DBTypes
  <2>2. vset' \in VersionState
    BY <1>2, <2>1, SMTT(30) DEF VersionState
  <2> QED
    BY <1>2, <2>1, <2>2 DEF VersionState
<1>7. wr' \in Writer /\ wr'.pc = "room" /\ wr'.kind = wr.kind
  BY <1>2 DEF DBInv, DBTypes, Writer
<1> USE DEF DBInv, disk, memory, bgvars, UsedFiles, Left, DiskState, WithNewLog
<1>8. DBTypes'
  <2>1. log' \in [DOMAIN log' -> LogFile] /\ DOMAIN log' \subseteq Num
    BY <1>2, <1>5 DEF DBTypes
  <2>2. logfile' \in 0..MaxFile /\ imm' \in [on : BOOLEAN, ids : SUBSET (1..MaxWrites)]
        /\ mem' \subseteq 1..MaxWrites /\ scheduled' \in BOOLEAN
    BY <1>2 DEF DBTypes, Num
  <2> HIDE DEF UsedFiles, Left, DiskState, WithNewLog
  <2> QED
    BY <1>2, <1>6, <1>7, <2>1, <2>2 DEF DBTypes
<1>9. Phases'
  BY <1>2, <1>3, <1>7 DEF Phases, Idle, Opens
<1>10. Numbered'
  <2>1. vset.next \in Nat /\ \A k \in Nat : k < vset.next => k < n + 1
    BY <1>1, <1>2
  <2>2. \A d \in Left : d.next \in Nat => (d.next <= vset.next => d.next <= vset'.next)
    BY <1>1, <1>2, <1>6
  <2>3. \A d \in Left : d.next \in Nat
    <3>1. manifest[CURRENT] \in ManifestFile
      BY <1>3 DEF DBTypes
    <3> QED
      BY <3>1, LeftHasLast DEF ManifestFile, State
  <2>4. \A f \in UsedFiles : f[2] \in Nat
    <3>1. UsedFiles \subseteq FileRef
      BY DEF DBTypes, CompState, VersionState, OpeningState
    <3> QED
      BY <3>1 DEF FileRef, Num
  <2>5. flush \in Nat /\ comp.out \in Nat /\ vset.man \in Nat
    BY DEF DBTypes, CompState, VersionState
  <2>6. UsedFiles' = UsedFiles
    BY <1>2, <1>6
  <2>7. \A f \in UsedFiles : f[2] < vset'.next
    BY <1>1, <1>2, <1>3, <1>6, <2>1, <2>4 DEF Numbered
  <2>8. \A m \in DOMAIN log' : m < vset'.next
    BY <1>2, <1>4, <1>5, <1>6
  <2>9. logfile' < vset'.next /\ vset'.log < vset'.next /\ vset'.man < vset'.next
        /\ flush' < vset'.next /\ comp'.out < vset'.next
    BY <1>1, <1>2, <1>3, <1>6, <2>1, <2>5 DEF Numbered
  <2>10. Left' = Left
    BY <1>2
  <2> HIDE DEF UsedFiles, Left, DiskState, WithNewLog
  <2> QED
    BY <1>1, <1>2, <1>3, <2>2, <2>3, <2>6, <2>7, <2>8, <2>9, <2>10 DEF Numbered
<1>11. Tables' /\ Recorded'
  BY <1>2, <1>3, <1>6 DEF Tables, Recorded, Filled, Fresh
<1>12. Durable'
  <2> HIDE DEF DBInv, UsedFiles, Left, DiskState
  <2>1. Durable /\ Left' = Left
    BY <1>2 DEF DBInv, Left
  <2>2. \A m \in DOMAIN log' : m <= n
    BY <1>2, <1>4, <1>5
  <2>3. \A w \in mem \cap must : InLogs(log', vset.log, w)
    BY <1>3, <1>5, <2>1 DEF Durable, InLogs
  <2>4. \A w \in mem \cap safe : InSynced(log', vset.log, w)
    BY <1>3, <1>5, <2>1 DEF Durable, InSynced
  <2>5. imm'.ids = mem /\ imm'.on
    BY <1>2
  <2>6. \A d \in Left : d.log = vset.log
    BY <1>2, <1>3, <2>1 DEF Durable
  <2> HIDE DEF WithNewLog
  <2>7. n \in DOMAIN log' /\ n = logfile'
    BY <1>2, <1>5 DEF WithNewLog
  <2> QED
    BY <1>2, <1>3, <1>6, <2>1, <2>2, <2>3, <2>4, <2>5, <2>6, <2>7 DEF Durable
<1>13. Opened'
  BY <1>2, <1>3 DEF Opened
<1>14. Logged'
  <2>1. \A m \in DOMAIN log' : m = n \/ (m \in DOMAIN log /\ log'[m] = log[m])
    BY <1>5
  <2>2. log'[n].recs = << >> /\ DOMAIN << >> = {}
    BY <1>5
  <2> QED
    BY <1>2, <2>1, <2>2 DEF Logged
<1>15. Sequenced'
  <2>1. \A v : Counts(v)' <=> Counts(v)
    BY <1>2, <1>3, <1>5, <1>6 DEF Counts
  <2> QED
    BY <1>2, <1>3, <1>6, <1>7, <2>1 DEF Sequenced
<1>16. Attempt'
  BY <1>2, <1>7 DEF Attempt
<1> QED
  BY <1>8, <1>9, <1>10, <1>11, <1>12, <1>13, <1>14, <1>15, <1>16

-----------------------------------------------------------------------------
(* A new table.                                                            *)

\* The number that comes next is nobody's yet.
LEMMA NextNumber ==
    ASSUME DBInv, phase = "up"
    PROVE  /\ CURRENT # 0 /\ vset.next \in Nat
           /\ \A f \in UsedFiles : f[2] # vset.next /\ f[2] < vset.next + 1
           /\ \A d \in Left : /\ d \in State /\ d.next <= vset.next + 1
                              /\ \A f \in d.files : f[2] # vset.next
           /\ \A m \in DOMAIN log : m < vset.next + 1
           /\ logfile < vset.next + 1 /\ vset.log < vset.next + 1 /\ vset.man < vset.next + 1
           /\ flush < vset.next + 1 /\ comp.out < vset.next + 1
           /\ flush # vset.next /\ comp.out # vset.next
<1>1. CURRENT # 0 /\ opening.todo = {}
  BY DEF DBInv, Phases, NoOpening
<1>2. PICK n : n = vset.next
  OBVIOUS
<1>3. n \in Nat /\ \A k \in Nat : k < n => k < n + 1 /\ k # n
  BY <1>2 DEF DBInv, DBTypes, VersionState
<1>4. \A f \in UsedFiles : f[2] \in Nat
  <2>1. UsedFiles \subseteq FileRef
    BY DEF DBInv, DBTypes, CompState, VersionState, OpeningState, UsedFiles
  <2> QED
    BY <2>1 DEF FileRef, Num
<1>5. Left \subseteq State
  <2>1. manifest[CURRENT] \in ManifestFile
    BY <1>1 DEF DBInv, DBTypes
  <2>2. PICK e, y : e = manifest[CURRENT].edits /\ y = manifest[CURRENT].synced
    OBVIOUS
  <2>3. e \in Seq(EditRec) /\ y \in 0..Len(e)
    BY <2>1, <2>2 DEF ManifestFile
  <2> QED
    BY <2>2, <2>3, LeftHasLast DEF Left
<1>6. \A d \in Left : /\ d.next \in Nat /\ d.next <= n /\ \A f \in d.files : f[2] < d.next /\ f[2] \in Nat
  BY <1>1, <1>2, <1>5 DEF DBInv, Numbered, State, FileRef, Num
<1>7. \A d \in Left : d.next <= n + 1 /\ \A f \in d.files : f[2] # n
  BY <1>3, <1>6
<1>8. \A m \in DOMAIN log : m \in Nat /\ m < n
  BY <1>1, <1>2 DEF DBInv, DBTypes, Num, Numbered
<1>9. /\ logfile \in Nat /\ vset.log \in Nat /\ vset.man \in Nat /\ flush \in Nat /\ comp.out \in Nat
      /\ logfile < n /\ vset.log < n /\ vset.man < n /\ flush < n /\ comp.out < n
      /\ \A f \in UsedFiles : f[2] < n
  BY <1>2 DEF DBInv, DBTypes, VersionState, CompState, Numbered
<1> QED
  BY <1>1, <1>2, <1>3, <1>4, <1>5, <1>7, <1>8, <1>9

\* NewFileNumber changes the next number alone.
LEMMA NumberUsed ==
    ASSUME vset \in VersionState, NEW n \in Nat, vset' = [vset EXCEPT !.next = n + 1]
    PROVE  /\ vset' \in VersionState /\ vset'.current = vset.current /\ vset'.log = vset.log
           /\ vset'.next = n + 1 /\ vset'.last = vset.last /\ vset'.man = vset.man
BY DEF VersionState

\* The tables where only table n may have changed.
OnlyTable(t2, n) ==
  /\ t2 \in [DOMAIN t2 -> SUBSET (1..MaxWrites)] /\ DOMAIN t2 \subseteq Num
  /\ \A m : m # n => (m \in DOMAIN t2 <=> m \in DOMAIN table)
  /\ \A m \in DOMAIN table : m # n => t2[m] = table[m]
  /\ \A files, w : (\A f \in files : f[2] # n) => (InTables(t2, files, w) <=> InTables(table, files, w))

\* A table that is written, changed or deleted leaves the others alone.
LEMMA OneTable ==
    ASSUME DBTypes, NEW n \in Num, NEW S \in SUBSET (1..MaxWrites), NEW t2,
           t2 \in {Put(table, n, S), Only(table, DOMAIN table \ {n})}
             \/ (n \in DOMAIN table /\ t2 = [table EXCEPT ![n] = S])
    PROVE  /\ OnlyTable(t2, n)
           /\ n \in DOMAIN t2 => t2[n] = S
           /\ n \in DOMAIN t2 <=> t2 # Only(table, DOMAIN table \ {n})
<1>1. table \in [DOMAIN table -> SUBSET (1..MaxWrites)] /\ DOMAIN table \subseteq Num
  BY DEF DBTypes
<1>2. /\ \A m : m # n => (m \in DOMAIN t2 <=> m \in DOMAIN table)
      /\ \A m \in DOMAIN table : m # n => t2[m] = table[m]
      /\ n \in DOMAIN t2 => t2[n] = S
      /\ t2 = [m \in DOMAIN t2 |-> t2[m]]
      /\ n \in DOMAIN t2 <=> t2 # Only(table, DOMAIN table \ {n})
  <2>1. CASE t2 = Put(table, n, S)
    <3>1. n \in DOMAIN t2 /\ n \notin DOMAIN Only(table, DOMAIN table \ {n})
      BY <2>1 DEF Put, Only
    <3>2. t2 # Only(table, DOMAIN table \ {n})
      BY <3>1
    <3> QED
      BY <2>1, <3>1, <3>2 DEF Put
  <2>2. CASE t2 = Only(table, DOMAIN table \ {n})
    BY <2>2 DEF Only
  <2>3. CASE n \in DOMAIN table /\ t2 = [table EXCEPT ![n] = S]
    <3>1. n \in DOMAIN t2 /\ n \notin DOMAIN Only(table, DOMAIN table \ {n})
      BY <2>3 DEF Only
    <3>2. t2 # Only(table, DOMAIN table \ {n})
      BY <3>1
    <3> QED
      BY <2>3, <3>1, <3>2
  <2> QED
    BY <2>1, <2>2, <2>3
<1>3. \A m \in DOMAIN t2 : t2[m] \in SUBSET (1..MaxWrites) /\ m \in Num
  BY <1>1, <1>2
<1>4. \A files, w : (\A f \in files : f[2] # n) => (InTables(t2, files, w) <=> InTables(table, files, w))
  BY <1>2 DEF InTables
<1> QED
  BY <1>2, <1>3, <1>4 DEF OnlyTable

\* A table is begun, by a flush or by a compaction.
LEMMA TableBegun ==
    ASSUME DBInv, phase = "up", edit = NoEdit, NEW n, n = vset.next, HasNumber,
           \/ /\ flush = 0 /\ imm.on /\ flush' = n /\ comp' = comp
           \/ /\ comp.on /\ comp.out = 0 /\ comp' = [comp EXCEPT !.out = n] /\ flush' = flush,
           pending' = pending \cup {n}, table' = Put(table, n, {}),
           vset' = [vset EXCEPT !.next = n + 1],
           UNCHANGED <<log, manifest, CURRENT, phase, opening, memory, edit, scheduled, bg_error,
                       wr, held, seqOf, must, safe, incidents>>
    PROVE  DBInv'
<1>1. n \in Num /\ n \in Nat /\ n # 0 /\ vset \in VersionState /\ DBTypes
  BY DEF HasNumber, DBInv, DBTypes, Num
<1>2. /\ CURRENT # 0
      /\ \A f \in UsedFiles : f[2] # n /\ f[2] < n + 1
      /\ \A d \in Left : /\ d.next <= n + 1
                         /\ \A f \in d.files : f[2] # n
      /\ \A m \in DOMAIN log : m < n + 1
      /\ logfile < n + 1 /\ vset.log < n + 1 /\ vset.man < n + 1
      /\ flush < n + 1 /\ comp.out < n + 1 /\ n < n + 1
      /\ flush # n /\ comp.out # n
  BY <1>1, NextNumber
<1>3. /\ vset' \in VersionState /\ vset'.current = vset.current /\ vset'.log = vset.log
      /\ vset'.next = n + 1 /\ vset'.last = vset.last /\ vset'.man = vset.man
  BY <1>1, NumberUsed
<1>4. OnlyTable(table', n) /\ n \in DOMAIN table' /\ table'[n] = {}
  <2>1. PICK t2 : t2 = Put(table, n, {})
    OBVIOUS
  <2>2. OnlyTable(t2, n) /\ n \in DOMAIN t2 /\ t2[n] = {}
    <3>1. n \in DOMAIN t2 /\ t2[n] = {}
      BY <2>1 DEF Put
    <3> QED
      BY <1>1, <2>1, <3>1, OneTable
  <2> QED
    BY <2>1, <2>2
<1>5. /\ comp' \in CompState /\ comp'.base = comp.base /\ comp'.inputs = comp.inputs /\ comp'.on = comp.on
      /\ flush' \in 0..MaxFile
      /\ (flush = 0 /\ flush' = n /\ imm.on /\ comp'.out = comp.out) \/ (comp.out = 0 /\ comp'.out = n /\ flush' = flush)
  <2>1. comp \in CompState /\ flush \in 0..MaxFile
    BY DEF DBInv, DBTypes
  <2> QED
    BY <1>1, <2>1 DEF CompState, Num
<1>6. UsedFiles' = UsedFiles /\ Left' = Left /\ DiskState' = DiskState
  BY <1>3, <1>5 DEF UsedFiles, Left, DiskState
<1>7. /\ \A w : InTables(table', vset.current, w) <=> InTables(table, vset.current, w)
      /\ \A d \in Left : \A w : InTables(table', d.files, w) <=> InTables(table, d.files, w)
  BY <1>2, <1>4 DEF OnlyTable, UsedFiles
<1> USE DEF DBInv, disk, memory, bgvars
<1>8. DBTypes'
  <2>1. pending' \subseteq Num
    BY <1>1 DEF DBTypes
  <2> QED
    BY <1>3, <1>4, <1>5, <2>1 DEF DBTypes, OnlyTable
<1>9. Phases'
  BY <1>2 DEF Phases, Idle, Opens
<1>10. Numbered'
  <2>1. flush' < n + 1 /\ comp'.out < n + 1
    BY <1>2, <1>5
  <2> QED
    BY <1>2, <1>3, <1>6, <2>1 DEF Numbered
<1>11. Tables'
  <2>1. \A f : f[2] # n => (f[2] \in DOMAIN table /\ table[f[2]] # {} => f[2] \in DOMAIN table' /\ table'[f[2]] # {})
    BY <1>4 DEF OnlyTable
  <2>2. Filled(UsedFiles)'
    BY <1>2, <1>6, <2>1 DEF Tables, Filled
  <2>3. \A d \in Left : Filled(d.files)'
    BY <1>2, <2>1 DEF Tables, Filled
  <2>4. \A m : Fresh(m) => Fresh(m)'
    <3> SUFFICES ASSUME NEW m, Fresh(m), m # 0 PROVE Fresh(m)'
      BY DEF Fresh
    <3>1. m \in DOMAIN table'
      BY <1>4 DEF OnlyTable, Fresh
    <3> QED
      BY <1>6, <3>1 DEF Fresh
  <2>5. Fresh(n)'
    BY <1>2, <1>4, <1>6 DEF Fresh
  <2>6. Fresh(flush) /\ Fresh(comp.out) /\ edit'.kind # "compact"
    BY DEF Tables, NoEdit
  <2>7. Fresh(flush)' /\ Fresh(comp.out)'
    <3>1. PICK k, l : k = flush' /\ l = comp'.out
      OBVIOUS
    <3>2. Fresh(k)' /\ Fresh(l)'
      BY <1>5, <2>4, <2>5, <2>6, <3>1
    <3> QED
      BY <3>1, <3>2 DEF Fresh
  <2>8. pending' \subseteq {flush', comp'.out}
    <3>1. 0 \notin pending
      BY DEF DBTypes, Num
    <3> QED
      BY <1>5, <3>1 DEF Tables
  <2>9. flush' # 0 => flush' # comp'.out /\ imm.on
    BY <1>1, <1>2, <1>5 DEF Tables
  <2>10. comp.on \/ (comp' = comp)
    OBVIOUS
  <2> QED
    BY <1>3, <1>5, <1>6, <2>2, <2>3, <2>6, <2>7, <2>8, <2>9, <2>10 DEF Tables
<1>12. Recorded'
  BY <1>2, <1>3, <1>6 DEF Recorded
<1>13. Durable'
  BY <1>2, <1>3, <1>6, <1>7 DEF Durable
<1>14. Opened'
  BY DEF Opened, LogsOf
<1>15. Logged'
  <2>1. \A m \in DOMAIN table' : m = n \/ (m \in DOMAIN table /\ table'[m] = table[m])
    BY <1>4 DEF OnlyTable
  <2> QED
    BY <1>4, <2>1 DEF Logged
<1>16. Sequenced'
  <2>1. \A v : Counts(v)' <=> Counts(v)
    BY <1>3, <1>6, <1>7 DEF Counts
  <2> QED
    BY <1>2, <1>3, <1>6, <1>7, <2>1 DEF Sequenced, Write
<1>17. Attempt'
  <2>1. \A m \in DOMAIN table' : m = n \/ (m \in DOMAIN table /\ table'[m] = table[m])
    BY <1>4 DEF OnlyTable
  <2> QED
    BY <1>3, <1>4, <2>1 DEF Attempt, Write
<1> QED
  BY <1>8, <1>9, <1>10, <1>11, <1>12, <1>13, <1>14, <1>15, <1>16, <1>17

\* WriteLevel0Table's file is in no version and pending.
LEMMA FlushStartStep ==
    ASSUME DBInv, FlushStart
    PROVE  DBInv'
<1>1. PICK n : n = vset.next
  OBVIOUS
<1>2. phase = "up"
  BY DEF FlushStart, MayFlush, DBInv, Phases, NoImm
<1> QED
  BY <1>1, <1>2, TableBegun DEF FlushStart, MayFlush, Quiet, NewFileNumber

\* OpenCompactionOutputFile's file is in no version and pending.
LEMMA CompactOpenStep ==
    ASSUME DBInv, CompactOpen
    PROVE  DBInv'
<1>1. PICK n : n = vset.next
  OBVIOUS
<1>2. phase = "up"
  BY DEF CompactOpen, DBInv, Phases, NoComp
<1> QED
  BY <1>1, <1>2, TableBegun DEF CompactOpen, Quiet, NewFileNumber

-----------------------------------------------------------------------------
(* An edit on its way to the manifest.                                     *)

\* What the manifest that CURRENT names says, and may say after a crash.
LEMMA CurrentLeft ==
    ASSUME DBTypes, CURRENT # 0
    PROVE  /\ manifest[CURRENT] \in [edits : Seq(EditRec), synced : Nat]
           /\ manifest[CURRENT].edits \in Seq(EditRec)
           /\ manifest[CURRENT].synced \in 0..Len(manifest[CURRENT].edits)
           /\ DiskState \in Left /\ Left \subseteq State
<1>1. manifest[CURRENT] \in ManifestFile
  BY DEF DBTypes
<1>2. PICK e, y : e = manifest[CURRENT].edits /\ y = manifest[CURRENT].synced
  OBVIOUS
<1>3. e \in Seq(EditRec) /\ y \in 0..Len(e)
  BY <1>1, <1>2 DEF ManifestFile
<1>4. Replay(e) \in LeftOf(e, y) /\ LeftOf(e, y) \subseteq State
  BY <1>3, LeftHasLast
<1> QED
  BY <1>1, <1>2, <1>3, <1>4 DEF Left, DiskState, ManifestFile

\* After the append of an edit the manifest may say one thing more.
LEMMA EditAppended ==
    ASSUME DBTypes, CURRENT # 0, vset.man = CURRENT, CURRENT' = CURRENT,
           NEW e \in EditRec, AppendEdit(e)
    PROVE  /\ manifest' \in [DOMAIN manifest' -> ManifestFile] /\ DOMAIN manifest' = DOMAIN manifest
           /\ manifest'[CURRENT].synced < Len(manifest'[CURRENT].edits)
           /\ DiskState' = Apply(DiskState, e) /\ Left' = Left \cup {DiskState'}
<1>1. PICK s, y : s = manifest[CURRENT].edits /\ y = manifest[CURRENT].synced
  OBVIOUS
<1>2. /\ s \in Seq(EditRec) /\ y \in 0..Len(s) /\ manifest[CURRENT] \in [edits : Seq(EditRec), synced : Nat]
      /\ CURRENT \in DOMAIN manifest
  BY <1>1, CurrentLeft DEF DBTypes
<1>3. PICK s2 : s2 = Append(s, e)
  OBVIOUS
<1>4. /\ manifest'[CURRENT] = [edits |-> s2, synced |-> y] /\ DOMAIN manifest' = DOMAIN manifest
      /\ \A n \in DOMAIN manifest : n # CURRENT => manifest'[n] = manifest[n]
      /\ manifest' = [n \in DOMAIN manifest |-> manifest'[n]]
  BY <1>1, <1>2, <1>3 DEF AppendEdit
<1>5. /\ s2 \in Seq(EditRec) /\ y < Len(s2) /\ Replay(s2) = Apply(Replay(s), e)
      /\ LeftOf(s2, y) = LeftOf(s, y) \cup {Replay(s2)}
  BY <1>2, <1>3, LeftAppend
<1>6. manifest'[CURRENT] \in ManifestFile
  <2>1. y \in Nat /\ y <= Len(s2)
    BY <1>2, <1>5
  <2> QED
    BY <1>4, <1>5, <2>1 DEF ManifestFile
<1>7. \A n \in DOMAIN manifest : manifest'[n] \in ManifestFile
  BY <1>4, <1>6 DEF DBTypes
<1> QED
  BY <1>1, <1>4, <1>5, <1>7 DEF DiskState, Left

\* How edit e, whose output is table n, is written.
Writes(e, n) ==
  /\ e \in EditRec /\ e.kind = "edit" /\ e.next = vset.next /\ e.last = vset.last /\ AppendEdit(e)
  /\ OnlyTable(table', n)
  /\ \A f \in UsedFiles : f[2] # n
  /\ \A d \in Left : \A f \in d.files : f[2] # n
  /\ n \in DOMAIN table' => \A w \in table'[n] : w \in imm.ids \/ InTables(table, vset.current, w)
  /\ \A f \in e.add : f[2] < vset.next /\ f[2] \in DOMAIN table' /\ table'[f[2]] # {}
  /\ \A w : InTables(table, e.del, w) => InTables(table', e.add, w)
  /\ \A w : InTables(table', e.add, w) => w \in imm.ids \/ InTables(table, vset.current, w)
  /\ \/ e.log = vset.log
     \/ e.log = logfile /\ imm.on /\ \A w \in imm.ids : InTables(table', e.add, w)
  /\ flush' \in {0, flush} /\ comp' = comp
  /\ UNCHANGED <<log, CURRENT, phase, opening, vset, memory, scheduled, bg_error, wr, held,
                 seqOf, must, safe, incidents>>

\* An edit whose files hold what they replace may be on disk or not: the
\* promises are kept either way.
LEMMA EditWritten ==
    ASSUME DBInv, phase = "up", edit = NoEdit, NEW e, NEW n, Writes(e, n)
    PROVE  /\ manifest' \in [DOMAIN manifest' -> ManifestFile] /\ DOMAIN manifest' = DOMAIN manifest
           /\ manifest'[CURRENT].synced < Len(manifest'[CURRENT].edits)
           /\ DiskState' = Apply(DiskState, e) /\ Left' = Left \cup {DiskState'}
           /\ DiskState'.files = (DiskState.files \ e.del) \cup e.add /\ DiskState'.log = e.log
           /\ UsedFiles' = UsedFiles
           /\ \A d \in Left' : Filled(d.files)'
           /\ Numbered' /\ Durable' /\ Logged' /\ Sequenced' /\ Attempt'
<1> USE DEF Writes
<1>1. CURRENT # 0 /\ vset.man = CURRENT /\ CURRENT' = CURRENT /\ DBTypes
  BY DEF DBInv, Recorded
<1>2. /\ manifest' \in [DOMAIN manifest' -> ManifestFile] /\ DOMAIN manifest' = DOMAIN manifest
      /\ manifest'[CURRENT].synced < Len(manifest'[CURRENT].edits)
      /\ DiskState' = Apply(DiskState, e) /\ Left' = Left \cup {DiskState'}
  BY <1>1, EditAppended
<1>3. DiskState \in Left /\ Left \subseteq State
  BY <1>1, CurrentLeft
<1>4. PICK d2 : d2 = DiskState'
  OBVIOUS
<1>5. /\ d2.files = (DiskState.files \ e.del) \cup e.add
      /\ d2.log = e.log /\ d2.next = vset.next /\ d2.last = vset.last
  BY <1>2, <1>4 DEF Apply
<1>6. UsedFiles' = UsedFiles
  BY DEF UsedFiles, memory
<1>7. /\ \A w : InTables(table', vset.current, w) <=> InTables(table, vset.current, w)
      /\ \A d \in Left : \A w : InTables(table', d.files, w) <=> InTables(table, d.files, w)
  BY DEF OnlyTable, UsedFiles
<1>8. \A w : InTables(table', d2.files, w) <=>
               InTables(table', DiskState.files \ e.del, w) \/ InTables(table', e.add, w)
  BY <1>5 DEF InTables
<1>9. \A w : InTables(table, DiskState.files, w) => InTables(table', d2.files, w)
  <2>1. \A w : InTables(table, DiskState.files, w) =>
                 InTables(table, DiskState.files \ e.del, w) \/ InTables(table, e.del, w)
    BY DEF InTables
  <2>2. \A f \in DiskState.files \ e.del : f[2] # n
    BY <1>3
  <2>3. \A w : InTables(table', DiskState.files \ e.del, w) <=> InTables(table, DiskState.files \ e.del, w)
    BY <2>2 DEF OnlyTable
  <2> QED
    BY <1>8, <2>1, <2>3
<1>10. \A w : InTables(table', DiskState.files \ e.del, w) => InTables(table', DiskState.files, w)
  BY DEF InTables
<1>11. \A w : InTables(table', d2.files, w) =>
                InTables(table, DiskState.files, w) \/ w \in imm.ids \/ InTables(table, vset.current, w)
  BY <1>3, <1>7, <1>8, <1>10
<1>12. \A w \in 1..MaxWrites : InTables(table, vset.current, w) => InTables(table, DiskState.files, w)
  BY <1>3 DEF DBInv, Durable
<1>13. \A w : InTables(table, vset.current, w) => w \in 1..MaxWrites
  BY <1>1 DEF DBTypes, InTables
<1> USE DEF DBInv, disk, memory, bgvars
<1>14. \A d \in Left' : Filled(d.files)'
  <2>1. \A f : f[2] # n => (f[2] \in DOMAIN table /\ table[f[2]] # {} => f[2] \in DOMAIN table' /\ table'[f[2]] # {})
    BY DEF OnlyTable
  <2>2. \A d \in Left : Filled(d.files)'
    BY <1>1, <2>1 DEF Tables, Filled
  <2>3. Filled(d2.files)'
    BY <1>3, <1>5, <2>2 DEF Filled
  <2> QED
    BY <1>2, <1>4, <2>2, <2>3
<1>15. Numbered'
  <2>1. /\ DiskState.next <= vset.next /\ DiskState.next \in Nat /\ vset.next \in Nat
        /\ \A f \in DiskState.files : f[2] < DiskState.next /\ f[2] \in Nat
    BY <1>1, <1>3, SMTT(30) DEF Numbered, DBTypes, VersionState, State, FileRef, Num
  <2>2. \A f \in d2.files : f[2] < d2.next
    BY <1>5, <2>1
  <2>3. /\ e.log < vset.next /\ CURRENT < vset.next /\ 0 < vset.next /\ vset.next # 0 /\ vset.next <= vset.next
    BY <1>1, <2>1 DEF Numbered, DBTypes, VersionState, Num
  <2>4. flush' < vset.next
    BY <2>3 DEF Numbered
  <2> HIDE DEF DBInv
  <2>5. Numbered
    BY DEF DBInv
  <2> QED
    BY <1>1, <1>2, <1>4, <1>5, <1>6, <2>2, <2>3, <2>4, <2>5 DEF Numbered
<1>16. Durable'
  <2>1. Durable
    OBVIOUS
  <2>2. ASSUME NEW d \in Left'
        PROVE  /\ \A w \in 1..MaxWrites : InTables(table', vset.current, w) => InTables(table', d.files, w)
               /\ d.log = vset.log \/ (/\ d.log = logfile /\ imm.on
                                       /\ \A w \in imm.ids : InTables(table', d.files, w))
    <3>1. CASE d \in Left
      BY <1>7, <2>1, <3>1 DEF Durable
    <3>2. CASE d = d2
      BY <1>5, <1>7, <1>8, <1>9, <1>12, <3>2
    <3> QED
      BY <1>2, <1>4, <3>1, <3>2
  <2> HIDE DEF DBInv
  <2> QED
    BY <1>1, <1>7, <2>1, <2>2 DEF Durable
<1>17. \A m \in DOMAIN table' : \A w \in table'[m] :
         w \in imm.ids \/ \E k \in DOMAIN table : w \in table[k]
  BY DEF OnlyTable, InTables
<1>18. Logged'
  BY <1>17 DEF Logged
<1>19. Attempt'
  BY <1>17 DEF Attempt, Write
<1>3a. \A v : Counts(v)' <=> Counts(v)
  <2>1. \A v : (\E d \in Left' : InTables(table', d.files, v)) =>
                 v \in imm.ids \/ \E d \in Left : InTables(table, d.files, v)
    BY <1>2, <1>3, <1>4, <1>7, <1>11, <1>12, <1>13
  <2>2. \A v : (\E d \in Left : InTables(table, d.files, v)) => \E d \in Left' : InTables(table', d.files, v)
    BY <1>2, <1>7
  <2> QED
    BY <2>1, <2>2 DEF Counts
<1>21. Sequenced'
  <2>1. ASSUME NEW w \in 1..Len(seqOf), InTables(table', d2.files, w) PROVE seqOf[w] <= d2.last
    <3>1. Counts(w)
      BY <1>3, <1>11, <1>12, <1>13, <2>1 DEF Counts
    <3>2. ~(wr.pc = "commit" /\ w = Write)
      BY <1>17, <2>1 DEF InTables, Attempt
    <3> QED
      BY <1>5, <3>1, <3>2 DEF Sequenced
  <2>2. \A d \in Left : \A w \in 1..Len(seqOf) : InTables(table', d.files, w) => seqOf[w] <= d.last
    BY <1>1, <1>7 DEF Sequenced
  <2>3. \A d \in Left' : \A w \in 1..Len(seqOf) : InTables(table', d.files, w) => seqOf[w] <= d.last
    BY <1>2, <1>4, <2>1, <2>2
  <2> QED
    BY <1>1, <1>3a, <2>3 DEF Sequenced, Write
<1> QED
  BY <1>2, <1>4, <1>5, <1>6, <1>14, <1>15, <1>16, <1>18, <1>19, <1>21

\* The flushed table holds the immutable memtable when its edit is appended.
LEMMA FlushBuiltStep ==
    ASSUME DBInv, FlushBuilt
    PROVE  DBInv'
<1>1. /\ flush # 0 /\ flush' = 0 /\ pending' = pending \ {flush}
      /\ table' = IF imm.ids = {} THEN Only(table, DOMAIN table \ {flush})
                  ELSE [table EXCEPT ![flush] = imm.ids]
      /\ UNCHANGED <<log, CURRENT, phase, opening, vset, memory, comp, scheduled, bg_error,
                     wr, held, seqOf, must, safe, incidents>>
  BY DEF FlushBuilt
<1>2a. PICK level \in {0, 1} :
         LET add == IF imm.ids = {} THEN {} ELSE {<<level, flush>>}
             e == Edit(logfile, vset.next, vset.last, add, {})
         IN  /\ AppendEdit(e)
             /\ edit' = [e EXCEPT !.kind = "flush"]
  BY DEF FlushBuilt
<1>2b. PICK add : add = IF imm.ids = {} THEN {} ELSE {<<level, flush>>}
  OBVIOUS
<1>2c. PICK e : e = Edit(logfile, vset.next, vset.last, add, {})
  OBVIOUS
<1>2. /\ level \in {0, 1} /\ add = (IF imm.ids = {} THEN {} ELSE {<<level, flush>>})
      /\ e = Edit(logfile, vset.next, vset.last, add, {})
      /\ AppendEdit(e) /\ edit' = [e EXCEPT !.kind = "flush"]
  BY <1>2a, <1>2b, <1>2c
<1>3. /\ phase = "up" /\ imm.on /\ edit = NoEdit /\ flush # comp.out
      /\ Fresh(flush) /\ Fresh(comp.out)
  BY <1>1 DEF DBInv, Phases, Tables, NoEdit
<1>4. /\ flush \in Num /\ flush \in DOMAIN table /\ flush < vset.next /\ imm.ids \in SUBSET (1..MaxWrites)
      /\ logfile \in 0..MaxFile /\ vset.next \in Nat /\ vset.last \in Nat
      /\ \A f \in UsedFiles : f[2] # flush
      /\ \A d \in Left : \A f \in d.files : f[2] # flush
  BY <1>1, <1>3 DEF DBInv, DBTypes, Fresh, Numbered, VersionState, Num
<1>5. add \in SUBSET FileRef /\ \A f \in add : imm.ids # {} /\ f[2] = flush
  BY <1>2, <1>4 DEF FileRef
<1>6. /\ e \in EditRec /\ e.kind = "edit" /\ e.log = logfile /\ e.next = vset.next /\ e.last = vset.last
      /\ e.add = add /\ e.del = {}
      /\ edit' \in EditRec /\ edit'.kind = "flush" /\ edit'.log = logfile /\ edit'.add = add
      /\ edit'.del = {} /\ edit' # NoEdit
  <2>1. e = [kind |-> "edit", log |-> logfile, next |-> vset.next, last |-> vset.last,
             add |-> add, del |-> {}]
    BY <1>2 DEF Edit
  <2>2. edit' = [kind |-> "flush", log |-> logfile, next |-> vset.next, last |-> vset.last,
                 add |-> add, del |-> {}]
    <3>1. edit' = [e EXCEPT !.kind = "flush"]
      BY <1>2
    <3> QED
      BY <2>1, <3>1
  <2> QED
    BY <1>4, <1>5, <2>1, <2>2 DEF EditRec, NoEdit
<1>7. OnlyTable(table', flush) /\ (imm.ids # {} => flush \in DOMAIN table' /\ table'[flush] = imm.ids)
        /\ (flush \in DOMAIN table' => table'[flush] = imm.ids)
  <2>1. PICK t2 : t2 = table'
    OBVIOUS
  <2>2. t2 \in {Put(table, flush, imm.ids), Only(table, DOMAIN table \ {flush})}
             \/ (flush \in DOMAIN table /\ t2 = [table EXCEPT ![flush] = imm.ids])
    BY <1>1, <1>4, <2>1
  <2>3. OnlyTable(t2, flush) /\ (flush \in DOMAIN t2 => t2[flush] = imm.ids)
    BY <1>4, <2>2, OneTable DEF DBInv
  <2>4. imm.ids # {} => flush \in DOMAIN t2
    BY <1>1, <1>4, <2>1
  <2> QED
    BY <2>1, <2>3, <2>4
<1>8. \A w : InTables(table', add, w) <=> w \in imm.ids
  <2>1. CASE imm.ids = {}
    BY <1>2, <2>1 DEF InTables
  <2>2. CASE imm.ids # {}
    <3>1. add = {<<level, flush>>} /\ flush \in DOMAIN table' /\ table'[flush] = imm.ids
      BY <1>2, <1>7, <2>2
    <3> QED
      BY <3>1 DEF InTables
  <2> QED
    BY <2>1, <2>2
<1>9. /\ manifest' \in [DOMAIN manifest' -> ManifestFile] /\ DOMAIN manifest' = DOMAIN manifest
      /\ manifest'[CURRENT].synced < Len(manifest'[CURRENT].edits)
      /\ Left' = Left \cup {DiskState'}
      /\ DiskState'.files = (DiskState.files \ {}) \cup add /\ DiskState'.log = logfile
      /\ UsedFiles' = UsedFiles
      /\ \A d \in Left' : Filled(d.files)'
      /\ Numbered' /\ Durable' /\ Logged' /\ Sequenced' /\ Attempt'
  <2>1. flush \in DOMAIN table' => \A w \in table'[flush] : w \in imm.ids \/ InTables(table, vset.current, w)
    BY <1>7
  <2>2. \A f \in e.add : f[2] < vset.next /\ f[2] \in DOMAIN table' /\ table'[f[2]] # {}
    BY <1>4, <1>5, <1>6, <1>7
  <2>3. \A w : InTables(table, e.del, w) => InTables(table', e.add, w)
    BY <1>6 DEF InTables
  <2>4. /\ \A w : InTables(table', e.add, w) => w \in imm.ids \/ InTables(table, vset.current, w)
        /\ e.log = logfile /\ imm.on /\ \A w \in imm.ids : InTables(table', e.add, w)
    BY <1>3, <1>6, <1>8
  <2>5. Writes(e, flush)
    BY <1>1, <1>2, <1>4, <1>6, <1>7, <2>1, <2>2, <2>3, <2>4 DEF Writes
  <2> QED
    BY <1>3, <1>6, <2>5, EditWritten
<1> USE DEF DBInv, disk, memory, bgvars
<1>10. DBTypes'
  <2>1. pending' \subseteq Num /\ flush' \in 0..MaxFile /\ CURRENT \in DOMAIN manifest' \cup {0}
        /\ DOMAIN manifest' \subseteq Num
    BY <1>1, <1>9 DEF DBTypes
  <2> QED
    BY <1>1, <1>6, <1>7, <1>9, <2>1 DEF DBTypes, OnlyTable
<1>11. Phases'
  BY <1>1, <1>3, <1>6, <1>9 DEF Phases, Idle, Opens
<1>12. Tables'
  <2>1. Filled(UsedFiles)'
    BY <1>4, <1>7, <1>9 DEF Tables, Filled, OnlyTable
  <2>2. Fresh(comp.out)'
    <3> SUFFICES ASSUME comp.out # 0 PROVE Fresh(comp.out)'
      BY <1>1 DEF Fresh
    <3>1. comp.out \in DOMAIN table' /\ comp.out \in pending'
      BY <1>1, <1>3, <1>7 DEF Fresh, OnlyTable
    <3>2. \A f \in DiskState'.files : f[2] # comp.out
      <4>1. DiskState \in Left
        BY <1>3, CurrentLeft DEF Phases, Recorded
      <4> QED
        BY <1>3, <1>5, <1>9, <4>1 DEF Fresh
    <3>3. \A d \in Left' : \A f \in d.files : f[2] # comp.out
      BY <1>3, <1>9, <3>2 DEF Fresh
    <3> QED
      BY <1>1, <1>3, <1>9, <3>1, <3>3 DEF Fresh
  <2>3. Fresh(flush)' /\ pending' \subseteq {flush', comp'.out}
    BY <1>1 DEF Fresh, Tables
  <2> QED
    BY <1>1, <1>6, <1>9, <2>1, <2>2, <2>3 DEF Tables
<1>13. Recorded'
  <2>1. Filled(edit.add)'
    BY <1>5, <1>6, <1>7 DEF Filled
  <2>2. ~bg_error => DiskState'.files = (vset.current \ {}) \cup add
    BY <1>3, <1>9 DEF Recorded
  <2>3. \A w : ~InTables(table', {}, w)
    BY DEF InTables
  <2>4. CURRENT # 0 /\ vset.man = CURRENT
    BY <1>3 DEF Recorded
  <2>5. add \subseteq DiskState'.files
    BY <1>9
  <2> HIDE DEF DBInv
  <2> QED
    BY <1>1, <1>3, <1>6, <1>8, <1>9, <2>1, <2>2, <2>3, <2>4, <2>5 DEF Recorded
<1>14. Opened'
  BY <1>1, <1>3 DEF Opened
<1> QED
  BY <1>9, <1>10, <1>11, <1>12, <1>13, <1>14

\* A flush that fails deletes a table that nothing refers to.
LEMMA FlushFailsStep ==
    ASSUME DBInv, FlushFails
    PROVE  DBInv'
<1>1. /\ flush # 0 /\ flush' = 0 /\ pending' = pending \ {flush} /\ bg_error' = TRUE
      /\ table' = Only(table, DOMAIN table \ {flush}) /\ scheduled' = comp.on
      /\ incidents' \in Nat
      /\ UNCHANGED <<log, manifest, CURRENT, phase, opening, vset, memory, edit, comp,
                     wr, held, seqOf, must, safe>>
  BY DEF FlushFails, Incident, DBInv, DBTypes
<1>2. /\ phase = "up" /\ edit = NoEdit /\ flush # comp.out /\ imm.on
      /\ Fresh(flush) /\ Fresh(comp.out)
  BY <1>1 DEF DBInv, Phases, Tables, NoEdit
<1>3. /\ flush \in Num /\ 0 < vset.next /\ CURRENT # 0
      /\ \A f \in UsedFiles : f[2] # flush
      /\ \A d \in Left : \A f \in d.files : f[2] # flush
  BY <1>1, <1>2 DEF DBInv, DBTypes, Fresh, Numbered, VersionState, Num, Recorded
<1>4. OnlyTable(table', flush) /\ flush \notin DOMAIN table'
  <2>1. PICK t2, S : t2 = table' /\ S = {}
    OBVIOUS
  <2>2. /\ t2 \in {Put(table, flush, S), Only(table, DOMAIN table \ {flush})}
              \/ (flush \in DOMAIN table /\ t2 = [table EXCEPT ![flush] = S])
        /\ S \in SUBSET (1..MaxWrites)
    BY <1>1, <2>1
  <2>4. OnlyTable(t2, flush)
    BY <1>3, <2>2, OneTable DEF DBInv
  <2>3. OnlyTable(t2, flush) /\ flush \notin DOMAIN t2
    BY <1>1, <2>1, <2>4 DEF Only
  <2> QED
    BY <2>1, <2>3
<1>5. UsedFiles' = UsedFiles /\ Left' = Left /\ DiskState' = DiskState
  BY <1>1 DEF UsedFiles, Left, DiskState, memory
<1>6. /\ \A w : InTables(table', vset.current, w) <=> InTables(table, vset.current, w)
      /\ \A d \in Left : \A w : InTables(table', d.files, w) <=> InTables(table, d.files, w)
  BY <1>3, <1>4 DEF OnlyTable, UsedFiles
<1> USE DEF DBInv, disk, memory, bgvars
<1>7. DBTypes'
  <2>1. pending' \subseteq Num /\ scheduled' \in BOOLEAN /\ flush' \in 0..MaxFile
    BY <1>1 DEF DBTypes, CompState
  <2> QED
    BY <1>1, <1>4, <2>1 DEF DBTypes, OnlyTable
<1>8. Phases'
  BY <1>1, <1>2 DEF Phases, Idle, Opens
<1>9. Numbered'
  BY <1>1, <1>3, <1>5 DEF Numbered
<1>10. Tables'
  <2>1. \A f : f[2] # flush => (f[2] \in DOMAIN table /\ table[f[2]] # {} => f[2] \in DOMAIN table' /\ table'[f[2]] # {})
    BY <1>4 DEF OnlyTable
  <2>2. Filled(UsedFiles)'
    BY <1>3, <1>5, <2>1 DEF Tables, Filled
  <2>3. \A d \in Left : Filled(d.files)'
    BY <1>3, <2>1 DEF Tables, Filled
  <2>4. Fresh(comp.out)'
    <3>1. comp.out # 0 => comp.out \in DOMAIN table' /\ comp.out \in pending'
      BY <1>1, <1>2, <1>4 DEF Fresh, OnlyTable
    <3> QED
      BY <1>1, <1>2, <1>5, <3>1 DEF Fresh
  <2>5. Fresh(flush)' /\ pending' \subseteq {flush', comp'.out}
    BY <1>1 DEF Fresh, Tables
  <2> QED
    BY <1>1, <1>2, <1>5, <2>2, <2>3, <2>4, <2>5 DEF Tables, NoEdit
<1>11. Recorded'
  BY <1>1, <1>2, <1>5 DEF Recorded
<1>12. Durable'
  BY <1>1, <1>2, <1>5, <1>6 DEF Durable
<1>13. Opened'
  BY <1>1, <1>2 DEF Opened
<1>14. \A m \in DOMAIN table' : m \in DOMAIN table /\ table'[m] = table[m]
  BY <1>4 DEF OnlyTable
<1>15. Logged'
  BY <1>1, <1>14 DEF Logged
<1>16. Sequenced'
  <2>1. \A v : Counts(v)' <=> Counts(v)
    BY <1>1, <1>5, <1>6 DEF Counts
  <2> QED
    BY <1>1, <1>3, <1>5, <1>6, <2>1 DEF Sequenced, Write
<1>17. Attempt'
  BY <1>1, <1>14 DEF Attempt, Write
<1> QED
  BY <1>7, <1>8, <1>9, <1>10, <1>11, <1>12, <1>13, <1>15, <1>16, <1>17

\* A file moved down is in the version before and after its edit.
LEMMA TrivialMoveStep ==
    ASSUME DBInv, TrivialMove
    PROVE  DBInv'
<1>1. /\ ~bg_error /\ ~imm.on /\ ~comp.on /\ flush = 0 /\ edit = NoEdit /\ scheduled
      /\ UNCHANGED <<log, table, CURRENT, phase, opening, vset, memory, pending, flush, comp,
                     scheduled, bg_error, wr, held, seqOf, must, safe, incidents>>
  BY DEF TrivialMove, MayCompact, Quiet
<1>2. PICK g, f, e :
        /\ g \in vset.current
        /\ f = <<1, g[2]>>
        /\ e = Edit(vset.log, vset.next, vset.last, {f}, {g})
        /\ AppendEdit(e) /\ edit' = [e EXCEPT !.kind = "move"]
  BY DEF TrivialMove
<1>3. phase = "up" /\ comp = NoComp /\ comp.out = 0 /\ imm = NoImm
  BY <1>1 DEF DBInv, Phases, Tables, NoComp
<1>4. /\ vset.log \in 0..MaxFile /\ vset.next \in Nat /\ vset.last \in Nat /\ g \in FileRef
      /\ f \in FileRef /\ f[2] = g[2] /\ g[2] \in Num /\ g \in UsedFiles
  BY <1>2 DEF DBInv, DBTypes, VersionState, FileRef, UsedFiles
<1>5. /\ e \in EditRec /\ e.kind = "edit" /\ e.log = vset.log /\ e.next = vset.next /\ e.last = vset.last
      /\ e.add = {f} /\ e.del = {g}
      /\ edit' \in EditRec /\ edit'.kind = "move" /\ edit'.log = vset.log /\ edit'.add = {f}
      /\ edit'.del = {g} /\ edit' # NoEdit
  <2>1. e = [kind |-> "edit", log |-> vset.log, next |-> vset.next, last |-> vset.last,
             add |-> {f}, del |-> {g}]
    BY <1>2 DEF Edit
  <2>2. edit' = [kind |-> "move", log |-> vset.log, next |-> vset.next, last |-> vset.last,
                 add |-> {f}, del |-> {g}]
    <3>1. edit' = [e EXCEPT !.kind = "move"]
      BY <1>2
    <3> QED
      BY <2>1, <3>1
  <2> QED
    BY <1>4, <2>1, <2>2 DEF EditRec, NoEdit
<1>6. g[2] \in DOMAIN table /\ table[g[2]] # {} /\ g[2] < vset.next
  BY <1>1, <1>3, <1>4 DEF DBInv, Tables, Filled, Numbered
<1>7. \A w : InTables(table, {f}, w) <=> InTables(table, {g}, w)
  BY <1>4 DEF InTables
<1>8. \A w : InTables(table, {g}, w) => InTables(table, vset.current, w)
  BY <1>2 DEF InTables
<1>9. /\ manifest' \in [DOMAIN manifest' -> ManifestFile] /\ DOMAIN manifest' = DOMAIN manifest
      /\ manifest'[CURRENT].synced < Len(manifest'[CURRENT].edits)
      /\ Left' = Left \cup {DiskState'}
      /\ DiskState'.files = (DiskState.files \ {g}) \cup {f} /\ DiskState'.log = vset.log
      /\ UsedFiles' = UsedFiles
      /\ \A d \in Left' : Filled(d.files)'
      /\ Numbered' /\ Durable' /\ Logged' /\ Sequenced' /\ Attempt'
  <2>1. OnlyTable(table', 0) /\ 0 \notin DOMAIN table'
    BY <1>1 DEF OnlyTable, DBInv, DBTypes, Num
  <2>2. (\A h \in UsedFiles : h[2] # 0) /\ \A d \in Left : \A h \in d.files : h[2] # 0
    <3>1. UsedFiles \subseteq FileRef
      BY DEF DBInv, DBTypes, CompState, VersionState, OpeningState, UsedFiles
    <3>2. Left \subseteq State
      BY <1>3, CurrentLeft DEF DBInv, Phases, Recorded
    <3> QED
      BY <3>1, <3>2 DEF State, FileRef, Num
  <2>3. Writes(e, 0)
    BY <1>1, <1>2, <1>4, <1>5, <1>6, <1>7, <1>8, <2>1, <2>2 DEF Writes
  <2> QED
    BY <1>1, <1>3, <1>5, <2>3, EditWritten
<1> USE DEF DBInv, disk, memory, bgvars
<1>10. DBTypes'
  <2>1. CURRENT \in DOMAIN manifest' \cup {0} /\ DOMAIN manifest' \subseteq Num
    BY <1>9 DEF DBTypes
  <2> QED
    BY <1>1, <1>5, <1>9, <2>1 DEF DBTypes
<1>11. Phases'
  BY <1>1, <1>3, <1>5, <1>9 DEF Phases, Idle, Opens
<1>12. Tables'
  <2>1. Filled(UsedFiles)'
    BY <1>1, <1>9 DEF Tables, Filled
  <2>2. Fresh(flush)' /\ Fresh(comp.out)'
    BY <1>1, <1>3 DEF Fresh
  <2> QED
    BY <1>1, <1>3, <1>5, <1>9, <2>1, <2>2 DEF Tables
<1>13. Recorded'
  <2>1. Filled(edit.add)'
    BY <1>1, <1>4, <1>5, <1>6 DEF Filled
  <2>2. DiskState'.files = (vset.current \ {g}) \cup {f} /\ CURRENT # 0 /\ vset.man = CURRENT
    BY <1>1, <1>3, <1>9 DEF Recorded
  <2>3. {f} \subseteq DiskState'.files /\ {g} \subseteq vset.current
    BY <1>2, <1>9
  <2>4. \A h \in {f} : \E k \in {g} : h[2] = k[2]
    BY <1>4
  <2> HIDE DEF DBInv
  <2> QED
    BY <1>1, <1>3, <1>5, <1>7, <1>9, <2>1, <2>2, <2>3, <2>4 DEF Recorded
<1>14. Opened'
  BY <1>1, <1>3 DEF Opened
<1> QED
  BY <1>9, <1>10, <1>11, <1>12, <1>13, <1>14

\* The output holds what the inputs held when its edit is appended.
LEMMA CompactBuiltStep ==
    ASSUME DBInv, CompactBuilt
    PROVE  DBInv'
<1>1. /\ comp.out # 0 /\ flush = 0 /\ edit = NoEdit
      /\ table' = [table EXCEPT ![comp.out] = UNION {table[n] : n \in Numbers(comp.inputs)}]
      /\ UNCHANGED <<log, CURRENT, phase, opening, vset, memory, pending, flush, comp, scheduled,
                     bg_error, wr, held, seqOf, must, safe, incidents>>
  BY DEF CompactBuilt, Quiet
<1>2. PICK f, ins, e, n :
        /\ n = comp.out /\ f = <<1, n>> /\ ins = comp.inputs
        /\ e = Edit(vset.log, vset.next, vset.last, {f}, ins)
        /\ AppendEdit(e) /\ edit' = [e EXCEPT !.kind = "compact"]
  BY DEF CompactBuilt, CompactedInputs
<1>3. /\ phase = "up" /\ comp.on /\ Fresh(n) /\ ins # {} /\ ins \subseteq vset.current
  BY <1>1, <1>2 DEF DBInv, Phases, Tables, NoComp, NoEdit
<1>4. /\ vset.log \in 0..MaxFile /\ vset.next \in Nat /\ vset.last \in Nat /\ ins \in SUBSET FileRef
      /\ f \in FileRef /\ f[2] = n /\ n \in Num /\ n < vset.next
      /\ n \in DOMAIN table /\ n \in pending
      /\ \A h \in UsedFiles : h[2] # n
      /\ \A d \in Left : \A h \in d.files : h[2] # n
  BY <1>1, <1>2, <1>3 DEF DBInv, DBTypes, VersionState, CompState, FileRef, Fresh, Numbered, Num
<1>5. /\ e \in EditRec /\ e.kind = "edit" /\ e.log = vset.log /\ e.next = vset.next /\ e.last = vset.last
      /\ e.add = {f} /\ e.del = ins
      /\ edit' \in EditRec /\ edit'.kind = "compact" /\ edit'.log = vset.log /\ edit'.add = {f}
      /\ edit'.del = ins /\ edit' # NoEdit
  <2>1. e = [kind |-> "edit", log |-> vset.log, next |-> vset.next, last |-> vset.last,
             add |-> {f}, del |-> ins]
    BY <1>2 DEF Edit
  <2>2. edit' = [kind |-> "compact", log |-> vset.log, next |-> vset.next, last |-> vset.last,
                 add |-> {f}, del |-> ins]
    <3>1. edit' = [e EXCEPT !.kind = "compact"]
      BY <1>2
    <3> QED
      BY <2>1, <3>1
  <2> QED
    BY <1>4, <2>1, <2>2 DEF EditRec, NoEdit
<1>6. \A h \in ins : h \in vset.current /\ h \in UsedFiles /\ h[2] \in DOMAIN table /\ table[h[2]] # {} /\ h[2] # n
  <2>1. \A h \in ins : h \in vset.current /\ h \in UsedFiles
    BY <1>3 DEF UsedFiles
  <2> QED
    BY <1>4, <2>1 DEF DBInv, Tables, Filled
<1>7. PICK S : S = UNION {table[m] : m \in Numbers(ins)}
  OBVIOUS
<1>8. \A w : w \in S <=> InTables(table, ins, w)
  BY <1>6, <1>7 DEF Numbers, InTables
<1>9. S \subseteq 1..MaxWrites /\ S # {}
  <2>1. \A w \in S : w \in 1..MaxWrites
    BY <1>8 DEF InTables, DBInv, DBTypes
  <2>2. PICK h \in ins : TRUE
    BY <1>3
  <2>3. PICK w : w \in table[h[2]]
    BY <1>6
  <2>4. w \in S
    BY <1>6, <1>8, <2>3 DEF InTables
  <2> QED
    BY <2>1, <2>4
<1>10. OnlyTable(table', n) /\ n \in DOMAIN table' /\ table'[n] = S
  <2>1. PICK t2 : t2 = [table EXCEPT ![n] = S]
    OBVIOUS
  <2>2. t2 = table'
    BY <1>1, <1>2, <1>7, <2>1
  <2>3. n \in DOMAIN t2 /\ t2[n] = S
    BY <1>4, <2>1
  <2>4. OnlyTable(t2, n)
    BY <1>4, <1>9, <2>1, OneTable DEF DBInv
  <2> QED
    BY <2>2, <2>3, <2>4
<1>11. /\ \A w : InTables(table', {f}, w) <=> InTables(table, ins, w)
       /\ \A w : InTables(table', ins, w) <=> InTables(table, ins, w)
  <2>1. \A w : InTables(table', {f}, w) <=> w \in S
    BY <1>4, <1>10 DEF InTables
  <2> QED
    BY <1>6, <1>8, <1>10, <2>1 DEF OnlyTable
<1>12. \A w : InTables(table, ins, w) => InTables(table, vset.current, w)
  BY <1>3 DEF InTables
<1>13. /\ manifest' \in [DOMAIN manifest' -> ManifestFile] /\ DOMAIN manifest' = DOMAIN manifest
       /\ manifest'[CURRENT].synced < Len(manifest'[CURRENT].edits)
       /\ Left' = Left \cup {DiskState'}
       /\ DiskState'.files = (DiskState.files \ ins) \cup {f} /\ DiskState'.log = vset.log
       /\ UsedFiles' = UsedFiles
       /\ \A d \in Left' : Filled(d.files)'
       /\ Numbered' /\ Durable' /\ Logged' /\ Sequenced' /\ Attempt'
  <2>1. \A w \in table'[n] : w \in imm.ids \/ InTables(table, vset.current, w)
    BY <1>8, <1>10, <1>12
  <2>2. \A h \in e.add : h[2] < vset.next /\ h[2] \in DOMAIN table' /\ table'[h[2]] # {}
    BY <1>4, <1>5, <1>9, <1>10
  <2>3. /\ \A w : InTables(table, e.del, w) => InTables(table', e.add, w)
        /\ \A w : InTables(table', e.add, w) => w \in imm.ids \/ InTables(table, vset.current, w)
    BY <1>5, <1>11, <1>12
  <2>4. Writes(e, n)
    BY <1>1, <1>2, <1>4, <1>5, <1>10, <2>1, <2>2, <2>3 DEF Writes
  <2> QED
    BY <1>1, <1>3, <1>5, <2>4, EditWritten
<1> USE DEF DBInv, disk, memory, bgvars
<1>14. DBTypes'
  <2>1. CURRENT \in DOMAIN manifest' \cup {0} /\ DOMAIN manifest' \subseteq Num
    BY <1>13 DEF DBTypes
  <2> QED
    BY <1>1, <1>5, <1>10, <1>13, <2>1 DEF DBTypes, OnlyTable
<1>15. Phases'
  BY <1>1, <1>3, <1>5, <1>13 DEF Phases, Idle, Opens
<1>16. Tables'
  <2>1. Filled(UsedFiles)'
    BY <1>4, <1>10, <1>13 DEF Tables, Filled, OnlyTable
  <2>2. Fresh(flush)' /\ comp'.out \in pending'
    BY <1>1, <1>2, <1>4 DEF Fresh
  <2> QED
    BY <1>1, <1>3, <1>5, <1>13, <2>1, <2>2 DEF Tables
<1>17. Recorded'
  <2>1. Filled(edit.add)'
    BY <1>4, <1>5, <1>9, <1>10 DEF Filled
  <2>2. (~bg_error => DiskState'.files = (vset.current \ ins) \cup {f}) /\ CURRENT # 0 /\ vset.man = CURRENT
    BY <1>1, <1>3, <1>13 DEF Recorded
  <2>3. {f} \subseteq DiskState'.files /\ ins \subseteq vset.current
    BY <1>3, <1>13
  <2>4. {f} = {<<1, comp.out>>} /\ ins = comp.inputs
    BY <1>2
  <2> HIDE DEF DBInv
  <2> QED
    BY <1>1, <1>3, <1>5, <1>11, <1>13, <2>1, <2>2, <2>3, <2>4 DEF Recorded
<1>18. Opened'
  BY <1>1, <1>3 DEF Opened
<1> QED
  BY <1>13, <1>14, <1>15, <1>16, <1>17, <1>18

-----------------------------------------------------------------------------
(* The manifest is synced, or could not be.                                *)

\* A synced manifest says one thing only.
LEMMA ManifestSynced ==
    ASSUME DBTypes, NEW k \in DOMAIN manifest,
           NEW m2, m2 = [manifest EXCEPT ![k].synced = Len(manifest[k].edits)]
    PROVE  /\ m2 \in [DOMAIN m2 -> ManifestFile] /\ DOMAIN m2 = DOMAIN manifest
           /\ \A n \in DOMAIN manifest : n # k => m2[n] = manifest[n]
           /\ m2[k].edits = manifest[k].edits /\ m2[k].synced = Len(manifest[k].edits)
           /\ LeftOf(m2[k].edits, m2[k].synced) = {Replay(manifest[k].edits)}
<1>1. PICK s : s = manifest[k].edits
  OBVIOUS
<1>2. manifest[k] \in [edits : Seq(EditRec), synced : Nat] /\ s \in Seq(EditRec) /\ Len(s) \in Nat
  BY <1>1 DEF DBTypes, ManifestFile
<1>3. /\ m2[k] = [edits |-> s, synced |-> Len(s)] /\ DOMAIN m2 = DOMAIN manifest
      /\ \A n \in DOMAIN manifest : n # k => m2[n] = manifest[n]
      /\ m2 = [n \in DOMAIN manifest |-> m2[n]]
  BY <1>1, <1>2
<1>4. m2[k] \in ManifestFile
  BY <1>2, <1>3 DEF ManifestFile
<1>5. \A n \in DOMAIN manifest : m2[n] \in ManifestFile
  BY <1>3, <1>4 DEF DBTypes
<1>6. LeftOf(s, Len(s)) = {Replay(s)}
  BY <1>2, LeftSynced
<1> QED
  <2>1. m2 \in [DOMAIN m2 -> ManifestFile]
    BY <1>3, <1>5
  <2>2. m2[k].edits = manifest[k].edits /\ m2[k].synced = Len(manifest[k].edits)
    BY <1>1, <1>3
  <2> HIDE DEF LeftOf
  <2> QED
    BY <1>1, <1>3, <1>6, <2>1, <2>2

\* What DeleteObsoleteFiles keeps, at least.
Swept(files, base, pend, lognum, m2) ==
  /\ log' \in [DOMAIN log' -> LogFile] /\ DOMAIN log' \subseteq DOMAIN log
  /\ \A n \in DOMAIN log' : log'[n] = log[n]
  /\ \A n \in DOMAIN log : n >= lognum => n \in DOMAIN log'
  /\ table' \in [DOMAIN table' -> SUBSET (1..MaxWrites)] /\ DOMAIN table' \subseteq DOMAIN table
  /\ \A n \in DOMAIN table' : table'[n] = table[n]
  /\ bg_error => table' = table
  /\ \A n \in Live(files, base, pend, held) : n \in DOMAIN table => n \in DOMAIN table'
  /\ manifest' \in [DOMAIN manifest' -> ManifestFile] /\ DOMAIN manifest' \subseteq DOMAIN m2
  /\ \A n \in DOMAIN manifest' : manifest'[n] = m2[n]
  /\ \A n \in DOMAIN m2 \cap DOMAIN manifest : n >= vset.man => n \in DOMAIN manifest'

\* DeleteObsoleteFiles and a trivial move, which deletes nothing, both keep
\* what is live.
LEMMA ObsoleteDeleted ==
    ASSUME DBTypes, NEW files, NEW base, NEW pend, NEW lognum, NEW m2,
           m2 \in [DOMAIN m2 -> ManifestFile],
           \/ DeleteObsoleteFiles(files, base, pend, lognum, m2)
           \/ log' = log /\ table' = table /\ manifest' = m2
    PROVE  Swept(files, base, pend, lognum, m2)
<1>1. log \in [DOMAIN log -> LogFile] /\ table \in [DOMAIN table -> SUBSET (1..MaxWrites)]
  BY DEF DBTypes
<1>2. CASE log' = log /\ table' = table /\ manifest' = m2
  BY <1>1, <1>2 DEF Swept
<1>3. CASE /\ ~bg_error
           /\ log' = Only(log, {n \in DOMAIN log : n >= lognum})
           /\ table' = Only(table, Live(files, base, pend, held))
           /\ manifest' = Only(m2, ManifestsKept)
  <2>1. /\ log' \in [DOMAIN log' -> LogFile] /\ DOMAIN log' \subseteq DOMAIN log
        /\ \A n \in DOMAIN log' : log'[n] = log[n]
        /\ \A n \in DOMAIN log : n >= lognum => n \in DOMAIN log'
    BY <1>1, <1>3 DEF Only
  <2>2. /\ table' \in [DOMAIN table' -> SUBSET (1..MaxWrites)] /\ DOMAIN table' \subseteq DOMAIN table
        /\ \A n \in DOMAIN table' : table'[n] = table[n]
        /\ \A n \in Live(files, base, pend, held) : n \in DOMAIN table => n \in DOMAIN table'
    BY <1>1, <1>3 DEF Only
  <2>3. /\ manifest' \in [DOMAIN manifest' -> ManifestFile] /\ DOMAIN manifest' \subseteq DOMAIN m2
        /\ \A n \in DOMAIN manifest' : manifest'[n] = m2[n]
        /\ \A n \in DOMAIN m2 \cap DOMAIN manifest : n >= vset.man => n \in DOMAIN manifest'
    BY <1>3 DEF Only, ManifestsKept
  <2> QED
    BY <1>3, <2>1, <2>2, <2>3 DEF Swept
<1> QED
  BY <1>2, <1>3 DEF DeleteObsoleteFiles

\* What is known of a database whose manifest is being written.
LEMMA Installing ==
    ASSUME DBInv, edit.kind \in {"flush", "move", "compact"}
    PROVE  /\ phase = "up" /\ CURRENT # 0 /\ vset.man = CURRENT /\ CURRENT \in DOMAIN manifest
           /\ edit \in EditRec /\ edit # NoEdit /\ flush = 0
           /\ comp.on /\ edit.kind = "flush" => PendingAfter(edit.kind = "compact") = pending /\ Fresh(comp.out)
           /\ ~(comp.on /\ edit.kind = "flush") => PendingAfter(edit.kind = "compact") = {}
<1>1. edit # NoEdit /\ edit \in EditRec
  BY DEF NoEdit, DBInv, DBTypes
<1>2. phase = "up"
  BY <1>1 DEF DBInv, Phases, DBTypes, Edit
<1>3. CURRENT # 0 /\ vset.man = CURRENT /\ flush = 0
  BY <1>1, <1>2 DEF DBInv, Recorded, Tables
<1>4. CURRENT \in DOMAIN manifest /\ 0 \notin pending
  BY <1>3 DEF DBInv, DBTypes, Num
<1>5. pending \subseteq {comp.out}
  BY <1>3, <1>4 DEF DBInv, Tables
<1>6. CASE edit.kind = "flush"
  <2>1. ~comp.on => pending = {}
    BY <1>4, <1>5 DEF DBInv, Tables, NoComp
  <2> QED
    BY <1>1, <1>2, <1>3, <1>4, <1>6, <2>1 DEF DBInv, Tables, PendingAfter
<1>7. CASE edit.kind = "move"
  <2>1. comp = NoComp
    BY <1>1, <1>2, <1>7 DEF DBInv, Tables, Recorded
  <2>2. pending = {}
    BY <1>4, <1>5, <2>1 DEF NoComp
  <2> QED
    BY <1>1, <1>2, <1>3, <1>4, <1>7, <2>2 DEF PendingAfter
<1>8. CASE edit.kind = "compact"
  BY <1>1, <1>2, <1>3, <1>4, <1>5, <1>8 DEF PendingAfter
<1> QED
  BY <1>6, <1>7, <1>8

\* A manifest that cannot be written says the old or the new version, and
\* nothing is deleted for either.
LEMMA InstallFailsStep ==
    ASSUME DBInv, InstallFails
    PROVE  DBInv'
<1>1. /\ edit.kind \in {"flush", "move", "compact"} /\ incidents' \in Nat
      /\ pending' = PendingAfter(edit.kind = "compact")
      /\ comp' = IF comp.on /\ edit.kind = "flush" THEN comp ELSE NoComp
      /\ scheduled' = (comp.on /\ edit.kind = "flush")
      /\ edit' = NoEdit /\ bg_error' = TRUE
      /\ UNCHANGED <<log, table, CURRENT, phase, opening, vset, memory, flush, wr, held, seqOf, must, safe>>
  BY DEF InstallFails, Incident, DBInv, DBTypes
<1>2. /\ phase = "up" /\ CURRENT # 0 /\ vset.man = CURRENT /\ CURRENT \in DOMAIN manifest
      /\ edit \in EditRec /\ edit # NoEdit /\ flush = 0
      /\ comp.on /\ edit.kind = "flush" => PendingAfter(edit.kind = "compact") = pending /\ Fresh(comp.out)
      /\ ~(comp.on /\ edit.kind = "flush") => PendingAfter(edit.kind = "compact") = {}
  BY <1>1, Installing
<1>3a. PICK s, y, before : /\ s = manifest[CURRENT].edits /\ y = manifest[CURRENT].synced
                          /\ before = SubSeq(s, 1, Len(s) - 1)
  OBVIOUS
<1>3. PICK left \in {s, before, Append(before, TornEdit)} :
        manifest' = [manifest EXCEPT ![CURRENT].edits = left]
  BY <1>2, <1>3a DEF InstallFails
<1>4. s \in Seq(EditRec) /\ y \in 0..Len(s) /\ y < Len(s)
        /\ manifest[CURRENT] \in [edits : Seq(EditRec), synced : Nat]
  BY <1>2, <1>3a, CurrentLeft DEF DBInv, Recorded
<1>5. /\ left \in Seq(EditRec) /\ y \in 0..Len(left)
      /\ LeftOf(left, y) \subseteq LeftOf(s, y)
      /\ Replay(left) \in LeftOf(s, y)
  BY <1>3, <1>4, <1>3a, LeftBefore
<1>6. /\ manifest'[CURRENT] = [edits |-> left, synced |-> y] /\ DOMAIN manifest' = DOMAIN manifest
      /\ \A n \in DOMAIN manifest : n # CURRENT => manifest'[n] = manifest[n]
      /\ manifest' = [n \in DOMAIN manifest |-> manifest'[n]]
  BY <1>2, <1>3, <1>4, <1>3a
<1>7. Left' \subseteq Left /\ DiskState' \in Left
  BY <1>1, <1>5, <1>6, <1>3a DEF Left, DiskState
<1>8. manifest' \in [DOMAIN manifest' -> ManifestFile]
  <2>1. manifest'[CURRENT] \in ManifestFile
    <3>1. y \in Nat /\ y <= Len(left)
      BY <1>5
    <3> QED
      BY <1>5, <1>6, <3>1 DEF ManifestFile
  <2>2. \A n \in DOMAIN manifest : manifest'[n] \in ManifestFile
    BY <1>6, <2>1 DEF DBInv, DBTypes
  <2> QED
    BY <1>6, <2>2
<1>9. UsedFiles' \subseteq UsedFiles
  BY <1>1 DEF UsedFiles, NoComp, memory
<1> USE DEF DBInv, disk, memory, bgvars
<1>10. DBTypes'
  <2>1. /\ pending' \subseteq Num /\ comp' \in CompState /\ scheduled' \in BOOLEAN
    BY <1>1, <1>2 DEF DBTypes, NoComp, CompState
  <2> QED
    BY <1>1, <1>2, <1>6, <1>8, <2>1 DEF DBTypes
<1>11. Phases'
  BY <1>1, <1>2, <1>6 DEF Phases, Idle, Opens
<1>12. Numbered'
  <2>1. comp'.out < vset.next
    BY <1>1, <1>2 DEF Numbered, NoComp, DBTypes, VersionState
  <2> QED
    BY <1>1, <1>2, <1>7, <1>9, <2>1 DEF Numbered
<1>13. Tables'
  <2>1. Filled(UsedFiles)' /\ \A d \in Left' : Filled(d.files)'
    BY <1>1, <1>2, <1>7, <1>9 DEF Tables, Filled
  <2>2. Fresh(comp.out)'
    BY <1>1, <1>2, <1>7, <1>9 DEF Fresh, NoComp
  <2>3. Fresh(flush)'
    BY <1>1, <1>2 DEF Fresh
  <2>4. pending' \subseteq {flush', comp'.out}
    BY <1>1, <1>2 DEF Tables
  <2> QED
    BY <1>1, <1>2, <2>1, <2>2, <2>3, <2>4 DEF Tables, NoEdit, NoComp
<1>14. Recorded'
  BY <1>1, <1>2 DEF Recorded
<1>15. Durable'
  BY <1>1, <1>2, <1>7 DEF Durable
<1>16. Opened'
  BY <1>1, <1>2 DEF Opened
<1>17. Logged'
  BY <1>1 DEF Logged
<1>18. Sequenced'
  <2>1. \A v : Counts(v)' => Counts(v)
    BY <1>1, <1>2, <1>7 DEF Counts
  <2> QED
    BY <1>1, <1>2, <1>7, <2>1 DEF Sequenced, Write
<1>19. Attempt'
  BY <1>1 DEF Attempt, Write
<1> QED
  BY <1>10, <1>11, <1>12, <1>13, <1>14, <1>15, <1>16, <1>17, <1>18, <1>19

\* What is left of the tables holds what it held.
KeptTables(S) ==
  /\ \A n \in DOMAIN table' : n \in DOMAIN table /\ table'[n] = table[n]
  /\ \A f \in S : f[2] \in DOMAIN table => f[2] \in DOMAIN table'
  /\ \A files, w : InTables(table', files, w) => InTables(table, files, w)
  /\ \A files, w : files \subseteq S /\ InTables(table, files, w) => InTables(table', files, w)

\* What is left of the logs from number lognum on.
KeptLogs(lognum) ==
  /\ \A n \in DOMAIN log' : n \in DOMAIN log /\ log'[n] = log[n]
  /\ \A n \in DOMAIN log : n >= lognum => n \in DOMAIN log'
  /\ \A from, w : InLogs(log', from, w) => InLogs(log, from, w)
  /\ \A w : /\ InLogs(log, lognum, w) => InLogs(log', lognum, w)
            /\ InSynced(log, lognum, w) => InSynced(log', lognum, w)

\* Nothing is swept away that the new version, a compaction, a reader or the
\* manifest needs.
LEMMA SweptKeeps ==
    ASSUME NEW files, NEW base, NEW pend, NEW lognum, NEW m2, Swept(files, base, pend, lognum, m2),
           NEW D, ~bg_error => D \subseteq files
    PROVE  /\ KeptTables(files \cup base \cup D \cup UNION {held[r] : r \in Readers})
           /\ KeptLogs(lognum)
<1>1. \A f \in files \cup base \cup UNION {held[r] : r \in Readers} :
        f[2] \in Live(files, base, pend, held)
  BY DEF Live, Numbers
<1>2. \A f \in files \cup base \cup D \cup UNION {held[r] : r \in Readers} :
        f[2] \in DOMAIN table => f[2] \in DOMAIN table'
  <2>1. CASE bg_error
    BY <2>1 DEF Swept
  <2>2. CASE ~bg_error
    <3>1. \A f \in D : f \in files
      BY <2>2
    <3>2. \A n \in Live(files, base, pend, held) : n \in DOMAIN table => n \in DOMAIN table'
      BY DEF Swept
    <3> QED
      BY <1>1, <3>1, <3>2
  <2> QED
    BY <2>1, <2>2
<1>3. \A n \in DOMAIN table' : n \in DOMAIN table /\ table'[n] = table[n]
  BY DEF Swept
<1>4. \A n \in DOMAIN log' : n \in DOMAIN log /\ log'[n] = log[n]
  BY DEF Swept
<1>5. \A n \in DOMAIN log : n >= lognum => n \in DOMAIN log'
  BY DEF Swept
<1>6. KeptTables(files \cup base \cup D \cup UNION {held[r] : r \in Readers})
  BY <1>2, <1>3 DEF KeptTables, InTables
<1>7. KeptLogs(lognum)
  BY <1>4, <1>5 DEF KeptLogs, InLogs, InSynced
<1> QED
  BY <1>6, <1>7

\* The version is installed when the manifest says it for certain, and what is
\* deleted then is needed by nobody.
LEMMA InstallStep ==
    ASSUME DBInv, Install
    PROVE  DBInv'
<1>1. PICK files, pend, running, base, imm2, m2 :
        /\ files = (vset.current \ edit.del) \cup edit.add
        /\ pend = PendingAfter(edit.kind = "compact")
        /\ running = (comp.on /\ edit.kind = "flush")
        /\ base = (IF running THEN comp.base ELSE {})
        /\ imm2 = (IF edit.kind = "flush" THEN NoImm ELSE imm)
        /\ m2 = SyncedManifest
  OBVIOUS
<1>2. /\ edit.kind \in {"flush", "move", "compact"} /\ running \in BOOLEAN
      /\ vset' = [vset EXCEPT !.current = files, !.log = edit.log]
      /\ imm' = imm2 /\ pending' = pend
      /\ comp' = IF running THEN comp ELSE NoComp
      /\ scheduled' \in BOOLEAN
      /\ safe' = safe \cup (IF edit.kind = "flush" THEN imm.ids \cap must ELSE {})
      /\ edit' = NoEdit
      /\ UNCHANGED <<CURRENT, phase, opening, mem, logfile, flush, bg_error, wr, held, seqOf, must, incidents>>
  <2>1. scheduled' \in BOOLEAN
    BY DEF Install, Reschedule, Schedules, NeedsCompaction
  <2> QED
    BY <1>1, <2>1 DEF Install
<1>3. \/ DeleteObsoleteFiles(files, base, pend, edit.log, m2)
      \/ log' = log /\ table' = table /\ manifest' = m2
  BY <1>1 DEF Install
<1>4. /\ phase = "up" /\ CURRENT # 0 /\ vset.man = CURRENT /\ CURRENT \in DOMAIN manifest
      /\ edit \in EditRec /\ edit # NoEdit /\ flush = 0
      /\ running => pend = pending /\ Fresh(comp.out)
      /\ ~running => pend = {}
  BY <1>1, <1>2, Installing
<1>5. /\ m2 \in [DOMAIN m2 -> ManifestFile] /\ DOMAIN m2 = DOMAIN manifest
      /\ m2[CURRENT].edits = manifest[CURRENT].edits
      /\ LeftOf(m2[CURRENT].edits, m2[CURRENT].synced) = {DiskState}
  <2>1. m2 = [manifest EXCEPT ![CURRENT].synced = Len(manifest[CURRENT].edits)]
    BY <1>1, <1>4 DEF SyncedManifest
  <2> QED
    BY <1>4, <2>1, ManifestSynced DEF DBInv, DiskState
<1>6. Swept(files, base, pend, edit.log, m2)
  BY <1>3, <1>5, ObsoleteDeleted DEF DBInv
<1>7. CURRENT \in DOMAIN manifest' /\ manifest'[CURRENT] = m2[CURRENT]
  <2>1. CURRENT >= vset.man
    BY <1>4 DEF DBInv, DBTypes, Num
  <2> QED
    BY <1>4, <1>5, <1>6, <2>1 DEF Swept
<1>8. PICK D : D = DiskState
  OBVIOUS
<1>9. Left' = {D} /\ DiskState' = D /\ D \in Left /\ D \in State
  BY <1>2, <1>4, <1>5, <1>7, <1>8, CurrentLeft DEF Left, DiskState, DBInv
<1>10. /\ D.log = edit.log /\ edit.add \subseteq D.files /\ (~bg_error => D.files = files)
       /\ \A w \in 1..MaxWrites : InTables(table, edit.del, w) => InTables(table, edit.add, w)
       /\ edit.kind = "flush" =>
            /\ imm.on /\ edit.log = logfile /\ edit.del = {}
            /\ \A w \in 1..MaxWrites : w \in imm.ids <=> InTables(table, edit.add, w)
       /\ edit.kind # "flush" => edit.log = vset.log
       /\ Filled(edit.add)
  BY <1>1, <1>4, <1>8 DEF DBInv, Recorded
<1>11. PICK used : used = files \cup base \cup D.files \cup UNION {held[r] : r \in Readers}
  OBVIOUS
<1>12. KeptTables(used) /\ KeptLogs(edit.log)
  BY <1>6, <1>10, <1>11, SweptKeeps
<1>13. /\ vset' \in VersionState /\ vset'.current = files /\ vset'.log = edit.log
       /\ vset'.next = vset.next /\ vset'.last = vset.last /\ vset'.man = vset.man
  <2>1. vset \in VersionState /\ files \subseteq FileRef /\ edit.log \in 0..MaxFile
    BY <1>1, <1>4 DEF DBInv, DBTypes, VersionState, EditRec
  <2> QED
    BY <1>2, <2>1 DEF VersionState
<1>14. opening.add = {} /\ opening.todo = {}
  BY <1>4 DEF DBInv, Phases, NoOpening
<1>15. UsedFiles' \subseteq used /\ used \subseteq UsedFiles \cup D.files
  <2>1. PICK h : h = UNION {held[r] : r \in Readers}
    OBVIOUS
  <2>2. UsedFiles' = files \cup comp'.base \cup h
    BY <1>2, <1>13, <1>14, <2>1 DEF UsedFiles
  <2>3. UsedFiles = vset.current \cup comp.base \cup h
    BY <1>14, <2>1 DEF UsedFiles
  <2>4. comp'.base = base /\ base \subseteq comp.base
    BY <1>1, <1>2 DEF NoComp
  <2>5. files \subseteq vset.current \cup D.files
    BY <1>1, <1>10
  <2>6. used = files \cup base \cup h \cup D.files
    BY <1>11, <2>1
  <2> QED
    BY <2>2, <2>3, <2>4, <2>5, <2>6
<1>16. Filled(used)'
  <2>1. Filled(used)
    BY <1>4, <1>9, <1>15 DEF DBInv, Tables, Filled
  <2> QED
    BY <1>12, <2>1 DEF KeptTables, Filled
<1>17. vset.log <= edit.log /\ edit.log <= logfile /\ logfile \in Nat /\ edit.log \in Nat /\ vset.log \in Nat
  <2>1. vset.log <= logfile /\ logfile \in Nat /\ vset.log \in Nat
    BY <1>4 DEF DBInv, Durable, DBTypes, VersionState
  <2> QED
    BY <1>10, <2>1
<1> USE DEF DBInv
<1>19. DBTypes'
  <2>1. pending' \subseteq Num /\ comp' \in CompState
    BY <1>2, <1>4 DEF DBTypes, NoComp, CompState
  <2>2. imm' \in [on : BOOLEAN, ids : SUBSET (1..MaxWrites)]
    BY <1>1, <1>2 DEF DBTypes, NoImm
  <2>3. /\ log' \in [DOMAIN log' -> LogFile] /\ DOMAIN log' \subseteq Num
        /\ table' \in [DOMAIN table' -> SUBSET (1..MaxWrites)] /\ DOMAIN table' \subseteq Num
        /\ manifest' \in [DOMAIN manifest' -> ManifestFile] /\ DOMAIN manifest' \subseteq Num
    BY <1>5, <1>6 DEF Swept, DBTypes
  <2> QED
    BY <1>2, <1>7, <1>13, <2>1, <2>2, <2>3 DEF DBTypes
<1>20. Phases'
  BY <1>1, <1>2, <1>4 DEF Phases, Idle, Opens
<1>21. Numbered'
  <2>1. \A f \in D.files : f[2] < vset.next
    <3>1. D.next \in Nat /\ vset.next \in Nat /\ \A f \in D.files : f[2] \in Nat
      BY <1>9, SMTT(30) DEF DBTypes, VersionState, State, FileRef, Num
    <3>2. D.next <= vset.next /\ \A f \in D.files : f[2] < D.next
      BY <1>4, <1>9 DEF Numbered
    <3> QED
      BY <3>1, <3>2
  <2>2. \A f \in UsedFiles' : f[2] < vset.next
    BY <1>4, <1>15, <2>1 DEF Numbered
  <2>3. \A n \in DOMAIN log' : n < vset.next
    BY <1>4, <1>12, <1>14 DEF Numbered, KeptLogs
  <2>4. logfile < vset.next /\ edit.log < vset.next /\ vset.man < vset.next /\ flush < vset.next
          /\ comp'.out < vset.next
    <3>1. vset.next \in Nat
      BY DEF DBTypes, VersionState
    <3>2. logfile < vset.next /\ vset.man < vset.next /\ flush < vset.next /\ comp.out < vset.next
      BY <1>4 DEF Numbered
    <3>3. comp'.out \in {comp.out, 0}
      BY <1>2 DEF NoComp
    <3> QED
      BY <1>17, <3>1, <3>2, <3>3
  <2>5. /\ \A f \in D.files : f[2] < D.next
        /\ D = Blank \/ (D.log < D.next /\ CURRENT < D.next)
        /\ D.next <= vset.next
        /\ CURRENT > 1 => D.next # 0
    BY <1>4, <1>9 DEF Numbered
  <2> HIDE DEF DBInv
  <2> QED
    BY <1>2, <1>4, <1>9, <1>13, <1>14, <2>2, <2>3, <2>4, <2>5 DEF Numbered
<1>22. Tables'
  <2>1. Filled(UsedFiles)' /\ Filled(D.files)'
    <3>1. D.files \subseteq used
      BY <1>11
    <3>2. \A f \in used : f[2] \in DOMAIN table' /\ table'[f[2]] # {}
      BY <1>16 DEF Filled
    <3>3. PICK u : u = UsedFiles'
      OBVIOUS
    <3>4. u \subseteq used
      BY <1>15, <3>3
    <3>5. \A f \in u : f[2] \in DOMAIN table' /\ table'[f[2]] # {}
      BY <3>2, <3>4
    <3> QED
      BY <3>1, <3>2, <3>3, <3>5 DEF Filled
  <2>2. Fresh(comp.out)'
    <3>1. CASE running
      <4>1. PICK k : k = comp.out
        OBVIOUS
      <4>2. k # 0 => k \in DOMAIN table /\ k \in pend /\ (\A f \in UsedFiles : f[2] # k) /\ (\A f \in D.files : f[2] # k)
        BY <1>4, <1>9, <3>1, <4>1 DEF Fresh
      <4>3. k # 0 => k \in DOMAIN table'
        <5>1. k \in pend => k \in Live(files, base, pend, held)
          BY DEF Live
        <5> QED
          BY <1>6, <4>2, <5>1 DEF Swept
      <4>4. Fresh(k)'
        BY <1>2, <1>9, <1>15, <4>2, <4>3 DEF Fresh
      <4> QED
        BY <1>2, <3>1, <4>1, <4>4 DEF Fresh
    <3>2. CASE ~running
      BY <1>2, <3>2 DEF Fresh, NoComp
    <3> QED
      BY <1>2, <3>1, <3>2
  <2>3. Fresh(flush)'
    BY <1>2, <1>4 DEF Fresh
  <2>4. pending' \subseteq {flush', comp'.out}
    BY <1>2, <1>4 DEF Tables
  <2>5. comp'.on => comp'.inputs # {} /\ comp'.inputs \subseteq files /\ comp'.inputs \subseteq comp'.base
    BY <1>1, <1>2, <1>10 DEF Tables, NoComp
  <2>6. ~comp'.on => comp' = NoComp
    BY <1>1, <1>2 DEF Tables, NoComp
  <2> HIDE DEF DBInv
  <2> QED
    BY <1>2, <1>4, <1>9, <1>13, <2>1, <2>2, <2>3, <2>4, <2>5, <2>6 DEF Tables, NoEdit
<1>23. Recorded'
  BY <1>2, <1>4, <1>9, <1>10, <1>13 DEF Recorded
<1>24. \A w \in 1..MaxWrites : InTables(table, vset.current, w) => InTables(table', files, w)
  <2> SUFFICES ASSUME NEW w \in 1..MaxWrites, InTables(table, vset.current, w)
               PROVE  InTables(table', files, w)
    OBVIOUS
  <2>1. InTables(table, files, w)
    <3>1. PICK f \in vset.current : f[2] \in DOMAIN table /\ w \in table[f[2]]
      BY DEF InTables
    <3>2. CASE f \in edit.del
      <4>1. InTables(table, edit.add, w)
        BY <1>10, <3>1, <3>2 DEF InTables
      <4> QED
        BY <1>1, <4>1 DEF InTables
    <3>3. CASE f \notin edit.del
      BY <1>1, <3>1, <3>3 DEF InTables
    <3> QED
      BY <3>2, <3>3
  <2> QED
    BY <1>11, <1>12, <2>1 DEF KeptTables
<1>25. \A w \in 1..MaxWrites : InTables(table', files, w) => InTables(table', D.files, w)
  <2> SUFFICES ASSUME NEW w \in 1..MaxWrites, InTables(table', files, w)
               PROVE  InTables(table', D.files, w)
    OBVIOUS
  <2>1. InTables(table, files, w)
    BY <1>12 DEF KeptTables
  <2>2. InTables(table, D.files, w)
    <3>1. PICK f \in files : f[2] \in DOMAIN table /\ w \in table[f[2]]
      BY <2>1 DEF InTables
    <3>2. CASE f \in edit.add
      BY <1>10, <3>1, <3>2 DEF InTables
    <3>3. CASE f \in vset.current
      <4>1. InTables(table, vset.current, w)
        BY <3>1, <3>3 DEF InTables
      <4> QED
        BY <1>4, <1>9, <4>1 DEF Durable
    <3> QED
      BY <1>1, <3>2, <3>3
  <2>3. D.files \subseteq used
    BY <1>11
  <2> QED
    BY <1>12, <2>2, <2>3 DEF KeptTables
<1>26. Durable'
  <2> HIDE DEF DBInv
  <2>1. Durable /\ must \subseteq 1..MaxWrites
    BY DEF DBInv, Durable, DBTypes
  <2>2. logfile \in DOMAIN log' /\ log'[logfile] = log[logfile] /\ \A n \in DOMAIN log' : n <= logfile
    BY <1>4, <1>12, <1>17, <2>1 DEF Durable, KeptLogs
  <2>3. imm'.on => edit.kind # "flush" /\ imm' = imm
    BY <1>1, <1>2 DEF NoImm
  <2>4. imm'.on => edit.log < logfile
    BY <1>4, <1>10, <2>1, <2>3 DEF Durable
  <2>5. \A w \in must : w \in mem \/ w \in imm'.ids \/ InTables(table', files, w)
    <3>1. \A w \in must : w \in imm.ids => w \in imm'.ids \/ InTables(table', files, w)
      <4>1. edit.kind # "flush" => imm' = imm
        BY <1>1, <1>2
      <4>2. \A w : InTables(table, edit.add, w) => InTables(table, files, w)
        BY <1>1 DEF InTables
      <4>3. files \subseteq used
        BY <1>11
      <4>4. \A w : InTables(table, files, w) => InTables(table', files, w)
        BY <1>12, <4>3 DEF KeptTables
      <4> QED
        BY <1>10, <2>1, <4>1, <4>2, <4>4
    <3> QED
      BY <1>4, <1>24, <2>1, <3>1 DEF Durable
  <2>6. mem \cap imm.ids = {}
    BY DEF DBInv, Logged
  <2>7. \A w \in mem \cap safe' : w \in safe
    BY <1>2, <2>6
  <2>8. \A w \in imm'.ids : imm' = imm /\ edit.log = vset.log /\ safe' = safe
    BY <1>1, <1>2, <1>10 DEF NoImm
  <2>9. \A w \in imm'.ids \cap must : InLogs(log', edit.log, w)
    BY <1>4, <1>12, <2>1, <2>8 DEF Durable, KeptLogs
  <2>10. \A w \in imm'.ids \cap safe' : InSynced(log', edit.log, w)
    BY <1>4, <1>12, <2>1, <2>8 DEF Durable, KeptLogs
  <2>11. safe' \subseteq must
    BY <1>2, <2>1 DEF Durable
  <2>12. (\A w \in mem \cap must : w \in Good(log'[logfile].recs))
         /\ (\A w \in mem \cap safe' : w \in GoodSynced(log'[logfile]))
    BY <1>4, <2>1, <2>2, <2>7 DEF Durable
  <2> QED
    BY <1>2, <1>4, <1>9, <1>10, <1>13, <1>17, <1>25, <2>1, <2>2, <2>4, <2>5, <2>9, <2>10, <2>11, <2>12
       DEF Durable
<1>27. Opened'
  BY <1>2, <1>4 DEF Opened
<1>28. Logged'
  <2>1. imm'.ids \subseteq imm.ids
    BY <1>1, <1>2 DEF NoImm
  <2> QED
    BY <1>2, <1>12, <2>1 DEF Logged, KeptLogs, KeptTables
<1>29. Sequenced'
  <2>1. \A v : Counts(v)' => Counts(v)
    <3>1. imm'.ids \subseteq imm.ids
      BY <1>1, <1>2 DEF NoImm
    <3>2. \A v : InLogs(log', edit.log, v) => InLogs(log, vset.log, v)
      <4>1. \A n \in DOMAIN log : n \in Nat
        BY DEF DBTypes, Num
      <4>2. \A n \in DOMAIN log : n >= edit.log => n >= vset.log
        BY <1>17, <4>1
      <4> QED
        BY <1>12, <4>2 DEF KeptLogs, InLogs
    <3>3. \A v : InTables(table', D.files, v) => InTables(table, D.files, v)
      BY <1>12 DEF KeptTables
    <3> QED
      BY <1>2, <1>4, <1>9, <1>13, <3>1, <3>2, <3>3 DEF Counts
  <2>2. \A w : InTables(table', D.files, w) => InTables(table, D.files, w)
    BY <1>12 DEF KeptTables
  <2>3. Sequenced
    OBVIOUS
  <2> HIDE DEF DBInv
  <2> QED
    BY <1>2, <1>4, <1>9, <1>13, <2>1, <2>2, <2>3 DEF Sequenced, Write
<1>30. Attempt'
  <2>1. imm'.ids \subseteq imm.ids
    BY <1>1, <1>2 DEF NoImm
  <2>2. logfile \in DOMAIN log'
    BY <1>4, <1>12, <1>17 DEF Durable, KeptLogs
  <2> QED
    BY <1>2, <1>4, <1>12, <1>13, <2>1, <2>2 DEF Attempt, Write, KeptLogs, KeptTables
<1> QED
  BY <1>19, <1>20, <1>21, <1>22, <1>23, <1>26, <1>27, <1>28, <1>29, <1>30

-----------------------------------------------------------------------------
(* The end of a process.                                                   *)

\* In every phase, what must be kept is in the tables or logs of every state
\* that the manifest may be left in.
LEMMA StillThere ==
    ASSUME DBInv, CURRENT # 0, NEW d \in Left
    PROVE  /\ \A w \in must : InTables(table, d.files, w) \/ InLogs(log, d.log, w)
           /\ \A w \in safe : InTables(table, d.files, w) \/ InSynced(log, d.log, w)
<1>1. must \subseteq 1..MaxWrites /\ safe \subseteq must
  BY DEF DBInv, DBTypes, Durable
<1>2. CASE phase # "up"
  BY <1>2 DEF DBInv, Durable
<1>3. CASE phase = "up"
  <2>1. /\ logfile \in DOMAIN log /\ vset.log <= logfile
        /\ \A w \in must : w \in mem \/ w \in imm.ids \/ InTables(table, vset.current, w)
        /\ \A w \in mem \cap must : w \in Good(log[logfile].recs)
        /\ \A w \in mem \cap safe : w \in GoodSynced(log[logfile])
        /\ \A w \in imm.ids \cap must : InLogs(log, vset.log, w)
        /\ \A w \in imm.ids \cap safe : InSynced(log, vset.log, w)
        /\ \A w \in 1..MaxWrites : InTables(table, vset.current, w) => InTables(table, d.files, w)
        /\ d.log = vset.log \/ (d.log = logfile /\ \A w \in imm.ids : InTables(table, d.files, w))
    BY <1>3 DEF DBInv, Durable
  <2>2. logfile >= d.log
    BY <2>1 DEF DBInv, DBTypes, VersionState
  <2>3. \A w \in mem \cap must : InLogs(log, d.log, w)
    BY <2>1, <2>2 DEF InLogs
  <2>4. \A w \in mem \cap safe : InSynced(log, d.log, w)
    BY <2>1, <2>2 DEF InSynced
  <2> QED
    BY <1>1, <2>1, <2>3, <2>4
<1> QED
  BY <1>2, <1>3

\* What the end of a process, or of the machine, leaves.
Ended ==
  /\ MemoryLost /\ UNCHANGED <<table, CURRENT, seqOf, safe>> /\ must' \in {must, safe}
  /\ incidents' \in Nat
  /\ log' \in [DOMAIN log -> LogFile] /\ DOMAIN log' = DOMAIN log
  /\ manifest' \in [DOMAIN manifest' -> ManifestFile] /\ DOMAIN manifest' \subseteq DOMAIN manifest
  /\ CURRENT # 0 => /\ CURRENT \in DOMAIN manifest'
                    /\ Left' \subseteq Left
                    /\ \A d \in Left' : d.next <= DiskState'.next
  /\ \A from, w : /\ InLogs(log', from, w) => InLogs(log, from, w)
                  /\ InSynced(log, from, w) => InSynced(log', from, w) /\ InLogs(log', from, w)
  /\ must' = safe \/ \A from, w : InLogs(log, from, w) => InLogs(log', from, w)
  /\ \A n \in DOMAIN log' : \A i, j \in DOMAIN log'[n].recs :
       /\ log'[n].recs[i] <= Len(seqOf)
       /\ i < j /\ log'[n].recs[j] # Torn => log'[n].recs[i] < log'[n].recs[j]

\* A process that ended leaves what every state of the manifest needs.
LEMMA EndedStep ==
    ASSUME DBInv, Ended
    PROVE  DBInv'
<1>1. /\ phase' = "down" /\ opening' = NoOpening /\ vset' = NoVset
      /\ mem' = {} /\ imm' = NoImm /\ logfile' = 0
      /\ pending' = {} /\ edit' = NoEdit /\ flush' = 0 /\ comp' = NoComp /\ scheduled' = FALSE
      /\ bg_error' = FALSE /\ wr' = Idle /\ held' = [r \in Readers |-> {}]
      /\ UNCHANGED <<table, CURRENT, seqOf, safe>> /\ must' \in {must, safe}
      /\ incidents' \in Nat
  BY DEF Ended, MemoryLost
<1>2. UsedFiles' = {}
  <2>1. \A r \in Readers : held'[r] = {}
    BY <1>1
  <2> QED
    BY <1>1, <2>1 DEF UsedFiles, NoOpening, NoVset, NoComp
<1> USE DEF DBInv
<1>3. DBTypes'
  <2>1. vset' \in VersionState /\ opening' \in OpeningState /\ wr' \in Writer
    BY <1>1 DEF NoVset, VersionState, NoOpening, OpeningState, Idle, Writer
  <2>2. comp' \in CompState /\ imm' \in [on : BOOLEAN, ids : SUBSET (1..MaxWrites)]
    BY <1>1 DEF NoComp, CompState, NoImm
  <2>3. CURRENT' \in DOMAIN manifest' \cup {0}
    BY <1>1 DEF Ended
  <2>4. held' \in [Readers -> SUBSET FileRef]
    BY <1>1
  <2>5. log' \in [DOMAIN log' -> LogFile] /\ DOMAIN log' = DOMAIN log
    BY DEF Ended
  <2>6. manifest' \in [DOMAIN manifest' -> ManifestFile] /\ DOMAIN manifest' \subseteq Num
    BY DEF Ended, DBTypes
  <2>7. DBTypes
    OBVIOUS
  <2>8. /\ table' \in [DOMAIN table' -> SUBSET (1..MaxWrites)] /\ DOMAIN table' \subseteq Num
        /\ seqOf' \in Seq(Nat) /\ Len(seqOf') <= MaxWrites
    BY <1>1 DEF DBTypes
  <2>9. /\ phase' \in {"down", "replay", "saving", "naming", "installed", "up"}
        /\ mem' \subseteq 1..MaxWrites /\ logfile' \in 0..MaxFile
        /\ pending' \subseteq Num /\ flush' \in 0..MaxFile /\ edit' \in EditRec \cup {NoEdit}
        /\ scheduled' \in BOOLEAN /\ bg_error' \in BOOLEAN /\ incidents' \in Nat
    <3>1. /\ phase' = "down" /\ mem' = {} /\ logfile' = 0 /\ pending' = {} /\ edit' = NoEdit
          /\ flush' = 0 /\ scheduled' = FALSE /\ bg_error' = FALSE /\ incidents' \in Nat
      BY <1>1
    <3>2. 0 \in 0..MaxFile
      OBVIOUS
    <3> HIDE DEF DBInv
    <3> QED
      BY <3>1, <3>2
  <2>10. DOMAIN log' \subseteq Num
    BY <2>5, <2>7 DEF DBTypes
  <2> HIDE DEF DBInv
  <2> QED
    BY <2>1, <2>2, <2>3, <2>4, <2>5, <2>6, <2>8, <2>9, <2>10 DEF DBTypes
<1>4. Phases'
  <2>1. CURRENT = 0 => must' = {} /\ DOMAIN log' = {} /\ DOMAIN manifest' = {}
    BY <1>1 DEF Phases, Ended
  <2> QED
    BY <1>1, <2>1 DEF Phases, Idle, Opens
<1>5. Numbered'
  <2>1. CURRENT # 0 => \A d \in Left' : d \in Left /\ d.next <= DiskState'.next
    BY DEF Ended
  <2> QED
    BY <1>1, <2>1 DEF Numbered
<1>6. Tables'
  <2>1. Filled(UsedFiles)'
    <3>1. PICK u : u = UsedFiles'
      OBVIOUS
    <3> QED
      BY <1>2, <3>1 DEF Filled
  <2>2. CURRENT # 0 => \A d \in Left' : Filled(d.files)'
    BY <1>1 DEF Ended, Tables, Filled
  <2>3. Fresh(flush)' /\ Fresh(comp.out)'
    BY <1>1 DEF Fresh, NoComp
  <2> HIDE DEF DBInv
  <2> QED
    BY <1>1, <2>1, <2>2, <2>3 DEF Tables, NoComp, NoEdit
<1>7. Recorded'
  BY <1>1 DEF Recorded
<1>8. Durable'
  <2>1. safe \subseteq must /\ must \subseteq 1..Len(seqOf)
    BY DEF Durable
  <2>2. CURRENT # 0 => \A d \in Left' :
          /\ \A w \in must' : InTables(table, d.files, w) \/ InLogs(log', d.log, w)
          /\ \A w \in safe : InTables(table, d.files, w) \/ InSynced(log', d.log, w)
    <3> SUFFICES ASSUME CURRENT # 0, NEW d \in Left'
                 PROVE  /\ \A w \in must' : InTables(table, d.files, w) \/ InLogs(log', d.log, w)
                        /\ \A w \in safe : InTables(table, d.files, w) \/ InSynced(log', d.log, w)
      OBVIOUS
    <3>1. d \in Left
      BY DEF Ended
    <3>2. /\ \A w \in must : InTables(table, d.files, w) \/ InLogs(log, d.log, w)
          /\ \A w \in safe : InTables(table, d.files, w) \/ InSynced(log, d.log, w)
      BY <3>1, StillThere
    <3> QED
      BY <1>1, <3>2 DEF Ended
  <2> HIDE DEF DBInv
  <2> QED
    BY <1>1, <2>1, <2>2 DEF Durable
<1>9. Opened'
  BY <1>1 DEF Opened
<1>10. Logged'
  BY <1>1 DEF Logged, Ended, NoImm
<1>11. Sequenced'
  <2>1. CURRENT # 0 => \A w : Counts(w)' => Counts(w)
    <3> SUFFICES ASSUME CURRENT # 0, NEW w, Counts(w)' PROVE Counts(w)
      OBVIOUS
    <3>1. PICK d \in Left' : InTables(table, d.files, w) \/ InLogs(log', d.log, w)
      BY <1>1 DEF Counts
    <3>2. d \in Left
      BY DEF Ended
    <3>3. InTables(table, d.files, w) \/ InLogs(log, d.log, w)
      BY <3>1 DEF Ended
    <3>4. CASE phase = "up"
      <4>1. d.log = vset.log \/ d.log = logfile
        BY <3>2, <3>4 DEF Durable
      <4>2. logfile >= vset.log /\ vset.log \in Nat /\ logfile \in Nat
        BY <3>4 DEF Durable, DBTypes, VersionState
      <4>3. \A n \in DOMAIN log : n \in Nat
        BY DEF DBTypes, Num
      <4>4. \A n \in DOMAIN log : n >= d.log => n >= vset.log
        BY <4>1, <4>2, <4>3
      <4>5. InLogs(log, d.log, w) => InLogs(log, vset.log, w)
        BY <4>4 DEF InLogs
      <4> QED
        BY <3>2, <3>3, <3>4, <4>5 DEF Counts
    <3>5. CASE phase # "up"
      BY <3>2, <3>3, <3>5 DEF Counts
    <3> QED
      BY <3>4, <3>5
  <2>2. CURRENT # 0 => Left' \subseteq Left
    BY DEF Ended
  <2>3. Sequenced
    OBVIOUS
  <2> HIDE DEF DBInv
  <2> QED
    BY <1>1, <2>1, <2>2, <2>3 DEF Sequenced
<1>12. Attempt'
  BY <1>1 DEF Attempt, Idle
<1> QED
  BY <1>3, <1>4, <1>5, <1>6, <1>7, <1>8, <1>9, <1>10, <1>11, <1>12

\* The next file number of what a manifest says is the largest of what it may say.
LEMMA RisingTop ==
    ASSUME DBTypes, CURRENT # 0, Rising, NEW d \in Left
    PROVE  d.next <= DiskState.next
<1>1. PICK e, y : e = manifest[CURRENT].edits /\ y = manifest[CURRENT].synced
  OBVIOUS
<1>2. e \in Seq(EditRec) /\ y \in 0..Len(e) /\ Len(e) \in Nat /\ SubSeq(e, 1, Len(e)) = e
  BY <1>1, CurrentLeft, WholePrefix
<1>3. PICK k \in y..Len(e) : d = Replay(SubSeq(e, 1, k))
  BY <1>1 DEF Left, LeftOf
<1>4. Len(e) \in y..Len(e) /\ k <= Len(e)
  BY <1>2
<1>5. Replay(SubSeq(e, 1, k)).next <= Replay(SubSeq(e, 1, Len(e))).next
  BY <1>1, <1>4 DEF Rising, Rises
<1> QED
  BY <1>1, <1>2, <1>3, <1>5 DEF DiskState

\* A process is killed.
LEMMA ProcessCrashStep ==
    ASSUME DBInv, Rising, ProcessCrash
    PROVE  DBInv'
<1>1. /\ phase # "down" /\ incidents' \in Nat /\ MemoryLost
      /\ UNCHANGED <<table, manifest, CURRENT, seqOf, must, safe>>
      /\ log' = log \/ (wr.pc = "append" /\ log' = [log EXCEPT ![logfile].recs = Append(@, Torn)])
  BY DEF ProcessCrash, Incident, DBInv, DBTypes
<1>2. CURRENT # 0 /\ CURRENT \in DOMAIN manifest /\ Left' = Left /\ DiskState' = DiskState
  BY <1>1 DEF DBInv, Phases, DBTypes, Left, DiskState
<1>3. \A d \in Left : d.next <= DiskState.next
  BY <1>2, RisingTop DEF DBInv
<1>4. /\ log' \in [DOMAIN log -> LogFile] /\ DOMAIN log' = DOMAIN log
      /\ \A from, w : /\ InLogs(log', from, w) <=> InLogs(log, from, w)
                      /\ InSynced(log', from, w) <=> InSynced(log, from, w)
      /\ \A n \in DOMAIN log' : \A i, j \in DOMAIN log'[n].recs :
           /\ log'[n].recs[i] <= Len(seqOf)
           /\ i < j /\ log'[n].recs[j] # Torn => log'[n].recs[i] < log'[n].recs[j]
  <2>1. CASE log' = log
    BY <2>1 DEF DBInv, DBTypes, Logged
  <2>2. CASE wr.pc = "append" /\ log' = [log EXCEPT ![logfile].recs = Append(@, Torn)]
    <3>1. /\ logfile \in DOMAIN log /\ log \in [DOMAIN log -> LogFile] /\ Torn \in 0..MaxWrites
          /\ log[logfile].recs \in Recs
      BY <2>2, WriterFacts DEF Torn, LogFile
    <3>2. PICK l2 : l2 = [log EXCEPT ![logfile].recs = @ \o <<Torn>>]
      OBVIOUS
    <3>3. l2 = log'
      <4>1. log[logfile].recs \o <<Torn>> = Append(log[logfile].recs, Torn)
        BY <3>1 DEF Recs
      <4> QED
        BY <2>2, <3>2, <4>1
    <3>4. Extended(l2, Torn) /\ ReadAlike(l2, Torn)
      BY <3>1, <3>2, AppendedToLog DEF DBInv
    <3>5. /\ l2 \in [DOMAIN log -> LogFile] /\ DOMAIN l2 = DOMAIN log
          /\ \A from, w : /\ InLogs(l2, from, w) <=> InLogs(log, from, w)
                          /\ InSynced(l2, from, w) <=> InSynced(log, from, w)
      BY <3>4 DEF Extended, ReadAlike
    <3>6. PICK q : q = Append(log[logfile].recs, Torn)
      OBVIOUS
    <3>7. \A i, j \in DOMAIN q : q[i] <= Len(seqOf) /\ (i < j /\ q[j] # Torn => q[i] < q[j])
      BY <2>2, <3>6, LogOrdered
    <3>8. l2[logfile].recs = q /\ \A n \in DOMAIN log : n # logfile => l2[n] = log[n]
      BY <3>4, <3>6 DEF Extended
    <3>9. \A n \in DOMAIN l2 : \A i, j \in DOMAIN l2[n].recs :
            /\ l2[n].recs[i] <= Len(seqOf)
            /\ i < j /\ l2[n].recs[j] # Torn => l2[n].recs[i] < l2[n].recs[j]
      <4> SUFFICES ASSUME NEW n \in DOMAIN log
                   PROVE  \A i, j \in DOMAIN l2[n].recs :
                            /\ l2[n].recs[i] <= Len(seqOf)
                            /\ i < j /\ l2[n].recs[j] # Torn => l2[n].recs[i] < l2[n].recs[j]
        BY <3>5
      <4>1. CASE n = logfile
        BY <3>7, <3>8, <4>1
      <4>2. CASE n # logfile
        BY <3>8, <4>2 DEF DBInv, Logged
      <4> QED
        BY <4>1, <4>2
    <3> QED
      BY <3>3, <3>5, <3>9
  <2> QED
    BY <1>1, <2>1, <2>2
<1>5. \A from, w : InSynced(log, from, w) => InLogs(log, from, w)
  <2>1. \A n \in DOMAIN log : GoodSynced(log[n]) \subseteq Good(log[n].recs)
    <3> TAKE n \in DOMAIN log
    <3>1. log[n].recs \in Recs /\ log[n].synced \in 0..Len(log[n].recs)
      BY DEF DBInv, DBTypes, LogFile, Recs
    <3> QED
      BY <3>1, GoodPrefix DEF GoodSynced
  <2> QED
    BY <2>1 DEF InSynced, InLogs
<1>6. manifest' \in [DOMAIN manifest' -> ManifestFile]
  BY <1>1 DEF DBInv, DBTypes
<1>7. Ended
  BY <1>1, <1>2, <1>3, <1>4, <1>5, <1>6 DEF Ended
<1> QED
  BY <1>7, EndedStep

\* An open that fails deletes the manifest it was writing, not the old one.
LEMMA OpenFailsStep ==
    ASSUME DBInv, Rising, OpenFails
    PROVE  DBInv'
<1>1. /\ phase \in {"replay", "saving", "naming"} /\ incidents' \in Nat /\ MemoryLost
      /\ UNCHANGED <<log, table, CURRENT, seqOf, must, safe>>
      /\ manifest' = manifest \/ manifest' = Only(manifest, DOMAIN manifest \ {vset.man})
  BY DEF OpenFails, Incident, DBInv, DBTypes
<1>2. CURRENT # 0 /\ vset.man # CURRENT /\ CURRENT \in DOMAIN manifest
  BY <1>1 DEF DBInv, Opened, DBTypes
<1>3. /\ CURRENT \in DOMAIN manifest' /\ manifest'[CURRENT] = manifest[CURRENT]
      /\ DOMAIN manifest' \subseteq DOMAIN manifest /\ manifest' \in [DOMAIN manifest' -> ManifestFile]
  BY <1>1, <1>2 DEF Only, DBInv, DBTypes
<1>4. Left' = Left /\ DiskState' = DiskState
  BY <1>1, <1>3 DEF Left, DiskState
<1>5. \A d \in Left : d.next <= DiskState.next
  BY <1>2, RisingTop DEF DBInv
<1>6. \A from, w : InSynced(log, from, w) => InLogs(log, from, w)
  <2>1. \A n \in DOMAIN log : GoodSynced(log[n]) \subseteq Good(log[n].recs)
    <3> TAKE n \in DOMAIN log
    <3>1. log[n].recs \in Recs /\ log[n].synced \in 0..Len(log[n].recs)
      BY DEF DBInv, DBTypes, LogFile, Recs
    <3> QED
      BY <3>1, GoodPrefix DEF GoodSynced
  <2> QED
    BY <2>1 DEF InSynced, InLogs
<1>7. /\ \A n \in DOMAIN log : \A i, j \in DOMAIN log[n].recs :
           /\ log[n].recs[i] <= Len(seqOf)
           /\ i < j /\ log[n].recs[j] # Torn => log[n].recs[i] < log[n].recs[j]
      /\ log \in [DOMAIN log -> LogFile]
  BY DEF DBInv, Logged, DBTypes
<1>8. Ended
  BY <1>1, <1>2, <1>3, <1>4, <1>5, <1>6, <1>7 DEF Ended
<1> QED
  BY <1>8, EndedStep

\* What a crash of the machine leaves of a log.
LEMMA LogRemains ==
    ASSUME DBTypes, Logged, NEW n \in DOMAIN log, NEW left \in Remains(log[n].recs, log[n].synced, Torn)
    PROVE  /\ [recs |-> left, synced |-> Len(left)] \in LogFile
           /\ GoodSynced(log[n]) \subseteq Good(left) /\ Good(left) \subseteq Good(log[n].recs)
           /\ GoodSynced([recs |-> left, synced |-> Len(left)]) = Good(left)
           /\ \A i, j \in DOMAIN left : /\ left[i] <= Len(seqOf)
                                        /\ i < j /\ left[j] # Torn => left[i] < left[j]
<1>1. PICK r, y : r = log[n].recs /\ y = log[n].synced
  OBVIOUS
<1>2. /\ r \in Recs /\ y \in 0..Len(r) /\ DOMAIN r = 1..Len(r)
      /\ left \in Remains(r, y, Torn)
  BY <1>1 DEF DBTypes, LogFile, Recs
<1>3. /\ left \in Recs
      /\ Good(SubSeq(r, 1, y)) \subseteq Good(left) /\ Good(left) \subseteq Good(r)
      /\ \A i \in 1..Len(left) : left[i] = Torn \/ (i \in 1..Len(r) /\ left[i] = r[i])
      /\ \A i, j \in 1..Len(left) : i < j /\ left[j] # Torn => i \in 1..Len(r) /\ left[i] = r[i]
  BY <1>2, GoodRemains
<1>4. DOMAIN left = 1..Len(left) /\ Len(left) \in Nat /\ SubSeq(left, 1, Len(left)) = left
  BY <1>3, WholePrefix DEF Recs
<1>5. [recs |-> left, synced |-> Len(left)] \in LogFile
  BY <1>3, <1>4 DEF LogFile
<1>6. GoodSynced([recs |-> left, synced |-> Len(left)]) = Good(left)
  BY <1>4 DEF GoodSynced
<1>7. \A i, j \in DOMAIN r : r[i] <= Len(seqOf) /\ (i < j /\ r[j] # Torn => r[i] < r[j])
  BY <1>1 DEF Logged
<1>8. \A i \in DOMAIN left : left[i] <= Len(seqOf)
  <2>1. 0 <= Len(seqOf)
    BY DEF DBTypes
  <2> QED
    BY <1>2, <1>3, <1>4, <1>7, <2>1 DEF Torn
<1>9. \A i, j \in DOMAIN left : i < j /\ left[j] # Torn => left[i] < left[j]
  BY <1>2, <1>3, <1>4, <1>7
<1> QED
  BY <1>1, <1>3, <1>5, <1>6, <1>8, <1>9 DEF GoodSynced

\* The machine goes down: the synced parts of logs and manifest are enough.
LEMMA MachineCrashStep ==
    ASSUME DBInv, MachineCrash
    PROVE  DBInv'
<1>1. /\ incidents' \in Nat /\ MemoryLost /\ must' = safe
      /\ UNCHANGED <<table, CURRENT, seqOf, safe>>
  BY DEF MachineCrash, Incident, DBInv, DBTypes
<1>2. PICK l : /\ \A n \in DOMAIN log : l[n] \in Remains(log[n].recs, log[n].synced, Torn)
               /\ log' = [n \in DOMAIN log |-> [recs |-> l[n], synced |-> Len(l[n])]]
  BY DEF MachineCrash
<1>3. PICK m : /\ \A n \in DOMAIN manifest : m[n] \in Remains(manifest[n].edits, manifest[n].synced, TornEdit)
               /\ manifest' = [n \in DOMAIN manifest |-> [edits |-> m[n], synced |-> Len(m[n])]]
  BY DEF MachineCrash
<1>4. \A n \in DOMAIN log :
        /\ log'[n] \in LogFile /\ log'[n].recs = l[n]
        /\ GoodSynced(log[n]) \subseteq Good(log'[n].recs) /\ Good(log'[n].recs) \subseteq Good(log[n].recs)
        /\ GoodSynced(log'[n]) = Good(log'[n].recs)
        /\ \A i, j \in DOMAIN l[n] : /\ l[n][i] <= Len(seqOf)
                                     /\ i < j /\ l[n][j] # Torn => l[n][i] < l[n][j]
  <2> TAKE n \in DOMAIN log
  <2>1. PICK left : left = l[n]
    OBVIOUS
  <2>2. log'[n] = [recs |-> left, synced |-> Len(left)] /\ left \in Remains(log[n].recs, log[n].synced, Torn)
    BY <1>2, <2>1
  <2>3. log'[n].recs = left
    BY <2>2
  <2> QED
    BY <2>1, <2>2, <2>3, LogRemains DEF DBInv
<1>5. log' \in [DOMAIN log -> LogFile] /\ DOMAIN log' = DOMAIN log
  BY <1>2, <1>4
<1>6. \A from, w : /\ InLogs(log', from, w) => InLogs(log, from, w)
                   /\ InSynced(log, from, w) => InSynced(log', from, w) /\ InLogs(log', from, w)
  <2>1. \A n \in DOMAIN log :
          /\ GoodSynced(log[n]) \subseteq Good(log'[n].recs) /\ Good(log'[n].recs) \subseteq Good(log[n].recs)
          /\ GoodSynced(log'[n]) = Good(log'[n].recs)
    BY <1>4
  <2> QED
    BY <1>5, <2>1 DEF InLogs, InSynced
<1>7. \A n \in DOMAIN manifest :
        /\ manifest'[n] = [edits |-> m[n], synced |-> Len(m[n])]
        /\ m[n] \in Seq(EditRec)
        /\ Replay(m[n]) \in LeftOf(manifest[n].edits, manifest[n].synced)
        /\ LeftOf(m[n], Len(m[n])) = {Replay(m[n])}
  <2> TAKE n \in DOMAIN manifest
  <2>1. PICK e, y, left : e = manifest[n].edits /\ y = manifest[n].synced /\ left = m[n]
    OBVIOUS
  <2>2. e \in Seq(EditRec) /\ y \in 0..Len(e)
    BY <2>1 DEF DBInv, DBTypes, ManifestFile
  <2>3. left \in Remains(e, y, TornEdit)
    BY <1>3, <2>1
  <2>4. left \in Seq(EditRec) /\ Replay(left) \in LeftOf(e, y) /\ LeftOf(left, Len(left)) = {Replay(left)}
    BY <2>2, <2>3, LeftByCrash
  <2> QED
    BY <1>3, <2>1, <2>4
<1>8. manifest' \in [DOMAIN manifest' -> ManifestFile] /\ DOMAIN manifest' = DOMAIN manifest
  <2>1. \A n \in DOMAIN manifest : manifest'[n] \in ManifestFile
    <3> TAKE n \in DOMAIN manifest
    <3>1. PICK left : left = m[n]
      OBVIOUS
    <3>2. manifest'[n] = [edits |-> left, synced |-> Len(left)] /\ left \in Seq(EditRec)
      BY <1>7, <3>1
    <3>3. Len(left) \in Nat
      BY <3>2
    <3> QED
      BY <3>2, <3>3 DEF ManifestFile
  <2> QED
    BY <1>3, <2>1
<1>9. CURRENT # 0 => /\ CURRENT \in DOMAIN manifest'
                     /\ Left' \subseteq Left
                     /\ \A d \in Left' : d.next <= DiskState'.next
  <2> SUFFICES ASSUME CURRENT # 0
               PROVE  /\ CURRENT \in DOMAIN manifest'
                      /\ Left' \subseteq Left
                      /\ \A d \in Left' : d.next <= DiskState'.next
    OBVIOUS
  <2>1. CURRENT \in DOMAIN manifest
    BY DEF DBInv, DBTypes
  <2>2. PICK D : D = Replay(m[CURRENT])
    OBVIOUS
  <2>3. /\ manifest'[CURRENT].edits = m[CURRENT] /\ manifest'[CURRENT].synced = Len(m[CURRENT])
        /\ D \in LeftOf(manifest[CURRENT].edits, manifest[CURRENT].synced)
        /\ LeftOf(m[CURRENT], Len(m[CURRENT])) = {D}
    <3>1. manifest'[CURRENT] = [edits |-> m[CURRENT], synced |-> Len(m[CURRENT])]
      BY <1>7, <2>1
    <3>2. /\ Replay(m[CURRENT]) \in LeftOf(manifest[CURRENT].edits, manifest[CURRENT].synced)
          /\ LeftOf(m[CURRENT], Len(m[CURRENT])) = {Replay(m[CURRENT])}
      BY <1>7, <2>1
    <3>3. manifest'[CURRENT].edits = m[CURRENT] /\ manifest'[CURRENT].synced = Len(m[CURRENT])
      <4>1. PICK left, file : left = m[CURRENT] /\ file = manifest'[CURRENT]
        OBVIOUS
      <4>2. file = [edits |-> left, synced |-> Len(left)]
        BY <3>1, <4>1
      <4>3. file.edits = left /\ file.synced = Len(left)
        BY <4>2
      <4> QED
        BY <4>1, <4>3
    <3> QED
      BY <2>2, <3>2, <3>3
  <2>4. Left' = {D} /\ DiskState' = D /\ D \in Left
    BY <1>1, <2>2, <2>3 DEF Left, DiskState
  <2>5. D.next \in Nat
    BY <2>4, CurrentLeft DEF DBInv, State
  <2> QED
    BY <1>8, <2>1, <2>4, <2>5
<1>10. \A n \in DOMAIN log' : \A i, j \in DOMAIN log'[n].recs :
         /\ log'[n].recs[i] <= Len(seqOf)
         /\ i < j /\ log'[n].recs[j] # Torn => log'[n].recs[i] < log'[n].recs[j]
  BY <1>4, <1>5
<1>11. Ended
  BY <1>1, <1>5, <1>6, <1>8, <1>9, <1>10 DEF Ended
<1> QED
  BY <1>11, EndedStep

-----------------------------------------------------------------------------
(* DB::Open.                                                               *)

\* The first manifest describes a database without writes, whole or not.
LEMMA NewDBStep ==
    ASSUME DBInv, NewDB
    PROVE  DBInv'
<1>1. /\ phase = "down" /\ CURRENT = 0 /\ CURRENT' = 1
      /\ manifest' = Put(manifest, 1, [edits |-> <<Edit(0, 2, 0, {}, {})>>, synced |-> 0])
      /\ UNCHANGED <<log, table, phase, opening, vset, mem, imm, logfile, pending, edit, flush, comp,
                     scheduled, bg_error, wr, held, seqOf, must, safe, incidents>>
  BY DEF NewDB, memory, bgvars
<1>2. /\ must = {} /\ safe = {} /\ seqOf = << >>
      /\ DOMAIN log = {} /\ DOMAIN table = {} /\ DOMAIN manifest = {}
      /\ mem = {} /\ imm = NoImm /\ pending = {} /\ flush = 0 /\ comp = NoComp
      /\ ~scheduled /\ ~bg_error /\ wr = Idle /\ (\A r \in Readers : held[r] = {})
      /\ opening = NoOpening /\ vset = NoVset /\ logfile = 0 /\ edit = NoEdit
  BY <1>1 DEF DBInv, Phases
<1>3. PICK e, s : e = Edit(0, 2, 0, {}, {}) /\ s = Append(<< >>, e)
  OBVIOUS
<1>4. e \in EditRec /\ e.kind = "edit" /\ e.next = 2 /\ e.log = 0 /\ e.last = 0 /\ e.add = {} /\ e.del = {}
  BY <1>3 DEF Edit, EditRec
<1>5. s = <<e>> /\ << >> \in Seq(EditRec) /\ Len(<< >>) = 0 /\ 0 \in 0..Len(<< >>)
  BY <1>3
<1>6. PICK z : z = << >>
  OBVIOUS
<1>7. /\ s \in Seq(EditRec) /\ Len(s) = 1 /\ Replay(s) = Apply(Blank, e)
      /\ LeftOf(s, 0) = LeftOf(z, 0) \cup {Replay(s)}
  <2>1. z \in Seq(EditRec) /\ 0 \in 0..Len(z) /\ Len(z) = 0
    BY <1>5, <1>6
  <2>2. s = Append(z, e) /\ Replay(z) = Blank
    BY <1>3, <1>6, ReplayEmpty
  <2>3. Len(s) = 1
    BY <1>5
  <2> QED
    BY <1>4, <2>1, <2>2, <2>3, LeftAppend
<1>8. LeftOf(z, 0) = {Blank}
  <2>1. z \in Seq(EditRec) /\ Len(z) = 0
    BY <1>5, <1>6
  <2> QED
    BY <1>6, <2>1, LeftSynced, ReplayEmpty
<1>9. PICK D : D = [files |-> {}, log |-> 0, next |-> 2, last |-> 0]
  OBVIOUS
<1>10. Replay(s) = D
  BY <1>4, <1>7, <1>9 DEF Apply, Blank
<1>11. DOMAIN manifest' = {1} /\ manifest'[1] = [edits |-> s, synced |-> 0]
         /\ manifest' = [n \in DOMAIN manifest' |-> manifest'[n]]
  BY <1>1, <1>2, <1>3, <1>5 DEF Put
<1>12. Left' = {Blank, D} /\ DiskState' = D
  <2>1. PICK file : file = manifest'[CURRENT']
    OBVIOUS
  <2>2. file.edits = s /\ file.synced = 0
    BY <1>1, <1>11, <2>1
  <2> QED
    BY <1>7, <1>8, <1>10, <2>1, <2>2 DEF Left, DiskState
<1>13. [edits |-> s, synced |-> 0] \in ManifestFile
  BY <1>7 DEF ManifestFile
<1>14. manifest' \in [DOMAIN manifest' -> ManifestFile] /\ DOMAIN manifest' \subseteq Num
  BY <1>11, <1>13 DEF Num
<1>15. /\ \A d \in {Blank, D} : /\ d.files = {} /\ d.next <= 2
                                /\ d = Blank \/ (d.log = 0 /\ d.next = 2)
       /\ D.next = 2
  BY <1>9 DEF Blank
<1>16. UsedFiles' = UsedFiles
  BY <1>1 DEF UsedFiles
<1>17. Len(seqOf) = 0 /\ 1..Len(seqOf) = {}
  BY <1>2
<1>18. DBTypes'
  BY <1>1, <1>11, <1>14 DEF DBInv, DBTypes
<1>19. Phases'
  BY <1>1, <1>2 DEF DBInv, Phases, Opens
<1>20. Numbered'
  BY <1>1, <1>12, <1>15 DEF DBInv, Numbered
<1>21. Tables'
  <2>1. \A d \in Left' : Filled(d.files)'
    BY <1>12, <1>15 DEF Filled
  <2>2. Fresh(flush)' /\ Fresh(comp.out)'
    BY <1>1, <1>2 DEF Fresh, NoComp
  <2>3. Filled(UsedFiles)'
    BY <1>1, <1>16 DEF DBInv, Tables, Filled
  <2>4. Tables
    BY DEF DBInv
  <2> QED
    BY <1>1, <1>2, <2>1, <2>2, <2>3, <2>4 DEF Tables, NoEdit
<1>22. Recorded' /\ Opened'
  BY <1>1 DEF Recorded, Opened
<1>23. Durable' /\ Logged'
  BY <1>1, <1>2, <1>17 DEF Durable, Logged, NoImm
<1>24. Sequenced'
  BY <1>1, <1>17 DEF Sequenced
<1>25. Attempt'
  BY <1>1, <1>2 DEF Attempt, Idle
<1> QED
  BY <1>18, <1>19, <1>20, <1>21, <1>22, <1>23, <1>24, <1>25 DEF DBInv

\* Recover reads the state that the manifest describes.
LEMMA OpenReadStep ==
    ASSUME DBInv, Rising, ~ReuseLogs, OpenRead
    PROVE  DBInv'
<1>1. PICK D : D = DiskState
  OBVIOUS
<1>2. /\ phase = "down" /\ CURRENT # 0 /\ phase' = "replay"
      /\ D.next # 0 /\ D.next + 1 \in Num
      /\ vset' = [current |-> D.files, log |-> D.log, next |-> D.next + 1, last |-> D.last, man |-> D.next]
      /\ opening' = [todo |-> LogsOf(D), add |-> {}, maxseq |-> 0, save |-> TRUE, reuse |-> FALSE]
      /\ UNCHANGED <<log, table, manifest, CURRENT, mem, imm, logfile, pending, edit, flush, comp,
                     scheduled, bg_error, wr, held, seqOf, must, safe, incidents>>
  BY <1>1 DEF OpenRead, disk, memory, bgvars, NoOpening
<1>3. D \in Left /\ D \in State /\ Left' = Left /\ DiskState' = D
  BY <1>1, <1>2, CurrentLeft DEF Left, DiskState, DBInv
<1>4. \A d \in Left : d.next <= D.next /\ d \in State
  BY <1>1, <1>2, RisingTop, CurrentLeft DEF DBInv
<1>5. /\ mem = {} /\ imm = NoImm /\ pending = {} /\ flush = 0 /\ comp = NoComp
      /\ ~scheduled /\ ~bg_error /\ wr = Idle /\ (\A r \in Readers : held[r] = {})
      /\ opening = NoOpening /\ vset = NoVset /\ logfile = 0 /\ edit = NoEdit
  BY <1>2 DEF DBInv, Phases
<1>6. /\ D.next \in Nat /\ D.log \in 0..MaxFile /\ D.last \in Nat /\ D.files \subseteq FileRef
      /\ \A f \in D.files : f[2] < D.next /\ f[2] \in Nat
      /\ D.log < D.next /\ CURRENT < D.next
  <2>1. D # Blank
    BY <1>2 DEF Blank
  <2> QED
    BY <1>2, <1>3, <2>1 DEF DBInv, Numbered, State, FileRef, Num
<1>7. UsedFiles' = D.files
  <2>1. held' = held /\ UNION {held[r] : r \in Readers} = {}
    BY <1>2, <1>5
  <2> QED
    BY <1>2, <1>5, <2>1 DEF UsedFiles, NoComp
<1>8. LogsOf(D) \subseteq DOMAIN log
  BY DEF LogsOf
<1> USE DEF DBInv
<1>9. DBTypes'
  <2>1. vset' \in VersionState /\ opening' \in OpeningState
    <3>1. LogsOf(D) \subseteq Num /\ D.next + 1 \in Nat
      BY <1>6, <1>8 DEF DBTypes
    <3>2. vset' \in VersionState
      BY <1>2, <1>6, <3>1 DEF VersionState
    <3>3. opening' \in OpeningState
      BY <1>2, <3>1 DEF OpeningState
    <3> QED
      BY <3>2, <3>3
  <2> QED
    BY <1>2, <2>1 DEF DBTypes
<1>10. Phases'
  BY <1>2, <1>5, <1>8 DEF Phases, Opens, Idle
<1>11. Numbered'
  <2>1. vset'.next = D.next + 1 /\ vset'.man = D.next /\ vset'.log = D.log /\ opening'.todo = LogsOf(D)
    BY <1>2
  <2>2. \A d \in Left : d.next <= D.next + 1
    BY <1>4, <1>6 DEF State
  <2>3. \A f \in D.files : f[2] < D.next + 1
    BY <1>6
  <2>4. \A n \in DOMAIN log \ LogsOf(D) : n < D.next + 1
    <3>1. \A n \in DOMAIN log : n \in Nat
      BY DEF DBTypes, Num
    <3> QED
      BY <1>6, <3>1 DEF LogsOf
  <2>5. 0 < D.next + 1 /\ D.log < D.next + 1 /\ D.next < D.next + 1
    BY <1>6
  <2>6. Numbered
    OBVIOUS
  <2>7. comp'.out = 0 /\ flush' = 0 /\ logfile' = 0
    BY <1>2, <1>5 DEF NoComp
  <2> HIDE DEF DBInv
  <2> QED
    BY <1>2, <1>3, <1>7, <2>1, <2>2, <2>3, <2>4, <2>5, <2>6, <2>7 DEF Numbered
<1>12. Tables'
  <2>1. Filled(UsedFiles)'
    <3>1. PICK u : u = UsedFiles'
      OBVIOUS
    <3> QED
      BY <1>2, <1>3, <1>7, <3>1 DEF Tables, Filled
  <2>2. \A d \in Left' : Filled(d.files)'
    BY <1>2, <1>3 DEF Tables, Filled
  <2>3. Fresh(flush)' /\ Fresh(comp.out)'
    BY <1>2, <1>5 DEF Fresh, NoComp
  <2> HIDE DEF DBInv
  <2> QED
    BY <1>2, <1>3, <1>5, <2>1, <2>2, <2>3 DEF Tables, NoComp, NoEdit
<1>13. Recorded'
  BY <1>2 DEF Recorded
<1>14. Durable'
  BY <1>2, <1>3 DEF Durable
<1>15. Opened'
  <2>1. \A w \in 1..MaxWrites : InTables(table, D.files, w) => seqOf[w] <= D.last
    <3> SUFFICES ASSUME NEW w \in 1..MaxWrites, InTables(table, D.files, w) PROVE seqOf[w] <= D.last
      OBVIOUS
    <3>1. w \in 1..Len(seqOf)
      BY DEF InTables, Logged
    <3> QED
      BY <1>2, <1>3, <3>1 DEF Sequenced
  <2>2. \A w : ~InTables(table, {}, w)
    BY DEF InTables
  <2>3. /\ vset'.man \notin {0, CURRENT} /\ vset'.current = D.files /\ vset'.last = D.last
        /\ opening'.todo = LogsOf(D) /\ opening'.add = {}
    BY <1>2, <1>6
  <2>4. \A n \in DOMAIN log : n >= D.log => n \in LogsOf(D)
    BY DEF LogsOf
  <2>5. LogsOf(D)' = LogsOf(D)
    BY <1>2 DEF LogsOf
  <2> HIDE DEF DBInv
  <2> QED
    BY <1>2, <1>3, <2>1, <2>2, <2>3, <2>4, <2>5 DEF Opened, LogsOf
<1>16. Logged'
  BY <1>2 DEF Logged
<1>17. Sequenced'
  <2>1. \A v : Counts(v)' <=> Counts(v)
    BY <1>2, <1>3 DEF Counts
  <2> QED
    BY <1>2, <1>3, <2>1 DEF Sequenced
<1>18. Attempt'
  BY <1>2, <1>5 DEF Attempt, Idle
<1> QED
  BY <1>9, <1>10, <1>11, <1>12, <1>13, <1>14, <1>15, <1>16, <1>17, <1>18

\* The records that are read of a log while the database is opened.
LEMMA ReplayedLog ==
    ASSUME DBInv, phase = "replay", NEW n \in opening.todo, NEW recs, recs = Readable(log[n].recs)
    PROVE  /\ n \in DOMAIN log /\ n >= DiskState.log
           /\ ToSet(recs) = Good(log[n].recs) /\ ToSet(recs) \subseteq 1..Len(seqOf)
           /\ ToSet(recs) \subseteq 1..MaxWrites
           /\ recs = << >> <=> ToSet(recs) = {}
           /\ ReplayedSeq(recs) \in Nat
           /\ \A w \in ToSet(recs) : seqOf[w] <= ReplayedSeq(recs)
<1>1. n \in DOMAIN log /\ n >= DiskState.log /\ CURRENT # 0
  BY DEF DBInv, Opened, LogsOf
<1>2. PICK all : all = log[n].recs
  OBVIOUS
<1>3. all \in Recs /\ DOMAIN all = 1..Len(all) /\ Len(all) \in Nat
  BY <1>1, <1>2 DEF DBInv, DBTypes, LogFile, Recs
<1>4. /\ ToSet(recs) = Good(all) /\ recs \in Recs
      /\ \E k \in 0..Len(all) : /\ recs = SubSeq(all, 1, k)
                                /\ \A i \in 1..k : all[i] # Torn
  BY <1>2, <1>3, ReadableIsGood
<1>5. PICK k \in 0..Len(all) : recs = SubSeq(all, 1, k) /\ \A i \in 1..k : all[i] # Torn
  BY <1>4
<1>6. /\ DOMAIN recs = 1..k /\ Len(recs) = k /\ k \in Nat /\ 1..k \subseteq 1..Len(all)
      /\ \A i \in 1..k : recs[i] = all[i] /\ recs[i] # Torn
  BY <1>3, <1>5 DEF Recs
<1>7. ToSet(recs) = {recs[i] : i \in 1..k}
  BY <1>6 DEF ToSet
<1>8. \A i \in 1..k : recs[i] \in 1..MaxWrites
  BY <1>3, <1>6 DEF Recs, Torn
<1>9. \A i \in 1..k : recs[i] <= Len(seqOf)
  BY <1>1, <1>2, <1>3, <1>6 DEF DBInv, Logged
<1>10. Len(seqOf) \in Nat /\ \A w \in 1..Len(seqOf) : seqOf[w] \in Nat
  BY DEF DBInv, DBTypes
<1>11. ToSet(recs) \subseteq 1..Len(seqOf) /\ ToSet(recs) \subseteq 1..MaxWrites
  BY <1>7, <1>8, <1>9, <1>10
<1>12. CASE k = 0
  <2>1. recs = << >> /\ ToSet(recs) = {}
    BY <1>6, <1>7, <1>12, <1>4 DEF Recs
  <2> QED
    BY <1>1, <1>2, <1>4, <1>11, <2>1 DEF ReplayedSeq
<1>13. CASE k # 0
  <2>1. k \in 1..k /\ recs # << >> /\ ToSet(recs) # {} /\ Last(recs) = recs[k]
    BY <1>6, <1>7, <1>13 DEF Last
  <2>2. recs[k] \in 1..Len(seqOf) /\ ReplayedSeq(recs) = seqOf[recs[k]]
    BY <1>7, <1>11, <2>1 DEF ReplayedSeq
  <2>3. DiskState \in Left
    BY <1>1, CurrentLeft DEF DBInv
  <2>4. \A w \in ToSet(recs) : Counts(w)
    BY <1>1, <1>2, <1>4, <2>3 DEF Counts, InLogs
  <2>5. ASSUME NEW i \in 1..k PROVE seqOf[recs[i]] <= seqOf[recs[k]]
    <3>1. recs[i] \in 1..Len(seqOf) /\ recs[i] \in ToSet(recs) /\ recs[k] \in ToSet(recs)
      BY <1>7, <1>11, <2>1
    <3>2. seqOf[recs[i]] \in Nat /\ seqOf[recs[k]] \in Nat
      BY <1>10, <2>2, <3>1
    <3>3. CASE i = k
      BY <3>2, <3>3
    <3>4. CASE i # k
      <4>1. i < k /\ i \in DOMAIN all /\ k \in DOMAIN all
        BY <1>3, <1>6, <2>1, <3>4
      <4>2. all[i] < all[k]
        BY <1>1, <1>2, <1>5, <2>1, <4>1 DEF DBInv, Logged
      <4>3. recs[i] < recs[k]
        BY <1>6, <2>1, <4>2
      <4>4. seqOf[recs[i]] < seqOf[recs[k]]
        BY <1>1, <2>2, <2>4, <3>1, <4>3 DEF DBInv, Sequenced
      <4> QED
        BY <3>2, <4>4
    <3> QED
      BY <3>3, <3>4
  <2>6. ReplayedSeq(recs) \in Nat
    BY <1>10, <2>2
  <2> QED
    BY <1>1, <1>2, <1>4, <1>7, <1>11, <2>1, <2>2, <2>5, <2>6
<1> QED
  BY <1>12, <1>13

\* RecoverLogFile saves a log in a table with a number nothing else has.
LEMMA ReplayLogStep ==
    ASSUME DBInv, ~ReuseLogs, ReplayLog
    PROVE  DBInv'
<1>1. PICK n, t : n = Min(opening.todo) /\ t = vset.next
  OBVIOUS
<1>2. PICK recs : recs = Readable(log[n].recs)
  OBVIOUS
<1>3. PICK flushed, used, more :
        /\ flushed = (recs # << >>)
        /\ used = Larger(IF recs # << >> THEN t + 1 ELSE t, n + 1)
        /\ more = opening.add \cup (IF recs # << >> THEN {<<0, t>>} ELSE {})
  OBVIOUS
<1>4. PICK maxseq : maxseq = Larger(opening.maxseq, ReplayedSeq(recs))
  OBVIOUS
<1>5. /\ phase = "replay" /\ phase' = phase /\ opening.todo # {} /\ t \in Num
      /\ vset' = [vset EXCEPT !.next = used]
      /\ opening' = [todo |-> opening.todo \ {n}, add |-> more, maxseq |-> maxseq,
                     save |-> opening.save \/ flushed, reuse |-> opening.reuse]
      /\ table' = IF flushed THEN Put(table, t, ToSet(recs)) ELSE table
      /\ mem' = {} /\ logfile' = 0
      /\ UNCHANGED <<log, manifest, CURRENT, imm, pending, edit, flush, comp, scheduled, bg_error, wr, held,
                     seqOf, must, safe, incidents>>
  BY <1>1, <1>2, <1>3, <1>4 DEF ReplayLog, HasNumber, NewFileNumber, bgvars
<1>6. n \in opening.todo
  <2>1. opening.todo \in SUBSET Nat
    BY DEF DBInv, DBTypes, OpeningState, Num
  <2>2. \E x \in opening.todo : \A y \in opening.todo : x <= y
    BY <1>5, <2>1, LeastNat
  <2> QED
    BY <1>1, <2>2 DEF Min
<1>7. PICK W : W = ToSet(recs)
  OBVIOUS
<1>8. /\ n \in DOMAIN log /\ n >= DiskState.log
      /\ W = Good(log[n].recs) /\ W \subseteq 1..Len(seqOf) /\ W \in SUBSET (1..MaxWrites)
      /\ flushed <=> W # {}
      /\ ReplayedSeq(recs) \in Nat
      /\ \A w \in W : seqOf[w] <= ReplayedSeq(recs)
  BY <1>2, <1>3, <1>5, <1>6, <1>7, ReplayedLog
<1>9. /\ CURRENT # 0 /\ mem = {} /\ imm = NoImm /\ pending = {} /\ flush = 0 /\ comp = NoComp
      /\ ~scheduled /\ ~bg_error /\ wr = Idle /\ (\A r \in Readers : held[r] = {})
      /\ logfile = 0 /\ edit = NoEdit /\ opening.save /\ ~opening.reuse
  BY <1>5 DEF DBInv, Phases, Opened, Opens
<1>10. PICK D : D = DiskState
  OBVIOUS
<1>11. Left' = Left /\ DiskState' = D /\ D \in Left /\ D \in State /\ Left \subseteq State
  BY <1>5, <1>9, <1>10, CurrentLeft DEF Left, DiskState, DBInv
<1>12. n \in Nat /\ t \in Nat /\ used \in Nat /\ t <= used /\ n < used /\ (flushed => t < used)
  <2>1. n \in Nat /\ t \in Nat
    BY <1>5, <1>8 DEF DBInv, DBTypes, Num
  <2>2. CASE flushed
    <3>1. used = Larger(t + 1, n + 1)
      BY <1>3, <2>2
    <3> QED
      BY <2>1, <2>2, <3>1 DEF Larger
  <2>3. CASE ~flushed
    <3>1. used = Larger(t, n + 1)
      BY <1>3, <2>3
    <3> QED
      BY <2>1, <2>3, <3>1 DEF Larger
  <2> QED
    BY <2>2, <2>3
<1>13. /\ vset' \in VersionState /\ vset'.current = vset.current /\ vset'.log = vset.log
       /\ vset'.next = used /\ vset'.last = vset.last /\ vset'.man = vset.man
  <2>1. vset \in VersionState
    BY DEF DBInv, DBTypes
  <2>2. vset' \in VersionState
    BY <1>5, <1>12, <2>1, VersionFields
  <2> QED
    BY <1>5, <2>1, <2>2 DEF VersionState
<1>14. \A f \in UsedFiles : f[2] < t /\ f[2] \in Nat
  <2>1. UsedFiles \subseteq FileRef
    BY DEF DBInv, DBTypes, CompState, VersionState, OpeningState, UsedFiles
  <2>2. \A f \in UsedFiles : f[2] \in Nat
    BY <2>1 DEF FileRef, Num
  <2> QED
    BY <1>1, <1>5, <2>2 DEF DBInv, Numbered
<1>15. \A d \in Left : d.next <= t /\ d.next \in Nat /\ \A f \in d.files : f[2] < t
  <2> TAKE d \in Left
  <2>1. d.next \in Nat /\ \A f \in d.files : f[2] \in Nat
    BY <1>11 DEF State, FileRef, Num
  <2>2. d.next <= t /\ \A f \in d.files : f[2] < d.next
    BY <1>1, <1>5, <1>9 DEF DBInv, Numbered
  <2> QED
    BY <1>12, <2>1, <2>2
<1>16. /\ table' \in [DOMAIN table' -> SUBSET (1..MaxWrites)] /\ DOMAIN table' \subseteq Num
       /\ \A m \in DOMAIN table : m # t => m \in DOMAIN table' /\ table'[m] = table[m]
       /\ flushed => t \in DOMAIN table' /\ table'[t] = W
       /\ \A m \in DOMAIN table' : (flushed /\ m = t) \/ (m \in DOMAIN table /\ table'[m] = table[m])
       /\ \A files, w : (\A f \in files : f[2] # t) => (InTables(table', files, w) <=> InTables(table, files, w))
  <2>1. CASE ~flushed
    BY <1>5, <2>1 DEF DBInv, DBTypes
  <2>2. CASE flushed
    <3>1. PICK t2 : t2 = Put(table, t, W)
      OBVIOUS
    <3>2. t2 = table'
      BY <1>5, <1>7, <2>2, <3>1
    <3>3. t \in DOMAIN t2 /\ t2[t] = W
      BY <3>1 DEF Put
    <3>4. OnlyTable(t2, t)
      BY <1>5, <1>8, <3>1, OneTable DEF DBInv
    <3> QED
      BY <2>2, <3>2, <3>3, <3>4 DEF OnlyTable
  <2>3. flushed \in BOOLEAN
    BY <1>3
  <2> QED
    BY <2>1, <2>2, <2>3
<1>17. /\ opening.add \subseteq UsedFiles /\ vset.current \subseteq UsedFiles
       /\ \A w : InTables(table', vset.current, w) <=> InTables(table, vset.current, w)
       /\ \A w : InTables(table', opening.add, w) <=> InTables(table, opening.add, w)
       /\ \A d \in Left : \A w : InTables(table', d.files, w) <=> InTables(table, d.files, w)
  <2>1. opening.add \subseteq UsedFiles /\ vset.current \subseteq UsedFiles
    BY DEF UsedFiles
  <2>2. \A d \in Left : \A f \in d.files : f[2] # t
    <3>1. \A d \in Left : \A f \in d.files : f[2] \in Nat
      BY <1>11 DEF State, FileRef, Num
    <3> QED
      BY <1>12, <1>15, <3>1
  <2>3. \A f \in UsedFiles : f[2] # t
    BY <1>12, <1>14
  <2> QED
    BY <1>16, <2>1, <2>2, <2>3
<1>18. \A w : InTables(table', more, w) <=> InTables(table, opening.add, w) \/ w \in W
  <2>1. CASE flushed
    <3>1. more = opening.add \cup {<<0, t>>}
      BY <1>3, <2>1
    <3>2. \A w : InTables(table', more, w) <=> InTables(table', opening.add, w) \/ w \in W
      <4>1. \A f : f \in more <=> f \in opening.add \/ f = <<0, t>>
        BY <3>1
      <4>2. \A w : (\E f \in more : f[2] \in DOMAIN table' /\ w \in table'[f[2]])
                   <=> (\E f \in opening.add : f[2] \in DOMAIN table' /\ w \in table'[f[2]]) \/ w \in W
        <5>1. t \in DOMAIN table' /\ table'[t] = W
          BY <1>16, <2>1
        <5>2. PICK g : g = <<0, t>>
          OBVIOUS
        <5>3. g[2] = t /\ \A f : f \in more <=> f \in opening.add \/ f = g
          BY <4>1, <5>2
        <5> QED
          BY <5>1, <5>3
      <4> QED
        BY <4>2 DEF InTables
    <3> QED
      BY <1>17, <3>2
  <2>2. CASE ~flushed
    <3>1. more = opening.add /\ W = {}
      BY <1>3, <1>8, <2>2
    <3> QED
      BY <1>17, <3>1
  <2> QED
    BY <1>3, <2>1, <2>2
<1>19. /\ opening'.todo = opening.todo \ {n} /\ opening'.add = more /\ opening'.maxseq = maxseq
       /\ opening'.save /\ ~opening'.reuse /\ opening' \in OpeningState
  <2>1. opening \in OpeningState
    BY DEF DBInv, DBTypes
  <2>2. maxseq \in Nat
    BY <1>4, <1>8, <2>1 DEF Larger, OpeningState
  <2>3. more \subseteq FileRef
    BY <1>3, <1>5, <2>1 DEF OpeningState, FileRef
  <2>4. flushed \in BOOLEAN
    BY <1>3
  <2> QED
    BY <1>5, <1>9, <2>1, <2>2, <2>3, <2>4 DEF OpeningState
<1>20. UsedFiles' \subseteq UsedFiles \cup more /\ \A f \in UsedFiles' : f \in UsedFiles \/ (flushed /\ f[2] = t)
  <2>1. UsedFiles' \subseteq UsedFiles \cup more
    BY <1>5, <1>13, <1>19 DEF UsedFiles
  <2>2. \A f \in more : f \in UsedFiles \/ (flushed /\ f[2] = t)
    <3>1. CASE flushed
      <4>1. more = opening.add \cup {<<0, t>>}
        BY <1>3, <3>1
      <4> QED
        BY <1>17, <3>1, <4>1
    <3>2. CASE ~flushed
      <4>1. more = opening.add
        BY <1>3, <3>2
      <4> QED
        BY <1>17, <4>1
    <3> QED
      BY <3>1, <3>2
  <2> QED
    BY <2>1, <2>2
<1> USE DEF DBInv
<1>21. DBTypes'
  <2>1. DBTypes
    OBVIOUS
  <2> HIDE DEF DBInv
  <2> QED
    BY <1>5, <1>13, <1>16, <1>19, <2>1 DEF DBTypes
<1>22. Phases'
  BY <1>5, <1>9, <1>19 DEF Phases, Opens, Idle
<1>23. Numbered'
  <2>1. \A f \in UsedFiles' : f[2] < used
    BY <1>12, <1>14, <1>20
  <2>2. \A d \in Left : d.next <= used
    BY <1>12, <1>15
  <2>3. \A m \in DOMAIN log \ opening'.todo : m < used
    <3>1. \A m \in DOMAIN log : m \in Nat
      BY DEF DBTypes, Num
    <3>2. \A m \in DOMAIN log \ opening.todo : m < t
      BY <1>1, <1>5 DEF Numbered
    <3> QED
      BY <1>12, <1>19, <3>1, <3>2
  <2>4. 0 < used /\ vset.log < used /\ vset.man < used
    <3>1. vset.log < t /\ vset.man < t /\ vset.log \in Nat /\ vset.man \in Nat
      BY <1>1, <1>5 DEF Numbered, DBTypes, VersionState
    <3> QED
      BY <1>12, <3>1
  <2>5. flush' = 0 /\ comp'.out = 0 /\ logfile' = 0
    BY <1>5, <1>9 DEF NoComp
  <2>6. Numbered
    OBVIOUS
  <2> HIDE DEF DBInv
  <2> QED
    BY <1>5, <1>11, <1>13, <2>1, <2>2, <2>3, <2>4, <2>5, <2>6 DEF Numbered
<1>24. Tables'
  <2>1. \A f : f[2] \in DOMAIN table /\ table[f[2]] # {} /\ f[2] # t => f[2] \in DOMAIN table' /\ table'[f[2]] # {}
    BY <1>16
  <2>2. Filled(UsedFiles)'
    <3>1. PICK u : u = UsedFiles'
      OBVIOUS
    <3>2. \A f \in u : f[2] \in DOMAIN table' /\ table'[f[2]] # {}
      <4> TAKE f \in u
      <4>1. CASE f \in UsedFiles
        <5>1. f[2] # t
          BY <1>12, <1>14, <4>1
        <5> QED
          BY <2>1, <4>1, <5>1 DEF Tables, Filled
      <4>2. CASE flushed /\ f[2] = t
        BY <1>8, <1>16, <4>2
      <4> QED
        BY <1>20, <3>1, <4>1, <4>2
    <3> QED
      BY <3>1, <3>2 DEF Filled
  <2>3. \A d \in Left : Filled(d.files)'
    <3>1. \A d \in Left : \A f \in d.files : f[2] # t
      <4>1. \A d \in Left : \A f \in d.files : f[2] \in Nat
        BY <1>11 DEF State, FileRef, Num
      <4> QED
        BY <1>12, <1>15, <4>1
    <3> QED
      BY <1>9, <2>1, <3>1 DEF Tables, Filled
  <2>4. Fresh(flush)' /\ Fresh(comp.out)'
    BY <1>5, <1>9 DEF Fresh, NoComp
  <2> HIDE DEF DBInv
  <2> QED
    BY <1>5, <1>9, <1>11, <2>2, <2>3, <2>4 DEF Tables, NoComp, NoEdit
<1>25. Recorded'
  BY <1>5 DEF Recorded
<1>26. Durable'
  BY <1>5, <1>11, <1>17 DEF Durable
<1>27. Opened'
  <2>1. /\ CURRENT # 0 /\ vset.man \notin {0, CURRENT} /\ vset.current = D.files
        /\ opening.todo \subseteq LogsOf(D)
        /\ \A m \in DOMAIN log : m >= D.log /\ m \notin opening.todo =>
             \A w \in Good(log[m].recs) : InTables(table, opening.add, w) /\ seqOf[w] <= Larger(vset.last, opening.maxseq)
        /\ \A w \in 1..MaxWrites : InTables(table, opening.add, w) => InLogs(log, D.log, w)
        /\ \A w \in 1..MaxWrites : InTables(table, vset.current, w) => seqOf[w] <= vset.last
    BY <1>5, <1>10 DEF Opened
  <2>2. /\ Larger(vset.last, opening.maxseq) <= Larger(vset.last, maxseq)
        /\ ReplayedSeq(recs) <= Larger(vset.last, maxseq)
        /\ Larger(vset.last, opening.maxseq) \in Nat /\ Larger(vset.last, maxseq) \in Nat
    <3>1. PICK a, b, c : a = vset.last /\ b = opening.maxseq /\ c = ReplayedSeq(recs)
      OBVIOUS
    <3>2. a \in Nat /\ b \in Nat /\ c \in Nat /\ maxseq = Larger(b, c)
      BY <1>4, <1>8, <3>1 DEF DBTypes, VersionState, OpeningState
    <3>3. Larger(a, b) <= Larger(a, maxseq) /\ c <= Larger(a, maxseq)
          /\ Larger(a, b) \in Nat /\ Larger(a, maxseq) \in Nat
      BY <3>2 DEF Larger
    <3> QED
      BY <3>1, <3>3
  <2>3. \A w \in 1..Len(seqOf) : seqOf[w] \in Nat
    BY DEF DBTypes
  <2>4. \A m \in DOMAIN log : m >= D.log /\ m \notin opening'.todo =>
          \A w \in Good(log[m].recs) : InTables(table', more, w) /\ seqOf[w] <= Larger(vset.last, maxseq)
    <3> SUFFICES ASSUME NEW m \in DOMAIN log, m >= D.log, m \notin opening'.todo,
                        NEW w \in Good(log[m].recs)
                 PROVE  InTables(table', more, w) /\ seqOf[w] <= Larger(vset.last, maxseq)
      OBVIOUS
    <3>1. w \in 1..Len(seqOf)
      <4>1. InLogs(log, D.log, w)
        BY DEF InLogs
      <4>2. Counts(w)
        BY <1>5, <1>11, <4>1 DEF Counts
      <4> QED
        BY <1>9, <4>2, CountsBounded
    <3>2. CASE m = n
      BY <1>8, <1>18, <2>2, <2>3, <3>1, <3>2
    <3>3. CASE m # n
      <4>1. m \notin opening.todo
        BY <1>19, <3>3
      <4>2. InTables(table, opening.add, w) /\ seqOf[w] <= Larger(vset.last, opening.maxseq)
        BY <2>1, <4>1
      <4> QED
        BY <1>18, <2>2, <2>3, <3>1, <4>2
    <3> QED
      BY <3>2, <3>3
  <2>5. \A w \in 1..MaxWrites : InTables(table', more, w) => InLogs(log, D.log, w)
    <3>1. \A w \in W : InLogs(log, D.log, w)
      BY <1>8, <1>10 DEF InLogs
    <3> QED
      BY <1>18, <2>1, <3>1
  <2>6. \A w \in 1..MaxWrites : InTables(table', vset.current, w) => seqOf[w] <= vset.last
    BY <1>17, <2>1
  <2>7. opening'.todo \subseteq LogsOf(D)' /\ LogsOf(D)' = LogsOf(D)
    BY <1>5, <1>19, <2>1 DEF LogsOf
  <2> HIDE DEF DBInv
  <2> QED
    BY <1>5, <1>11, <1>13, <1>19, <2>1, <2>4, <2>5, <2>6, <2>7 DEF Opened, LogsOf
<1>28. Logged'
  BY <1>5, <1>8, <1>16 DEF Logged
<1>29. Sequenced'
  <2>1. \A v : Counts(v)' <=> Counts(v)
    BY <1>5, <1>11, <1>17 DEF Counts
  <2> QED
    BY <1>5, <1>11, <1>17, <2>1 DEF Sequenced
<1>30. Attempt'
  BY <1>5, <1>9 DEF Attempt, Idle
<1> QED
  BY <1>21, <1>22, <1>23, <1>24, <1>25, <1>26, <1>27, <1>28, <1>29, <1>30

\* The new manifest says what the old one and the new tables say together.
LEMMA OpenLogStep ==
    ASSUME DBInv, ~ReuseLogs, OpenLog
    PROVE  DBInv'
<1>1. PICK n, last, e, snap : /\ n = vset.next /\ last = Larger(vset.last, opening.maxseq)
                              /\ e = Edit(n, n + 1, last, opening.add, {})
                              /\ snap = Snapshot(vset.current)
  OBVIOUS
<1>2. /\ phase = "replay" /\ CURRENT # 0 /\ opening.save /\ ~opening.reuse /\ logfile = 0 /\ opening.todo = {}
      /\ mem = {} /\ imm = NoImm /\ pending = {} /\ flush = 0 /\ comp = NoComp
      /\ ~scheduled /\ ~bg_error /\ wr = Idle /\ (\A r \in Readers : held[r] = {})
  BY DEF OpenLog, DBInv, Phases, Opened, Opens
<1>3. /\ n \in Num /\ phase' = "saving"
      /\ log' = Put(log, n, [recs |-> << >>, synced |-> 0]) /\ logfile' = n
      /\ vset' = [vset EXCEPT !.next = n + 1, !.last = last]
      /\ manifest' = Put(manifest, vset.man, [edits |-> Append(<<snap>>, e), synced |-> 0])
      /\ edit' = e
      /\ UNCHANGED <<table, CURRENT, opening, mem, imm, pending, flush, comp, scheduled, bg_error,
                     wr, held, seqOf, must, safe, incidents>>
  BY <1>1, <1>2 DEF OpenLog, NewFileNumber
<1>4. /\ vset \in VersionState /\ vset.current \subseteq FileRef /\ vset.last \in Nat /\ vset.man \in Nat
      /\ opening \in OpeningState /\ opening.add \subseteq FileRef /\ opening.maxseq \in Nat
      /\ n \in Nat /\ last \in Nat /\ vset.last <= last /\ opening.maxseq <= last
      /\ last = Larger(vset.last, opening.maxseq)
  <2>1. /\ vset \in VersionState /\ vset.current \subseteq FileRef /\ vset.last \in Nat /\ vset.man \in Nat
        /\ opening \in OpeningState /\ opening.add \subseteq FileRef /\ opening.maxseq \in Nat
        /\ n \in Nat
    <3>1. vset \in VersionState /\ opening \in OpeningState
      BY DEF DBInv, DBTypes
    <3>2. n \in Nat
      BY <1>3 DEF Num
    <3> QED
      BY <3>1, <3>2 DEF VersionState, OpeningState
  <2>2. PICK a, b : a = vset.last /\ b = opening.maxseq
    OBVIOUS
  <2>3. a \in Nat /\ b \in Nat /\ last = Larger(a, b)
    BY <1>1, <2>1, <2>2
  <2>4. last \in Nat /\ a <= last /\ b <= last
    BY <2>3 DEF Larger
  <2> QED
    BY <2>1, <2>2, <2>3, <2>4
<1>5. vset.man \in Num /\ vset.man # CURRENT /\ vset.man < n /\ vset.log < n
  <2>1. vset.man \notin {0, CURRENT} /\ vset.man < n /\ vset.log < n
    BY <1>1, <1>2 DEF DBInv, Opened, Numbered
  <2> QED
    BY <1>3, <1>4, <2>1 DEF Num
<1>6. n \notin DOMAIN log /\ \A m \in DOMAIN log : m < n /\ m \in Nat
  BY <1>1, <1>2, <1>4 DEF DBInv, DBTypes, Numbered, Num
<1>7. WithNewLog(log', n)
  <2>1. PICK l2 : l2 = Put(log, n, [recs |-> << >>, synced |-> 0])
    OBVIOUS
  <2>2. WithNewLog(l2, n)
    BY <1>3, <1>6, <2>1, NewLog DEF DBInv
  <2> QED
    BY <1>3, <2>1, <2>2
<1>8. /\ vset' \in VersionState /\ vset'.current = vset.current /\ vset'.log = vset.log
      /\ vset'.next = n + 1 /\ vset'.last = last /\ vset'.man = vset.man
  <2>1. PICK v : v = [vset EXCEPT !.next = n + 1, !.last = last]
    OBVIOUS
  <2>2. n + 1 \in Nat
    BY <1>4
  <2>3. /\ v \in VersionState /\ v.current = vset.current /\ v.log = vset.log
        /\ v.next = n + 1 /\ v.last = last /\ v.man = vset.man
    BY <1>4, <2>1, <2>2 DEF VersionState
  <2> QED
    BY <1>3, <2>1, <2>3
<1>9. e \in EditRec /\ snap \in EditRec /\ e.kind = "edit" /\ snap.kind = "snapshot"
        /\ e.log = n /\ e.next = n + 1 /\ e.last = last /\ e.add = opening.add /\ e.del = {}
        /\ snap.add = vset.current /\ snap.del = {}
  <2>1. e = [kind |-> "edit", log |-> n, next |-> n + 1, last |-> last, add |-> opening.add, del |-> {}]
    BY <1>1 DEF Edit
  <2>2. snap = [kind |-> "snapshot", log |-> 0, next |-> 0, last |-> 0, add |-> vset.current, del |-> {}]
    BY <1>1 DEF Snapshot, Edit
  <2>3. n \in 0..MaxFile /\ n + 1 \in Nat /\ 0 \in 0..MaxFile
    BY <1>3, <1>4 DEF Num
  <2> QED
    BY <1>4, <2>1, <2>2, <2>3 DEF EditRec
<1>10. PICK s : s = Append(<<snap>>, e)
  OBVIOUS
<1>11. PICK N : N = [files |-> vset.current \cup opening.add, log |-> n, next |-> n + 1, last |-> last]
  OBVIOUS
<1>12. s \in Seq(EditRec) /\ Len(s) = 2 /\ Replay(s) = N
  <2>1. PICK z, one : z = << >> /\ one = Append(z, snap)
    OBVIOUS
  <2>2. z \in Seq(EditRec) /\ one \in Seq(EditRec) /\ one = <<snap>> /\ Len(one) = 1
    BY <1>9, <2>1
  <2>3. Replay(one) = Apply(Blank, snap)
    BY <1>9, <2>1, <2>2, ReplayAppend, ReplayEmpty
  <2>4. s \in Seq(EditRec) /\ Len(s) = 2
    BY <1>9, <1>10, <2>2
  <2>5. Replay(s) = Apply(Replay(one), e)
    BY <1>9, <1>10, <2>2, ReplayAppend
  <2>6. Apply(Blank, snap) = [files |-> vset.current, log |-> 0, next |-> 0, last |-> 0]
    BY <1>9 DEF Apply, Blank
  <2> QED
    BY <1>9, <1>11, <2>3, <2>4, <2>5, <2>6 DEF Apply
<1>13. /\ manifest'[vset.man] = [edits |-> s, synced |-> 0]
       /\ DOMAIN manifest' = DOMAIN manifest \cup {vset.man}
       /\ \A k \in DOMAIN manifest : k # vset.man => manifest'[k] = manifest[k]
       /\ manifest' = [k \in DOMAIN manifest' |-> manifest'[k]]
  BY <1>3, <1>10 DEF Put
<1>14. manifest' \in [DOMAIN manifest' -> ManifestFile] /\ DOMAIN manifest' \subseteq Num
  <2>1. [edits |-> s, synced |-> 0] \in ManifestFile
    BY <1>12 DEF ManifestFile
  <2>2. \A k \in DOMAIN manifest' : manifest'[k] \in ManifestFile
    BY <1>13, <2>1 DEF DBInv, DBTypes
  <2>3. DOMAIN manifest' \subseteq Num
    BY <1>5, <1>13 DEF DBInv, DBTypes
  <2> QED
    BY <1>13, <2>2, <2>3
<1>15. manifest'[CURRENT] = manifest[CURRENT] /\ CURRENT \in DOMAIN manifest'
  BY <1>2, <1>5, <1>13 DEF DBInv, DBTypes
<1>16. PICK D : D = DiskState
  OBVIOUS
<1>17. Left' = Left /\ DiskState' = D /\ D \in Left /\ Left \subseteq State
  BY <1>2, <1>3, <1>15, <1>16, CurrentLeft DEF Left, DiskState, DBInv
<1>18. UsedFiles' = UsedFiles
  BY <1>3, <1>8 DEF UsedFiles
<1> USE DEF DBInv
<1>19. DBTypes'
  <2>1. log' \in [DOMAIN log' -> LogFile] /\ DOMAIN log' \subseteq Num
    BY <1>3, <1>7 DEF DBTypes, WithNewLog
  <2>2. DBTypes /\ logfile' \in 0..MaxFile /\ CURRENT' \in DOMAIN manifest' \cup {0}
    BY <1>3, <1>15 DEF Num
  <2> HIDE DEF DBInv
  <2> QED
    BY <1>3, <1>8, <1>9, <1>14, <2>1, <2>2 DEF DBTypes
<1>20. Phases'
  BY <1>1, <1>2, <1>3, <1>8 DEF Phases, Opens, Idle
<1>21. Numbered'
  <2>1. \A d \in Left : d.next <= n + 1
    <3>1. \A d \in Left : d.next <= n /\ d.next \in Nat
      BY <1>1, <1>2, <1>17 DEF Numbered, State
    <3> QED
      BY <1>4, <3>1
  <2>2. \A f \in UsedFiles : f[2] < n + 1
    <3>1. UsedFiles \subseteq FileRef
      BY DEF DBTypes, CompState, VersionState, OpeningState, UsedFiles
    <3>2. \A f \in UsedFiles : f[2] < n /\ f[2] \in Nat
      BY <1>1, <1>2, <3>1 DEF Numbered, FileRef, Num
    <3> QED
      BY <1>4, <3>2
  <2>3. \A m \in DOMAIN log' : m < n + 1
    <3>1. \A m \in DOMAIN log' : m \in DOMAIN log \/ m = n
      BY <1>7 DEF WithNewLog
    <3> QED
      BY <1>4, <1>6, <3>1
  <2>4. n < n + 1 /\ vset.log < n + 1 /\ vset.man < n + 1 /\ 0 < n + 1
    BY <1>4, <1>5 DEF VersionState
  <2>5. flush' = 0 /\ comp'.out = 0
    BY <1>2, <1>3 DEF NoComp
  <2>6. Numbered
    OBVIOUS
  <2> HIDE DEF DBInv
  <2> QED
    BY <1>2, <1>3, <1>8, <1>17, <1>18, <2>1, <2>2, <2>3, <2>4, <2>5, <2>6 DEF Numbered
<1>22. Tables'
  <2>1. Filled(UsedFiles)' /\ \A d \in Left' : Filled(d.files)'
    BY <1>2, <1>3, <1>17, <1>18 DEF Tables, Filled
  <2>2. Fresh(flush)' /\ Fresh(comp.out)'
    BY <1>2, <1>3 DEF Fresh, NoComp
  <2>3. edit'.kind # "compact"
    BY <1>3, <1>9
  <2> HIDE DEF DBInv
  <2> QED
    BY <1>2, <1>3, <1>17, <2>1, <2>2, <2>3 DEF Tables, NoComp
<1>23. Recorded'
  BY <1>3 DEF Recorded
<1>24. Durable'
  BY <1>2, <1>3, <1>7, <1>17 DEF Durable, WithNewLog
<1>25. Opened'
  <2>1. /\ vset.current = D.files
        /\ \A m \in DOMAIN log : m >= D.log =>
             \A w \in Good(log[m].recs) : InTables(table, opening.add, w) /\ seqOf[w] <= last
        /\ \A w \in 1..MaxWrites : InTables(table, opening.add, w) => InLogs(log, D.log, w)
        /\ \A w \in 1..MaxWrites : InTables(table, vset.current, w) => seqOf[w] <= vset.last
    BY <1>2, <1>4, <1>16 DEF Opened
  <2>2. /\ DOMAIN log' = DOMAIN log \cup {n} /\ log'[n].recs = << >>
        /\ \A m \in DOMAIN log : log'[m] = log[m]
        /\ \A w : InLogs(log', D.log, w) <=> InLogs(log, D.log, w)
    BY <1>7 DEF WithNewLog
  <2>3. Larger(vset'.last, opening'.maxseq) = last
    BY <1>3, <1>4, <1>8 DEF Larger
  <2>4. \A m \in DOMAIN log' : m >= D.log => \A w \in Good(log'[m].recs) :
          InTables(table, opening.add, w) /\ seqOf[w] <= last
    <3>1. Good(<< >>) = {}
      BY DEF Good
    <3> QED
      BY <2>1, <2>2, <3>1
  <2>5. \A w \in 1..MaxWrites : InTables(table, vset.current, w) => seqOf[w] <= last
    <3> SUFFICES ASSUME NEW w \in 1..MaxWrites, InTables(table, vset.current, w) PROVE seqOf[w] <= last
      OBVIOUS
    <3>1. w \in 1..Len(seqOf) /\ seqOf[w] <= vset.last
      BY <2>1 DEF InTables, Logged
    <3>2. seqOf[w] \in Nat
      BY <3>1 DEF DBTypes
    <3> QED
      BY <1>4, <3>1, <3>2
  <2>6. \A m \in DOMAIN log' : m <= n
    BY <1>4, <1>6, <2>2
  <2>7. vset.man \notin {0, CURRENT}
    BY <1>5 DEF Num
  <2>8. Replay(manifest'[vset.man].edits) = N /\ Len(manifest'[vset.man].edits) = 2
          /\ vset.man \in DOMAIN manifest'
    <3>1. PICK file : file = manifest'[vset.man]
      OBVIOUS
    <3>2. file.edits = s
      BY <1>13, <3>1
    <3> QED
      BY <1>12, <1>13, <3>1, <3>2
  <2>9. {} \subseteq LogsOf(D)'
    OBVIOUS
  <2> HIDE DEF DBInv
  <2> QED
    BY <1>2, <1>3, <1>4, <1>8, <1>11, <1>17, <2>1, <2>2, <2>3, <2>4, <2>5, <2>6, <2>7, <2>8, <2>9 DEF Opened
<1>26. Logged'
  <2>1. \A m \in DOMAIN log' : m = n \/ (m \in DOMAIN log /\ log'[m] = log[m])
    BY <1>7 DEF WithNewLog
  <2>2. log'[n].recs = << >> /\ DOMAIN << >> = {}
    BY <1>7 DEF WithNewLog
  <2> QED
    BY <1>3, <2>1, <2>2 DEF Logged
<1>27. Sequenced'
  <2>1. \A v : Counts(v)' <=> Counts(v)
    BY <1>2, <1>3, <1>7, <1>17 DEF Counts, WithNewLog
  <2> QED
    BY <1>3, <1>17, <2>1 DEF Sequenced
<1>28. Attempt'
  BY <1>2, <1>3 DEF Attempt, Idle
<1> QED
  BY <1>19, <1>20, <1>21, <1>22, <1>23, <1>24, <1>25, <1>26, <1>27, <1>28

\* The manifest that is to replace the current one is synced, not yet named.
LEMMA SaveSyncedStep ==
    ASSUME DBInv, SaveSynced
    PROVE  DBInv'
<1>1. /\ phase = "saving" /\ manifest' = SyncedManifest
      /\ UNCHANGED <<log, table, CURRENT, opening, vset, mem, imm, logfile, pending, edit, flush, comp,
                     scheduled, bg_error, wr, held, seqOf, must, safe, incidents>>
  BY DEF SaveSynced, memory, bgvars
<1>2. /\ CURRENT # 0 /\ vset.man # CURRENT /\ vset.man \in DOMAIN manifest
      /\ ~opening.reuse /\ Len(manifest[vset.man].edits) = 2
  BY <1>1 DEF DBInv, Phases, Opened, Opens
<1>3. phase' = "naming"
  BY <1>2 DEF SaveSynced
<1>4. PICK k, m2 : k = vset.man /\ m2 = manifest'
  OBVIOUS
<1>5. /\ m2 \in [DOMAIN m2 -> ManifestFile] /\ DOMAIN m2 = DOMAIN manifest
      /\ \A n \in DOMAIN manifest : n # k => m2[n] = manifest[n]
      /\ m2[k].edits = manifest[k].edits /\ m2[k].synced = Len(manifest[k].edits)
  <2>1. k \in DOMAIN manifest /\ m2 = [manifest EXCEPT ![k].synced = Len(manifest[k].edits)]
    BY <1>1, <1>2, <1>4 DEF SyncedManifest
  <2> QED
    BY <2>1, ManifestSynced DEF DBInv
<1>6. CURRENT \in DOMAIN manifest /\ m2[CURRENT] = manifest[CURRENT]
  BY <1>2, <1>4, <1>5 DEF DBInv, DBTypes
<1>7. Left' = Left /\ DiskState' = DiskState
  BY <1>1, <1>4, <1>6 DEF Left, DiskState
<1>8. UsedFiles' = UsedFiles
  BY <1>1 DEF UsedFiles
<1> USE DEF DBInv
<1>9. DBTypes'
  BY <1>1, <1>3, <1>4, <1>5, <1>6 DEF DBTypes
<1>10. Phases'
  BY <1>1, <1>2, <1>3 DEF Phases, Opens, Idle
<1>11. Numbered'
  BY <1>1, <1>3, <1>7, <1>8 DEF Numbered
<1>12. Tables'
  BY <1>1, <1>3, <1>7, <1>8 DEF Tables, Filled, Fresh
<1>13. Recorded'
  BY <1>3 DEF Recorded
<1>14. Durable'
  BY <1>1, <1>3, <1>7 DEF Durable
<1>15. Opened'
  <2>1. /\ vset'.man = k /\ k \in DOMAIN manifest' /\ manifest'[k].edits = manifest[k].edits
        /\ manifest'[k].synced = 2
    BY <1>1, <1>2, <1>4, <1>5
  <2>2. Opened /\ vset.man = k
    BY <1>4
  <2> HIDE DEF DBInv
  <2> QED
    BY <1>1, <1>3, <1>7, <2>1, <2>2 DEF Opened, LogsOf
<1>16. Logged'
  BY <1>1 DEF Logged
<1>17. Sequenced'
  <2>1. \A v : Counts(v)' <=> Counts(v)
    BY <1>1, <1>3, <1>7 DEF Counts
  <2> QED
    BY <1>1, <1>3, <1>7, <2>1 DEF Sequenced
<1>18. Attempt'
  BY <1>1, <1>3 DEF Attempt, Phases, Idle
<1> QED
  BY <1>9, <1>10, <1>11, <1>12, <1>13, <1>14, <1>15, <1>16, <1>17, <1>18

\* CURRENT names the new manifest, which says what the old one said with the
\* logs that it listed turned into tables.
LEMMA SetCurrentFileStep ==
    ASSUME DBInv, SetCurrentFile
    PROVE  DBInv'
<1>1. /\ phase = "naming" /\ phase' = "installed" /\ CURRENT' = vset.man
      /\ UNCHANGED <<log, table, manifest, opening, vset, mem, imm, logfile, pending, edit, flush, comp,
                     scheduled, bg_error, wr, held, seqOf, must, safe, incidents>>
  BY DEF SetCurrentFile, memory, bgvars
<1>2. PICK D, N, k : /\ D = DiskState /\ k = vset.man
                     /\ N = [files |-> vset.current \cup opening.add, log |-> logfile, next |-> vset.next,
                             last |-> vset.last]
  OBVIOUS
<1>3. /\ CURRENT # 0 /\ k \notin {0, CURRENT} /\ vset.current = D.files /\ opening.todo = {}
      /\ \A n \in DOMAIN log : n >= D.log =>
           \A w \in Good(log[n].recs) : InTables(table, opening.add, w) /\ seqOf[w] <= Larger(vset.last, opening.maxseq)
      /\ \A w \in 1..MaxWrites : InTables(table, opening.add, w) => InLogs(log, D.log, w)
      /\ \A w \in 1..MaxWrites : InTables(table, vset.current, w) => seqOf[w] <= vset.last
      /\ logfile \in DOMAIN log /\ log[logfile].recs = << >>
      /\ \A n \in DOMAIN log : n <= logfile
      /\ opening.maxseq <= vset.last
      /\ k \in DOMAIN manifest
      /\ Replay(manifest[k].edits) = N
      /\ Len(manifest[k].edits) = 2 /\ manifest[k].synced = 2
  BY <1>1, <1>2 DEF DBInv, Phases, Opened
<1>4. Left' = {N} /\ DiskState' = N
  <2>1. PICK s : s = manifest[k].edits
    OBVIOUS
  <2>2. s \in Seq(EditRec) /\ Len(s) = 2 /\ Replay(s) = N
    BY <1>3, <2>1 DEF DBInv, DBTypes, ManifestFile
  <2>3. LeftOf(s, 2) = {N}
    BY <2>2, LeftSynced
  <2> QED
    BY <1>1, <1>2, <1>3, <2>1, <2>2, <2>3 DEF Left, DiskState
<1>5. D \in Left /\ D \in State
  BY <1>2, <1>3, CurrentLeft DEF DBInv
<1>6. Larger(vset.last, opening.maxseq) = vset.last /\ vset.last \in Nat
  BY <1>3 DEF DBInv, DBTypes, VersionState, OpeningState, Larger
<1>7. \A w : InTables(table, N.files, w) <=> InTables(table, D.files, w) \/ InTables(table, opening.add, w)
  BY <1>2, <1>3 DEF InTables
<1>8. \A w : InTables(table, opening.add, w) => w \in 1..MaxWrites /\ InLogs(log, D.log, w)
  BY <1>3 DEF InTables, DBInv, DBTypes
<1>9. \A w : InLogs(log, D.log, w) => InTables(table, opening.add, w) /\ seqOf[w] <= vset.last
  BY <1>3, <1>6 DEF InLogs
<1>10. \A w : ~InLogs(log, N.log, w)
  <2>1. \A n \in DOMAIN log : n >= logfile => n = logfile
    BY <1>3 DEF DBInv, DBTypes, Num
  <2>2. Good(<< >>) = {}
    BY DEF Good
  <2> QED
    BY <1>2, <1>3, <2>1, <2>2 DEF InLogs
<1>11. UsedFiles' = UsedFiles /\ N.files \subseteq UsedFiles
  BY <1>1, <1>2 DEF UsedFiles
<1> USE DEF DBInv
<1>12. DBTypes'
  BY <1>1, <1>2, <1>3 DEF DBTypes
<1>13. Phases'
  BY <1>1, <1>2, <1>3 DEF Phases, Opens, Idle
<1>14. Numbered'
  <2>1. /\ \A f \in UsedFiles : f[2] < vset.next
        /\ logfile < vset.next /\ k < vset.next
    BY <1>1, <1>2 DEF Numbered
  <2>2. vset.next \in Nat /\ vset.next <= vset.next /\ vset.next # 0
    <3>1. vset.next \in Nat /\ logfile \in Nat
      BY DEF DBTypes, VersionState
    <3> QED
      BY <2>1, <3>1
  <2>3. /\ N.next = vset.next /\ N.log = logfile
    BY <1>2
  <2>4. Numbered
    OBVIOUS
  <2> HIDE DEF DBInv
  <2> QED
    BY <1>1, <1>2, <1>3, <1>4, <1>11, <2>1, <2>2, <2>3, <2>4 DEF Numbered
<1>15. Tables'
  <2>1. Filled(UsedFiles)'
    BY <1>1, <1>11 DEF Tables, Filled
  <2>2. Filled(N.files)'
    BY <1>1, <1>11 DEF Tables, Filled
  <2>3. Fresh(flush)' /\ Fresh(comp.out)'
    BY <1>1 DEF Fresh, Phases, NoComp
  <2>4. Tables
    OBVIOUS
  <2>5. edit'.kind # "compact"
    BY <1>1 DEF Phases, Edit
  <2>6. flush' = 0
    BY <1>1 DEF Phases
  <2> HIDE DEF DBInv
  <2> QED
    BY <1>1, <1>4, <2>1, <2>2, <2>3, <2>4, <2>5, <2>6 DEF Tables
<1>16. Recorded'
  BY <1>1 DEF Recorded
<1>17. Durable'
  <2>1. \A w \in must : InTables(table, D.files, w) \/ InLogs(log, D.log, w)
    BY <1>3, <1>5, StillThere
  <2>2. \A w \in must : InTables(table, N.files, w)
    BY <1>7, <1>9, <2>1
  <2>3. safe \subseteq must /\ must \subseteq 1..Len(seqOf)
    BY DEF Durable
  <2> HIDE DEF DBInv
  <2> QED
    BY <1>1, <1>4, <2>2, <2>3 DEF Durable
<1>18. Opened'
  <2>1. Opened
    OBVIOUS
  <2> HIDE DEF DBInv
  <2> QED
    BY <1>1, <1>2, <1>4, <2>1 DEF Opened
<1>19. Logged'
  BY <1>1 DEF Logged
<1>20. Sequenced'
  <2>1. \A w : Counts(w)' => Counts(w)
    <3>1. \A w : Counts(w)' => InTables(table, N.files, w)
      BY <1>1, <1>4, <1>10 DEF Counts
    <3> QED
      BY <1>1, <1>5, <1>7, <1>8, <3>1 DEF Counts
  <2>2. \A w \in 1..Len(seqOf) : InTables(table, N.files, w) => seqOf[w] <= N.last
    <3>1. N.last = vset.last /\ vset.current = D.files
      BY <1>2, <1>3
    <3>2. \A w \in 1..Len(seqOf) : w \in 1..MaxWrites
      BY DEF DBTypes
    <3> QED
      BY <1>3, <1>7, <1>8, <1>9, <3>1, <3>2
  <2>3. Sequenced
    OBVIOUS
  <2> HIDE DEF DBInv
  <2> QED
    BY <1>1, <1>3, <1>4, <2>1, <2>2, <2>3 DEF Sequenced
<1>21. Attempt'
  BY <1>1 DEF Attempt, Phases, Idle
<1> QED
  BY <1>12, <1>13, <1>14, <1>15, <1>16, <1>17, <1>18, <1>19, <1>20, <1>21

\* Open ends: logs and manifests before the new ones are needed no more.
LEMMA OpenDoneStep ==
    ASSUME DBInv, OpenDone
    PROVE  DBInv'
<1>1. PICK files, k : files = vset.current \cup opening.add /\ k = CURRENT
  OBVIOUS
<1>2. /\ phase = "installed" /\ CURRENT # 0 /\ opening.save /\ opening.todo = {} /\ vset.man = CURRENT
      /\ mem = {} /\ imm = NoImm /\ pending = {} /\ flush = 0 /\ comp = NoComp
      /\ ~scheduled /\ ~bg_error /\ wr = Idle /\ (\A r \in Readers : held[r] = {})
      /\ edit.log = logfile /\ Left = {DiskState}
      /\ logfile \in DOMAIN log /\ log[logfile].recs = << >>
      /\ \A n \in DOMAIN log : n <= logfile
  BY DEF OpenDone, DBInv, Phases, Opened, Opens, Edit
<1>3. PICK N : N = [files |-> files, log |-> logfile, next |-> vset.next, last |-> vset.last]
  OBVIOUS
<1>4. DiskState = N /\ Left = {N}
  BY <1>1, <1>2, <1>3 DEF DBInv, Opened, DiskState
<1>5. PICK all : all = UNION {table[n] : n \in Numbers(files)}
  OBVIOUS
<1>6. /\ phase' = "up" /\ opening' = NoOpening /\ edit' = NoEdit
      /\ vset' = [vset EXCEPT !.current = files, !.log = logfile]
      /\ scheduled' \in BOOLEAN
      /\ safe' = safe \cup all /\ must' = must \cup all
      /\ UNCHANGED <<CURRENT, mem, imm, logfile, pending, flush, comp, bg_error, wr, held, seqOf, incidents>>
  BY <1>1, <1>2, <1>5 DEF OpenDone, memory, Schedules, NeedsCompaction
<1>7. Swept(files, {}, {}, logfile, manifest)
  <2>1. DeleteObsoleteFiles(files, {}, {}, logfile, manifest)
    BY <1>1, <1>2 DEF OpenDone
  <2>2. PICK m2, none : m2 = manifest /\ none = {}
    OBVIOUS
  <2>3. m2 \in [DOMAIN m2 -> ManifestFile] /\ DBTypes
    BY <2>2 DEF DBInv, DBTypes
  <2>4. DeleteObsoleteFiles(files, none, none, logfile, m2)
    BY <2>1, <2>2
  <2>5. Swept(files, none, none, logfile, m2)
    BY <2>3, <2>4, ObsoleteDeleted
  <2> QED
    BY <2>2, <2>5
<1>8. KeptTables(files) /\ KeptLogs(logfile)
  <2>1. PICK none, m2 : none = {} /\ m2 = manifest
    OBVIOUS
  <2>2. Swept(files, none, none, logfile, m2)
    BY <1>7, <2>1
  <2>3. KeptTables(files \cup none \cup files \cup UNION {held[r] : r \in Readers}) /\ KeptLogs(logfile)
    BY <2>2, SweptKeeps
  <2>4. files \cup none \cup files \cup UNION {held[r] : r \in Readers} = files
    BY <1>2, <2>1
  <2> QED
    BY <2>3, <2>4
<1>9. CURRENT \in DOMAIN manifest' /\ manifest'[CURRENT] = manifest[CURRENT]
  <2>1. CURRENT \in DOMAIN manifest /\ CURRENT >= vset.man
    BY <1>2 DEF DBInv, DBTypes, Num
  <2> QED
    BY <1>7, <2>1 DEF Swept
<1>10. Left' = {N} /\ DiskState' = N
  BY <1>4, <1>6, <1>9 DEF Left, DiskState
<1>11. /\ vset' \in VersionState /\ vset'.current = files /\ vset'.log = logfile
       /\ vset'.next = vset.next /\ vset'.last = vset.last /\ vset'.man = vset.man
  <2>1. vset \in VersionState /\ opening.add \subseteq FileRef /\ logfile \in 0..MaxFile
    BY DEF DBInv, DBTypes, OpeningState
  <2>2. files \subseteq FileRef
    BY <1>1, <2>1 DEF VersionState
  <2> QED
    BY <1>6, <2>1, <2>2 DEF VersionState
<1>12. UsedFiles' = files /\ files \subseteq UsedFiles
  <2>1. UNION {held[r] : r \in Readers} = {} /\ held' = held
    BY <1>2, <1>6
  <2>2. comp'.base = {} /\ opening'.add = {}
    BY <1>2, <1>6 DEF NoComp, NoOpening
  <2> QED
    BY <1>1, <1>11, <2>1, <2>2 DEF UsedFiles
<1>13. Filled(files) /\ Filled(files)'
  <2>1. Filled(files)
    BY <1>12 DEF DBInv, Tables, Filled
  <2> QED
    BY <1>8, <2>1 DEF Filled, KeptTables
<1>14. /\ \A w \in all : InTables(table', files, w)
       /\ \A w : InTables(table', files, w) => w \in 1..Len(seqOf) /\ InTables(table, files, w)
       /\ all \subseteq 1..Len(seqOf)
  <2>1. \A w \in all : InTables(table, files, w)
    <3> TAKE w \in all
    <3>1. PICK n \in Numbers(files) : w \in table[n]
      BY <1>5
    <3>2. PICK f \in files : n = f[2]
      BY DEF Numbers
    <3> QED
      BY <1>13, <3>1, <3>2 DEF Filled, InTables
  <2>2. \A w : InTables(table, files, w) => w \in 1..Len(seqOf)
    BY DEF InTables, DBInv, Logged
  <2> QED
    BY <1>8, <2>1, <2>2 DEF KeptTables
<1>15. \A w : ~InLogs(log, logfile, w)
  <2>1. \A n \in DOMAIN log : n >= logfile => n = logfile
    BY <1>2 DEF DBInv, DBTypes, Num
  <2>2. Good(<< >>) = {}
    BY DEF Good
  <2> QED
    BY <1>2, <2>1, <2>2 DEF InLogs
<1>16. logfile \in Nat
  BY DEF DBInv, DBTypes
<1>17. \A w : ~InLogs(log', logfile, w)
  BY <1>8, <1>15 DEF KeptLogs
<1> USE DEF DBInv
<1>18. DBTypes'
  <2>1. /\ log' \in [DOMAIN log' -> LogFile] /\ DOMAIN log' \subseteq Num
        /\ table' \in [DOMAIN table' -> SUBSET (1..MaxWrites)] /\ DOMAIN table' \subseteq Num
        /\ manifest' \in [DOMAIN manifest' -> ManifestFile] /\ DOMAIN manifest' \subseteq Num
    BY <1>7 DEF Swept, DBTypes
  <2>2. opening' \in OpeningState
    BY <1>6 DEF NoOpening, OpeningState
  <2>3. DBTypes
    OBVIOUS
  <2> HIDE DEF DBInv
  <2> QED
    BY <1>6, <1>9, <1>11, <2>1, <2>2, <2>3 DEF DBTypes
<1>19. Phases'
  BY <1>2, <1>6 DEF Phases, Opens, Idle
<1>20. Numbered'
  <2>1. /\ \A f \in files : f[2] < vset.next
        /\ logfile < vset.next /\ vset.man < vset.next
        /\ \A n \in DOMAIN log : n < vset.next
    BY <1>2, <1>12 DEF Numbered
  <2>2. /\ \A f \in N.files : f[2] < N.next
        /\ N = Blank \/ (N.log < N.next /\ CURRENT < N.next)
        /\ N.next <= vset.next
        /\ CURRENT > 1 => N.next # 0
    BY <1>2, <1>4 DEF Numbered
  <2>3. \A n \in DOMAIN log' : n < vset.next
    BY <1>8, <2>1 DEF KeptLogs
  <2>4. flush' < vset.next /\ comp'.out < vset.next
    BY <1>2, <1>6 DEF Numbered
  <2> HIDE DEF DBInv
  <2> QED
    BY <1>2, <1>6, <1>10, <1>11, <1>12, <2>1, <2>2, <2>3, <2>4 DEF Numbered
<1>21. Tables'
  <2>1. Filled(UsedFiles)'
    <3>1. PICK u : u = UsedFiles'
      OBVIOUS
    <3> QED
      BY <1>12, <1>13, <3>1 DEF Filled
  <2>2. \A d \in Left' : Filled(d.files)'
    BY <1>3, <1>10, <1>13 DEF Filled
  <2>3. Fresh(flush)' /\ Fresh(comp.out)'
    BY <1>2, <1>6 DEF Fresh, NoComp
  <2> HIDE DEF DBInv
  <2> QED
    BY <1>2, <1>6, <2>1, <2>2, <2>3 DEF Tables, NoComp, NoEdit
<1>22. Recorded'
  BY <1>2, <1>3, <1>6, <1>10, <1>11 DEF Recorded
<1>23. Durable'
  <2>1. \A w \in must : InTables(table', files, w)
    <3>1. \A w \in must : InTables(table, N.files, w) \/ InLogs(log, N.log, w)
      BY <1>2, <1>4, StillThere
    <3>2. N.files = files /\ N.log = logfile
      BY <1>3
    <3> QED
      BY <1>8, <1>15, <3>1, <3>2 DEF KeptTables
  <2>2. safe' \subseteq must' /\ must' \subseteq 1..Len(seqOf)
    BY <1>6, <1>14 DEF Durable
  <2>3. logfile \in DOMAIN log' /\ \A n \in DOMAIN log' : n <= logfile
    BY <1>2, <1>8, <1>16 DEF KeptLogs
  <2>4. ~imm'.on /\ imm'.ids = {} /\ mem' = {}
    BY <1>2, <1>6 DEF NoImm
  <2>5. \A w \in must' : InTables(table', files, w)
    BY <1>6, <1>14, <2>1
  <2> HIDE DEF DBInv
  <2> QED
    BY <1>3, <1>6, <1>10, <1>11, <1>16, <2>2, <2>3, <2>4, <2>5 DEF Durable
<1>24. Opened'
  BY <1>6 DEF Opened
<1>25. Logged'
  BY <1>2, <1>6, <1>8 DEF Logged, KeptLogs, KeptTables, NoImm
<1>26. Sequenced'
  <2>1. N.files = files /\ N.last = vset.last
    BY <1>3
  <2>2. \A w : Counts(w)' => InTables(table', files, w)
    BY <1>2, <1>6, <1>10, <1>11, <1>17, <2>1 DEF Counts, NoImm
  <2>3. \A w : Counts(w)' => InTables(table, files, w) /\ Counts(w)
    <3>1. \A w : InTables(table, files, w) => Counts(w)
      BY <1>2, <1>4, <2>1 DEF Counts
    <3> QED
      BY <1>14, <2>2, <3>1
  <2>4. Sequenced
    OBVIOUS
  <2> HIDE DEF DBInv
  <2> QED
    BY <1>2, <1>4, <1>6, <1>10, <1>11, <1>14, <2>1, <2>3, <2>4 DEF Sequenced
<1>27. Attempt'
  BY <1>2, <1>6 DEF Attempt, Idle
<1> QED
  BY <1>18, <1>19, <1>20, <1>21, <1>22, <1>23, <1>24, <1>25, <1>26, <1>27

-----------------------------------------------------------------------------
(* The next file number of a manifest never falls.                         *)

\* A synced manifest has one next number.
LEMMA RisesWhenSynced ==
    ASSUME NEW edits \in Seq(EditRec)
    PROVE  Rises(edits, Len(edits))
<1>1. PICK n : n = Len(edits)
  OBVIOUS
<1>2. n \in Nat /\ n..n = {n} /\ SubSeq(edits, 1, n) = edits
  BY <1>1, WholePrefix
<1>3. Replay(edits).next \in Nat /\ Replay(edits).next <= Replay(edits).next
  BY ReplayType DEF State
<1>4. \A i \in n..n : i = n
  BY <1>2
<1>5. \A i \in n..n : Replay(SubSeq(edits, 1, i)) = Replay(edits)
  BY <1>2, <1>4
<1> QED
  BY <1>1, <1>3, <1>5 DEF Rises

\* An edit carries a next file number that no earlier state exceeds.
LEMMA RisesAppend ==
    ASSUME NEW edits \in Seq(EditRec), NEW synced \in 0..Len(edits), Rises(edits, synced),
           NEW e \in EditRec, NEW more, more = Append(edits, e),
           \A d \in LeftOf(edits, synced) : d.next <= Replay(more).next
    PROVE  Rises(more, synced)
<1>1. PICK n : n = Len(edits)
  OBVIOUS
<1>2. n \in Nat /\ synced \in 0..n /\ more \in Seq(EditRec) /\ Len(more) = n + 1
  BY <1>1
<1>3. \A k \in synced..n : SubSeq(more, 1, k) = SubSeq(edits, 1, k)
  <2> TAKE k \in synced..n
  <2>1. k \in 0..Len(edits)
    BY <1>1, <1>2
  <2> QED
    BY <2>1, PrefixOfAppend
<1>4. SubSeq(more, 1, n + 1) = more
  BY <1>2, WholePrefix
<1>5. Replay(more).next \in Nat
  BY <1>2, ReplayType DEF State
<1>6. ASSUME NEW i \in synced..(n + 1), NEW j \in synced..(n + 1), i <= j
      PROVE  Replay(SubSeq(more, 1, i)).next <= Replay(SubSeq(more, 1, j)).next
  <2>1. CASE j = n + 1 /\ i = n + 1
    <3>1. SubSeq(more, 1, i) = more /\ SubSeq(more, 1, j) = more
      BY <1>4, <2>1
    <3>2. Replay(more).next <= Replay(more).next
      BY <1>5
    <3> QED
      BY <3>1, <3>2
  <2>2. CASE j = n + 1 /\ i # n + 1
    <3>1. i \in synced..n
      BY <1>2, <2>2
    <3>2. Replay(SubSeq(edits, 1, i)) \in LeftOf(edits, synced)
      BY <1>1, <3>1 DEF LeftOf
    <3> QED
      BY <1>3, <1>4, <2>2, <3>1, <3>2
  <2>3. CASE j # n + 1
    <3>1. i \in synced..n /\ j \in synced..n
      BY <1>2, <1>6, <2>3
    <3> QED
      BY <1>1, <1>3, <1>6, <3>1 DEF Rises
  <2> QED
    BY <2>1, <2>2, <2>3
<1> QED
  BY <1>2, <1>6 DEF Rises

\* So it does when the last record is lost or cut short.
LEMMA RisesBefore ==
    ASSUME NEW edits \in Seq(EditRec), NEW synced \in 0..Len(edits), synced < Len(edits),
           Rises(edits, synced),
           NEW before, before = SubSeq(edits, 1, Len(edits) - 1),
           NEW left \in {edits, before, Append(before, TornEdit)}
    PROVE  Rises(left, synced)
<1>1. PICK n : n = Len(edits) - 1
  OBVIOUS
<1>2. n \in Nat /\ synced \in 0..n /\ Len(edits) = n + 1 /\ n \in 0..Len(edits) /\ n \in synced..n
  BY <1>1
<1>3. before \in Seq(EditRec) /\ Len(before) = n
  BY <1>1, <1>2, PrefixType
<1>4. \A k \in synced..n : SubSeq(before, 1, k) = SubSeq(edits, 1, k)
  <2> TAKE k \in synced..n
  <2>1. k \in 0..n
    BY <1>2
  <2> QED
    BY <1>1, <1>2, <2>1, PrefixOfPrefix
<1>5. synced..n \subseteq synced..Len(edits)
  BY <1>2
<1>6. Rises(before, synced)
  BY <1>3, <1>4, <1>5 DEF Rises
<1>7. CASE left = Append(before, TornEdit)
  <2>1. TornEdit \in EditRec /\ Replay(left) = Replay(before)
    BY <1>3, <1>7, TornIsSkipped
  <2>2. SubSeq(before, 1, n) = before
    BY <1>3, WholePrefix
  <2>3. \A d \in LeftOf(before, synced) : d.next <= Replay(before).next
    <3> TAKE d \in LeftOf(before, synced)
    <3>1. PICK k \in synced..n : d = Replay(SubSeq(before, 1, k))
      BY <1>3 DEF LeftOf
    <3>2. k <= n
      BY <1>2
    <3>3. Replay(SubSeq(before, 1, k)).next <= Replay(SubSeq(before, 1, n)).next
      BY <1>2, <1>3, <1>6, <3>2 DEF Rises
    <3> QED
      BY <2>2, <3>1, <3>3
  <2>4. synced \in 0..Len(before)
    BY <1>2, <1>3
  <2>5. \A d \in LeftOf(before, synced) : d.next <= Replay(left).next
    BY <2>1, <2>3
  <2> QED
    BY <1>3, <1>6, <1>7, <2>1, <2>4, <2>5, RisesAppend
<1> QED
  BY <1>6, <1>7

\* The edits of the background thread carry the next file number of the process.
LEMMA EditMade ==
    ASSUME DBTypes, NEW l \in 0..MaxFile, NEW add \in SUBSET FileRef, NEW del \in SUBSET FileRef,
           NEW e, e = Edit(l, vset.next, vset.last, add, del)
    PROVE  e \in EditRec /\ e.kind = "edit" /\ e.next = vset.next
<1>1. vset.next \in Nat /\ vset.last \in Nat
  BY DEF DBTypes, VersionState
<1>2. e = [kind |-> "edit", log |-> l, next |-> vset.next, last |-> vset.last,
           add |-> add, del |-> del]
  BY DEF Edit
<1> QED
  BY <1>1, <1>2 DEF EditRec

\* So an edit that is appended carries the largest number so far.
LEMMA RisingAppended ==
    ASSUME DBInv, Rising, phase = "up", edit = NoEdit, CURRENT' = CURRENT,
           NEW e \in EditRec, e.kind = "edit", e.next = vset.next, AppendEdit(e)
    PROVE  Rising'
<1>1. CURRENT # 0 /\ vset.man = CURRENT /\ DBTypes
  BY DEF DBInv, Recorded
<1>2. PICK s, y, s2 : /\ s = manifest[CURRENT].edits /\ y = manifest[CURRENT].synced
                      /\ s2 = Append(s, e)
  OBVIOUS
<1>3. /\ s \in Seq(EditRec) /\ y \in 0..Len(s) /\ CURRENT \in DOMAIN manifest
      /\ manifest[CURRENT] \in [edits : Seq(EditRec), synced : Nat] /\ Left = LeftOf(s, y)
  BY <1>1, <1>2, CurrentLeft DEF DBTypes, Left
<1>4. manifest'[CURRENT] = [edits |-> s2, synced |-> y]
  BY <1>1, <1>2, <1>3 DEF AppendEdit
<1>5. Replay(s2).next = vset.next
  <2>1. Replay(s2) = Apply(Replay(s), e)
    BY <1>2, <1>3, ReplayAppend
  <2> QED
    BY <2>1 DEF Apply
<1>6. \A d \in LeftOf(s, y) : d.next <= Replay(s2).next
  BY <1>1, <1>3, <1>5 DEF DBInv, Numbered
<1>7. Rises(s, y)
  BY <1>1, <1>2 DEF Rising
<1>8. Rises(s2, y)
  BY <1>2, <1>3, <1>6, <1>7, RisesAppend
<1> QED
  BY <1>4, <1>8 DEF Rising

\* Most steps leave the manifest that CURRENT names alone.
LEMMA RisingUnchanged ==
    ASSUME DBTypes, Rising, CURRENT' = CURRENT,
           CURRENT # 0 => CURRENT \in DOMAIN manifest' /\ manifest'[CURRENT] = manifest[CURRENT]
    PROVE  Rising'
BY DEF Rising

\* Others leave it synced.
LEMMA RisingSynced ==
    ASSUME NEW s \in Seq(EditRec), manifest'[CURRENT'].edits = s, manifest'[CURRENT'].synced = Len(s)
    PROVE  Rising'
BY RisesWhenSynced DEF Rising

\* Of the steps of Open, NewDB and SetCurrentFile change what CURRENT names.
LEMMA RisingOpening ==
    ASSUME DBInv, Rising, ~ReuseLogs, Opening
    PROVE  Rising'
<1>1. CASE NewDB
  <2>1. PICK e, s : e = Edit(0, 2, 0, {}, {}) /\ s = Append(<< >>, e)
    OBVIOUS
  <2>2. PICK z : z = << >>
    OBVIOUS
  <2>3. CURRENT' = 1 /\ manifest'[1] = [edits |-> s, synced |-> 0]
    <3>1. s = <<e>>
      BY <2>1
    <3> QED
      BY <1>1, <2>1, <3>1 DEF NewDB, Put
  <2>4. e \in EditRec /\ e.kind = "edit" /\ e.next = 2
    BY <2>1 DEF Edit, EditRec
  <2>5. z \in Seq(EditRec) /\ 0 \in 0..Len(z) /\ s = Append(z, e) /\ Len(z) = 0
    BY <2>1, <2>2
  <2>6. Rises(z, 0)
    BY <2>5, RisesWhenSynced
  <2>7. Replay(s).next = 2 /\ Replay(z) = Blank
    <3>1. Replay(z) = Blank
      BY <2>2, ReplayEmpty
    <3>2. Replay(s) = Apply(Replay(z), e)
      BY <2>4, <2>5, ReplayAppend
    <3>3. Apply(Replay(z), e).next = 2
      BY <2>4 DEF Apply
    <3> QED
      BY <3>1, <3>2, <3>3
  <2>8. \A d \in LeftOf(z, 0) : d.next <= Replay(s).next
    <3>1. LeftOf(z, 0) = {Blank}
      BY <2>5, <2>7, LeftSynced
    <3> QED
      BY <2>7, <3>1 DEF Blank
  <2>9. PICK y : y = 0
    OBVIOUS
  <2>10. Rises(s, y)
    BY <2>4, <2>5, <2>6, <2>8, <2>9, RisesAppend
  <2> QED
    BY <2>3, <2>9, <2>10 DEF Rising
<1>2. CASE OpenRead \/ ReplayLog
  BY <1>2, RisingUnchanged DEF OpenRead, ReplayLog, DBInv, DBTypes, disk
<1>3. CASE OpenLog
  <2>1. CURRENT' = CURRENT /\ CURRENT # 0 /\ vset.man # CURRENT /\ CURRENT \in DOMAIN manifest
    BY <1>3 DEF OpenLog, DBInv, Opened, DBTypes
  <2>2. CURRENT \in DOMAIN manifest' /\ manifest'[CURRENT] = manifest[CURRENT]
    BY <1>3, <2>1 DEF OpenLog, Put
  <2> QED
    BY <2>1, <2>2, RisingUnchanged DEF DBInv
<1>4. CASE SaveSynced
  <2>1. CURRENT' = CURRENT /\ CURRENT # 0 /\ vset.man # CURRENT /\ CURRENT \in DOMAIN manifest
    BY <1>4 DEF SaveSynced, DBInv, Opened, DBTypes
  <2>2. CURRENT \in DOMAIN manifest' /\ manifest'[CURRENT] = manifest[CURRENT]
    BY <1>4, <2>1 DEF SaveSynced, SyncedManifest
  <2> QED
    BY <2>1, <2>2, RisingUnchanged DEF DBInv
<1>5. CASE SetCurrentFile
  <2>1. PICK k, s : k = vset.man /\ s = manifest[k].edits
    OBVIOUS
  <2>2. CURRENT' = k /\ manifest' = manifest
    BY <1>5, <2>1 DEF SetCurrentFile
  <2>3. k \in DOMAIN manifest /\ manifest[k].synced = 2 /\ Len(s) = 2
    BY <1>5, <2>1 DEF SetCurrentFile, DBInv, Opened
  <2>4. s \in Seq(EditRec)
    BY <2>1, <2>3 DEF DBInv, DBTypes, ManifestFile
  <2> QED
    BY <2>1, <2>2, <2>3, <2>4, RisingSynced
<1>6. CASE OpenDone
  <2>1. CURRENT' = CURRENT /\ CURRENT # 0 /\ vset.man = CURRENT /\ CURRENT \in DOMAIN manifest
    BY <1>6 DEF OpenDone, DBInv, Opened, DBTypes, Phases
  <2>2. manifest' = manifest \/ manifest' = Only(manifest, ManifestsKept)
    BY <1>6 DEF OpenDone, DeleteObsoleteFiles
  <2>3. CURRENT >= vset.man
    BY <2>1 DEF DBInv, DBTypes, Num
  <2>4. CURRENT \in DOMAIN manifest' /\ manifest'[CURRENT] = manifest[CURRENT]
    BY <2>1, <2>2, <2>3 DEF Only, ManifestsKept
  <2> QED
    BY <2>1, <2>4, RisingUnchanged DEF DBInv
<1> QED
  BY <1>1, <1>2, <1>3, <1>4, <1>5, <1>6 DEF Opening

\* The background thread appends edits, syncs them, or fails to.
LEMMA RisingBackground ==
    ASSUME DBInv, Rising, Background
    PROVE  Rising'
<1>0. DBTypes
  BY DEF DBInv
<1>1. CASE FlushStart \/ FlushFails \/ CompactStart \/ CompactOpen \/ CompactFails \/ BackgroundIdle
  BY <1>0, <1>1, RisingUnchanged
     DEF FlushStart, FlushFails, CompactStart, CompactOpen, CompactFails, BackgroundIdle, disk, DBTypes
<1>2. CASE FlushBuilt
  <2>1. PICK level \in {0, 1} :
          LET add == IF imm.ids = {} THEN {} ELSE {<<level, flush>>}
              e == Edit(logfile, vset.next, vset.last, add, {})
          IN  AppendEdit(e)
    BY <1>2 DEF FlushBuilt
  <2>2. PICK add : add = IF imm.ids = {} THEN {} ELSE {<<level, flush>>}
    OBVIOUS
  <2>3. PICK e, none : e = Edit(logfile, vset.next, vset.last, add, none) /\ none = {}
    OBVIOUS
  <2>4. AppendEdit(e)
    BY <2>1, <2>2, <2>3
  <2>5. phase = "up" /\ edit = NoEdit /\ flush \in Num /\ CURRENT' = CURRENT
    BY <1>2 DEF FlushBuilt, DBInv, Phases, Tables, DBTypes, Num
  <2>6. add \in SUBSET FileRef /\ logfile \in 0..MaxFile /\ none \in SUBSET FileRef
    BY <2>2, <2>3, <2>5 DEF DBInv, DBTypes, FileRef
  <2>7. e \in EditRec /\ e.kind = "edit" /\ e.next = vset.next
    BY <1>0, <2>3, <2>6, EditMade
  <2> QED
    BY <2>4, <2>5, <2>7, RisingAppended
<1>3. CASE TrivialMove
  <2>1. PICK g, add, del, e, l :
          /\ g \in vset.current /\ add = {<<1, g[2]>>} /\ del = {g} /\ l = vset.log
          /\ e = Edit(l, vset.next, vset.last, add, del)
          /\ AppendEdit(e)
    BY <1>3 DEF TrivialMove
  <2>2. phase = "up" /\ edit = NoEdit /\ CURRENT' = CURRENT
    BY <1>3 DEF TrivialMove, MayCompact, Quiet, DBInv, Phases
  <2>3. add \in SUBSET FileRef /\ del \in SUBSET FileRef /\ l \in 0..MaxFile
    BY <2>1 DEF DBInv, DBTypes, VersionState, FileRef
  <2>4. e \in EditRec /\ e.kind = "edit" /\ e.next = vset.next
    BY <1>0, <2>1, <2>3, EditMade
  <2> QED
    BY <2>1, <2>2, <2>4, RisingAppended
<1>4. CASE CompactBuilt
  <2>1. PICK add, del, e, l :
          /\ add = {<<1, comp.out>>} /\ del = comp.inputs /\ l = vset.log
          /\ e = Edit(l, vset.next, vset.last, add, del)
          /\ AppendEdit(e)
    BY <1>4 DEF CompactBuilt, CompactedInputs
  <2>2. phase = "up" /\ edit = NoEdit /\ CURRENT' = CURRENT /\ comp.out \in Num
    BY <1>4 DEF CompactBuilt, Quiet, DBInv, Phases, NoComp, DBTypes, CompState, Num
  <2>3. add \in SUBSET FileRef /\ del \in SUBSET FileRef /\ l \in 0..MaxFile
    BY <2>1, <2>2 DEF DBInv, DBTypes, VersionState, FileRef, CompState
  <2>4. e \in EditRec /\ e.kind = "edit" /\ e.next = vset.next
    BY <1>0, <2>1, <2>3, EditMade
  <2> QED
    BY <2>1, <2>2, <2>4, RisingAppended
<1>5. CASE Install
  <2>1. CURRENT # 0 /\ vset.man = CURRENT /\ CURRENT \in DOMAIN manifest /\ CURRENT' = CURRENT
    BY <1>5, Installing DEF Install
  <2>2. PICK s : s = manifest[CURRENT].edits
    OBVIOUS
  <2>3. s \in Seq(EditRec) /\ manifest[CURRENT] \in [edits : Seq(EditRec), synced : Nat]
    BY <1>0, <2>1, <2>2, CurrentLeft
  <2>4. /\ CURRENT \in DOMAIN SyncedManifest
        /\ SyncedManifest[CURRENT].edits = s /\ SyncedManifest[CURRENT].synced = Len(s)
    BY <2>1, <2>2, <2>3 DEF SyncedManifest
  <2>5. CURRENT \in ManifestsKept
    BY <1>0, <2>1 DEF ManifestsKept, DBTypes, Num
  <2>6. manifest' = SyncedManifest \/ manifest' = Only(SyncedManifest, ManifestsKept)
    BY <1>5 DEF Install, DeleteObsoleteFiles
  <2>7. manifest'[CURRENT] = SyncedManifest[CURRENT]
    BY <2>4, <2>5, <2>6 DEF Only
  <2> QED
    BY <2>1, <2>3, <2>4, <2>7, RisingSynced
<1>6. CASE InstallFails
  <2>1. CURRENT # 0 /\ vset.man = CURRENT /\ CURRENT \in DOMAIN manifest /\ CURRENT' = CURRENT
          /\ edit # NoEdit /\ phase = "up"
    BY <1>6, Installing DEF InstallFails
  <2>2. PICK s, y, before : /\ s = manifest[CURRENT].edits /\ y = manifest[CURRENT].synced
                            /\ before = SubSeq(s, 1, Len(s) - 1)
    OBVIOUS
  <2>3. PICK left \in {s, before, Append(before, TornEdit)} :
          manifest' = [manifest EXCEPT ![CURRENT].edits = left]
    BY <1>6, <2>1, <2>2 DEF InstallFails
  <2>4. s \in Seq(EditRec) /\ y \in 0..Len(s) /\ y < Len(s)
          /\ manifest[CURRENT] \in [edits : Seq(EditRec), synced : Nat]
    BY <1>0, <2>1, <2>2, CurrentLeft DEF DBInv, Recorded
  <2>5. Rises(s, y)
    BY <2>1, <2>2 DEF Rising
  <2>6. Rises(left, y)
    BY <2>2, <2>3, <2>4, <2>5, RisesBefore
  <2>7. manifest'[CURRENT].edits = left /\ manifest'[CURRENT].synced = y
    BY <2>1, <2>2, <2>3, <2>4
  <2> QED
    BY <2>1, <2>6, <2>7 DEF Rising
<1> QED
  BY <1>1, <1>2, <1>3, <1>4, <1>5, <1>6 DEF Background

\* What a crash leaves of a manifest is all there is of it.
LEMMA RisingMachineCrash ==
    ASSUME DBInv, Rising, MachineCrash
    PROVE  Rising'
<1>1. CASE CURRENT = 0
  BY <1>1 DEF MachineCrash, Rising
<1>2. CASE CURRENT # 0
  <2>1. PICK m : /\ \A n \in DOMAIN manifest : m[n] \in Remains(manifest[n].edits, manifest[n].synced, TornEdit)
                 /\ manifest' = [n \in DOMAIN manifest |-> [edits |-> m[n], synced |-> Len(m[n])]]
    BY DEF MachineCrash
  <2>2. CURRENT \in DOMAIN manifest /\ CURRENT' = CURRENT
    BY <1>2 DEF MachineCrash, DBInv, DBTypes
  <2>3. PICK e, y, left : e = manifest[CURRENT].edits /\ y = manifest[CURRENT].synced /\ left = m[CURRENT]
    OBVIOUS
  <2>4. e \in Seq(EditRec) /\ y \in 0..Len(e)
    BY <1>2, <2>3, CurrentLeft DEF DBInv
  <2>5. left \in Remains(e, y, TornEdit)
    BY <2>1, <2>2, <2>3
  <2>6. left \in Seq(EditRec)
    BY <2>4, <2>5, LeftByCrash
  <2>7. manifest'[CURRENT'].edits = left /\ manifest'[CURRENT'].synced = Len(left)
    BY <2>1, <2>2, <2>3
  <2> QED
    BY <2>6, <2>7, RisingSynced
<1> QED
  BY <1>1, <1>2

\* The next file number of a manifest never falls, whatever is appended to it,
\* lost of it or renamed to it.
LEMMA RisingStep ==
    ASSUME DBInv, Rising, ~ReuseLogs, Next
    PROVE  Rising'
<1>0. DBTypes
  BY DEF DBInv
<1>1. CASE Opening
  BY <1>1, RisingOpening
<1>2. CASE OpenFails
  <2>1. CURRENT' = CURRENT /\ CURRENT # 0 /\ vset.man # CURRENT /\ CURRENT \in DOMAIN manifest
    BY <1>2 DEF OpenFails, DBInv, Opened, DBTypes
  <2>2. manifest' = manifest \/ manifest' = Only(manifest, DOMAIN manifest \ {vset.man})
    BY <1>2 DEF OpenFails
  <2>3. CURRENT \in DOMAIN manifest' /\ manifest'[CURRENT] = manifest[CURRENT]
    BY <2>1, <2>2 DEF Only
  <2> QED
    BY <1>0, <2>1, <2>3, RisingUnchanged
<1>3. CASE Writing
  BY <1>0, <1>3, RisingUnchanged
     DEF Writing, WriteStart, WriteRefused, RoomFound, SwitchMemTable, SwitchFails, LogAppend,
         LogAppendFails, Commit, SyncFails, disk, DBTypes
<1>4. CASE Background
  BY <1>4, RisingBackground
<1>5. CASE \E r \in Readers : ReadStart(r) \/ ReadEnd(r)
  BY <1>0, <1>5, RisingUnchanged DEF ReadStart, ReadEnd, disk, DBTypes
<1>6. CASE ProcessCrash
  BY <1>0, <1>6, RisingUnchanged DEF ProcessCrash, DBTypes
<1>7. CASE MachineCrash
  BY <1>7, RisingMachineCrash
<1> QED
  BY <1>1, <1>2, <1>3, <1>4, <1>5, <1>6, <1>7 DEF Next

-----------------------------------------------------------------------------
(* The theorems.                                                           *)

\* No file, no process.
LEMMA DBStart ==
    ASSUME Init
    PROVE  DBInv /\ Rising
<1> USE DEF Init
<1>1. DBTypes
  <2>1. opening \in OpeningState
    BY DEF OpeningState, NoOpening
  <2>2. vset \in VersionState
    BY DEF VersionState, NoVset
  <2>3. comp \in CompState /\ edit \in EditRec \cup {NoEdit} /\ wr \in Writer
    BY DEF CompState, NoComp, NoEdit, Writer, Idle
  <2>4. /\ DOMAIN log = {} /\ DOMAIN table = {} /\ DOMAIN manifest = {}
        /\ log \in [DOMAIN log -> LogFile] /\ manifest \in [DOMAIN manifest -> ManifestFile]
        /\ table \in [DOMAIN table -> SUBSET (1..MaxWrites)]
    OBVIOUS
  <2>5. seqOf \in Seq(Nat) /\ Len(seqOf) <= MaxWrites
    OBVIOUS
  <2>6. /\ DOMAIN log \subseteq Num /\ DOMAIN table \subseteq Num /\ DOMAIN manifest \subseteq Num
    BY <2>4
  <2>7. imm \in [on : BOOLEAN, ids : SUBSET (1..MaxWrites)] /\ held \in [Readers -> SUBSET FileRef]
    BY DEF NoImm
  <2>8. /\ CURRENT \in DOMAIN manifest \cup {0} /\ mem \subseteq 1..MaxWrites /\ logfile \in 0..MaxFile
        /\ flush \in 0..MaxFile /\ incidents \in Nat /\ pending \subseteq Num
    OBVIOUS
  <2>9. /\ phase \in {"down", "replay", "saving", "naming", "installed", "up"}
        /\ scheduled \in BOOLEAN /\ bg_error \in BOOLEAN
    OBVIOUS
  <2> HIDE DEF Init
  <2> QED
    BY <2>1, <2>2, <2>3, <2>4, <2>5, <2>6, <2>7, <2>8, <2>9 DEF DBTypes
<1>2. Phases
  BY DEF Phases, Opens, Idle
<1>3. Numbered /\ Rising
  BY DEF Numbered, Rising
<1>4. Tables
  BY DEF Tables, Filled, Fresh, UsedFiles, NoVset, NoComp, NoOpening, NoEdit
<1>5. Recorded /\ Durable /\ Opened /\ Logged /\ Attempt
  BY DEF Recorded, Durable, Opened, Logged, Attempt, Idle, NoImm
<1>6. Sequenced
  BY DEF Sequenced
<1> QED
  BY <1>1, <1>2, <1>3, <1>4, <1>5, <1>6 DEF DBInv

\* Nothing changes.
LEMMA DBStutter ==
    ASSUME DBInv, Rising, UNCHANGED vars
    PROVE  DBInv' /\ Rising'
<1> USE DEF vars, disk, memory, bgvars, UsedFiles, Left, DiskState
<1>1. DBTypes'
  BY DEF DBInv, DBTypes
<1>2. Phases'
  BY DEF DBInv, Phases, Opens
<1>3. Numbered' /\ Rising'
  BY DEF DBInv, Numbered, Rising
<1>4. Tables'
  BY DEF DBInv, Tables, Fresh, Filled
<1>5. Recorded'
  BY DEF DBInv, Recorded, Filled
<1>6. Durable'
  BY DEF DBInv, Durable
<1>7. Opened'
  BY DEF DBInv, Opened, LogsOf
<1>8. Logged'
  BY DEF DBInv, Logged
<1>9. Sequenced'
  BY DEF DBInv, Sequenced, Counts, Write
<1>10. Attempt'
  BY DEF DBInv, Attempt, Write
<1> QED
  BY <1>1, <1>2, <1>3, <1>4, <1>5, <1>6, <1>7, <1>8, <1>9, <1>10 DEF DBInv

\* Every step of the database keeps the invariant.
LEMMA DBStep ==
    ASSUME DBInv, Rising, ~ReuseLogs, Next
    PROVE  DBInv'
<1>1. CASE Opening
  BY <1>1, NewDBStep, OpenReadStep, ReplayLogStep, OpenLogStep, SaveSyncedStep, SetCurrentFileStep,
     OpenDoneStep DEF Opening
<1>2. CASE Writing
  BY <1>2, WriteStartStep, WriteRefusedStep, RoomFoundStep, SwitchMemTableStep, SwitchFailsStep,
     LogAppendStep, LogAppendFailsStep, CommitStep, SyncFailsStep DEF Writing
<1>3. CASE Background
  BY <1>3, FlushStartStep, FlushBuiltStep, FlushFailsStep, CompactStartStep, TrivialMoveStep,
     CompactOpenStep, CompactBuiltStep, CompactFailsStep, InstallStep, InstallFailsStep,
     BackgroundIdleStep DEF Background
<1>4. CASE \E r \in Readers : ReadStart(r) \/ ReadEnd(r)
  BY <1>4, ReadStartStep, ReadEndStep
<1> QED
  BY <1>1, <1>2, <1>3, <1>4, OpenFailsStep, ProcessCrashStep, MachineCrashStep DEF Next

\* The inductive invariant: whatever the steps of Open, of the writers, of the
\* background thread and of the readers, and wherever crashes and failures
\* fall between them, files, versions, logs and memory fit together as DBInv says.
THEOREM DBInvariance ==
    ASSUME ~ReuseLogs
    PROVE  Spec => [](DBInv /\ Rising)
<1>1. Init => DBInv /\ Rising
  BY DBStart
<1>2. (DBInv /\ Rising) /\ [Next]_vars => (DBInv /\ Rising)'
  BY DBStep, RisingStep, DBStutter
<1> QED
  BY <1>1, <1>2, PTL DEF Spec

\* Every variable keeps its type, through every crash and failure of any of
\* the steps of the code.
THEOREM DBTypeCorrect ==
    ASSUME ~ReuseLogs
    PROVE  Spec => []TypeOK
<1>1. DBInv => TypeOK
  <2> SUFFICES ASSUME DBInv PROVE TypeOK
    OBVIOUS
  <2>1. DBTypes /\ safe \subseteq must /\ must \subseteq 1..Len(seqOf)
    BY DEF DBInv, Durable
  <2>2. \A n \in DOMAIN log : log[n].recs \in Seq(0..MaxWrites) /\ log[n].synced \in 0..Len(log[n].recs)
    BY <2>1 DEF DBTypes, LogFile, Recs
  <2>3. \A n \in DOMAIN manifest : manifest[n].synced \in 0..Len(manifest[n].edits)
    BY <2>1 DEF DBTypes, ManifestFile
  <2>4. vset.current \subseteq (0..1) \X Num /\ imm.ids \subseteq 1..MaxWrites /\ comp.out \in 0..MaxFile
    BY <2>1 DEF DBTypes, VersionState, CompState, FileRef
  <2> QED
    BY <2>1, <2>2, <2>3, <2>4 DEF TypeOK, DBTypes
<1> QED
  BY <1>1, DBInvariance, PTL

\* What a process finds is what the tables and the readable parts of the logs hold.
LEMMA FoundInFiles ==
    ASSUME DBTypes, NEW d \in State, NEW w
    PROVE  /\ w \in Found(d, Whole) <=> InTables(table, d.files, w) \/ InLogs(log, d.log, w)
           /\ w \in Found(d, Synced) <=> InTables(table, d.files, w) \/ InSynced(log, d.log, w)
<1>1. ASSUME NEW n \in DOMAIN log
      PROVE  /\ ToSet(Readable(SubSeq(log[n].recs, 1, Whole[n]))) = Good(log[n].recs)
             /\ ToSet(Readable(SubSeq(log[n].recs, 1, Synced[n]))) = GoodSynced(log[n])
  <2>1. PICK r, y, q : r = log[n].recs /\ y = log[n].synced /\ q = SubSeq(r, 1, y)
    OBVIOUS
  <2>2. r \in Recs /\ y \in 0..Len(r) /\ r \in Seq(0..MaxWrites)
    BY <2>1 DEF DBTypes, LogFile, Recs
  <2>3. q \in Recs
    BY <2>1, <2>2, SMTT(30) DEF Recs
  <2>4. SubSeq(r, 1, Len(r)) = r
    BY <2>2, WholePrefix
  <2>5. Whole[n] = Len(r) /\ Synced[n] = y
    BY <2>1 DEF Whole, Synced
  <2>6. ToSet(Readable(r)) = Good(r) /\ ToSet(Readable(q)) = Good(q)
    BY <2>2, <2>3, ReadableIsGood
  <2> QED
    BY <2>1, <2>4, <2>5, <2>6 DEF GoodSynced
<1>2. w \in UNION {table[n] : n \in Numbers(d.files) \cap DOMAIN table} <=> InTables(table, d.files, w)
  BY DEF InTables, Numbers
<1>3. /\ w \in UNION {ToSet(Readable(SubSeq(log[n].recs, 1, Whole[n]))) : n \in LogsOf(d)}
           <=> InLogs(log, d.log, w)
      /\ w \in UNION {ToSet(Readable(SubSeq(log[n].recs, 1, Synced[n]))) : n \in LogsOf(d)}
           <=> InSynced(log, d.log, w)
  BY <1>1 DEF InLogs, InSynced, LogsOf
<1> QED
  BY <1>2, <1>3 DEF Found

\* What is read is in one of the memtables or in a table of the version.
LEMMA ContentHolds ==
    ASSUME NEW w
    PROVE  w \in Content <=> w \in mem \/ w \in imm.ids \/ InTables(table, vset.current, w)
BY DEF Content, InTables, Numbers

\* What was promised is read, and would be found.
LEMMA NothingLostNow ==
    ASSUME DBInv
    PROVE  NothingLost
<1>1. phase = "up" => must \subseteq Content
  BY ContentHolds DEF DBInv, Durable
<1>2. CURRENT = 0 => must \subseteq DiskIds
  BY DEF DBInv, Phases
<1>3. CURRENT # 0 => must \subseteq DiskIds
  <2> SUFFICES ASSUME CURRENT # 0, NEW w \in must PROVE w \in DiskIds
    OBVIOUS
  <2>1. PICK d : d = DiskState
    OBVIOUS
  <2>2. d \in Left /\ d \in State /\ DBTypes
    BY <2>1, CurrentLeft DEF DBInv
  <2>3. InTables(table, d.files, w) \/ InLogs(log, d.log, w)
    BY <2>2, StillThere
  <2>4. w \in Found(d, Whole)
    BY <2>2, <2>3, FoundInFiles
  <2> QED
    BY <2>1, <2>4 DEF DiskIds
<1> QED
  BY <1>1, <1>2, <1>3 DEF NothingLost

\* No write that was answered is lost by the death of a process, whatever
\* flush, compaction, crash or failed write came before it: it is in what is
\* read, and in what the next process will find in logs and tables.
THEOREM NothingEverLost ==
    ASSUME ~ReuseLogs
    PROVE  Spec => []NothingLost
BY NothingLostNow, DBInvariance, PTL

\* What was made durable is in every state that a crash may leave.
LEMMA RecoverableNow ==
    ASSUME DBInv
    PROVE  AlwaysRecoverable
<1> SUFFICES ASSUME CURRENT # 0, NEW edits \in Outcomes
             PROVE  /\ \A n \in Numbers(Replay(edits).files) : n \in DOMAIN table /\ table[n] # {}
                    /\ safe \subseteq Found(Replay(edits), Synced)
  BY DEF AlwaysRecoverable
<1>1. PICK d : d = Replay(edits)
  OBVIOUS
<1>2. d \in Left
  BY <1>1 DEF Outcomes, Left, LeftOf
<1>3. d \in State /\ DBTypes
  BY <1>2, CurrentLeft DEF DBInv
<1>4. \A n \in Numbers(d.files) : n \in DOMAIN table /\ table[n] # {}
  BY <1>2 DEF DBInv, Tables, Filled, Numbers
<1>5. \A w \in safe : InTables(table, d.files, w) \/ InSynced(log, d.log, w)
  BY <1>2, StillThere
<1>6. safe \subseteq Found(d, Synced)
  BY <1>3, <1>5, FoundInFiles
<1> QED
  BY <1>1, <1>4, <1>6

\* DeleteObsoleteFiles never runs ahead of the manifest: whichever of its
\* unsynced edits a crash of the machine takes, the tables that are left are
\* there, and hold with the synced parts of the logs every synced write.
THEOREM CrashAlwaysSurvived ==
    ASSUME ~ReuseLogs
    PROVE  Spec => []AlwaysRecoverable
BY RecoverableNow, DBInvariance, PTL

\* A database that was opened once can be opened again, unless a manifest
\* torn by a failed write was written on by the compaction behind it.
THEOREM AlwaysOpensAgain ==
    ASSUME ~ReuseLogs
    PROVE  Spec => []OpensAgain
<1>1. DBInv => OpensAgain
  <2> SUFFICES ASSUME DBInv, CURRENT > 1
               PROVE  DiskState.next # 0 /\ \A n \in Numbers(DiskState.files) : n \in DOMAIN table
    BY DEF OpensAgain
  <2>1. CURRENT # 0
    OBVIOUS
  <2>2. DiskState \in Left
    BY <2>1, CurrentLeft DEF DBInv
  <2> QED
    BY <2>1, <2>2 DEF DBInv, Numbered, Tables, Filled, Numbers
<1> QED
  BY <1>1, DBInvariance, PTL

\* No file of a version that the next read, a reader or a compaction uses is
\* deleted, for every number of readers and every interleaving.
THEOREM UsedFilesAlwaysThere ==
    ASSUME ~ReuseLogs
    PROVE  Spec => []UsedFilesExist
<1>1. DBInv => UsedFilesExist
  BY DEF DBInv, Tables, Filled, UsedFiles, UsedFilesExist, Numbers
<1> QED
  BY <1>1, DBInvariance, PTL

\* Of two writes that are read the later has the larger sequence number,
\* also when crashes and failures have used numbers up or lost them.
THEOREM LaterAlwaysWins ==
    ASSUME ~ReuseLogs
    PROVE  Spec => []LaterWins
<1>1. DBInv => LaterWins
  <2> SUFFICES ASSUME DBInv, phase = "up", NEW a \in Content, NEW b \in Content, a < b
               PROVE  seqOf[a] < seqOf[b]
    BY DEF LaterWins
  <2>1. CURRENT # 0 /\ DBTypes /\ Logged /\ Sequenced /\ Durable
    BY DEF DBInv, Recorded
  <2>2. DiskState \in Left
    BY <2>1, CurrentLeft
  <2>3. ASSUME NEW w \in Content
        PROVE  w \in 1..Len(seqOf) /\ Counts(w)
    <3>1. w \in mem \/ w \in imm.ids \/ InTables(table, vset.current, w)
      BY ContentHolds
    <3>2. InTables(table, vset.current, w) => w \in 1..MaxWrites
      BY <2>1 DEF InTables, DBTypes
    <3>3. InTables(table, vset.current, w) => InTables(table, DiskState.files, w)
      BY <2>1, <2>2, <3>2 DEF Durable
    <3>4. Counts(w)
      BY <2>2, <3>1, <3>3 DEF Counts
    <3> QED
      BY <2>1, <3>4, CountsBounded
  <2> QED
    BY <2>1, <2>3 DEF Sequenced
<1> QED
  BY <1>1, DBInvariance, PTL

-----------------------------------------------------------------------------
(* The database is the store it promises to be.                            *)

\* What reads of the running process or the next process see.
Kept == IF phase = "up" THEN Content ELSE DiskIds

\* What is known of it in every state.
Seen ==
  /\ CURRENT = 0 => DiskIds = {}
  /\ CURRENT # 0 =>
       \A w : w \in DiskIds <=> InTables(table, DiskState.files, w) \/ InLogs(log, DiskState.log, w)
  /\ must \subseteq Kept /\ Kept \subseteq 1..Len(seqOf)
  /\ safe \subseteq must

\* It follows from the invariant.
LEMMA SeenNow ==
    ASSUME DBInv
    PROVE  Seen
<1>1. CURRENT # 0 =>
        \A w : w \in DiskIds <=> InTables(table, DiskState.files, w) \/ InLogs(log, DiskState.log, w)
  <2> SUFFICES ASSUME CURRENT # 0, NEW w
               PROVE  w \in DiskIds <=> InTables(table, DiskState.files, w) \/ InLogs(log, DiskState.log, w)
    OBVIOUS
  <2>1. PICK d : d = DiskState
    OBVIOUS
  <2>2. d \in State /\ DBTypes
    BY <2>1, CurrentLeft DEF DBInv
  <2>3. w \in Found(d, Whole) <=> InTables(table, d.files, w) \/ InLogs(log, d.log, w)
    BY <2>2, FoundInFiles
  <2> QED
    BY <2>1, <2>3 DEF DiskIds
<1>2. CURRENT = 0 => DiskIds = {}
  BY DEF DiskIds
<1>3. must \subseteq Kept
  BY NothingLostNow DEF NothingLost, Kept
<1>4. Kept \subseteq 1..Len(seqOf)
  <2> SUFFICES ASSUME NEW w \in Kept PROVE w \in 1..Len(seqOf)
    OBVIOUS
  <2>1. CASE phase = "up"
    <3>1. CURRENT # 0 /\ DBTypes /\ Logged
      BY <2>1 DEF DBInv, Recorded
    <3>2. w \in mem \/ w \in imm.ids \/ InTables(table, vset.current, w)
      BY <2>1, ContentHolds DEF Kept
    <3>3. InTables(table, vset.current, w) => w \in 1..Len(seqOf)
      BY <3>1 DEF InTables, Logged
    <3> QED
      BY <3>1, <3>2, <3>3 DEF Logged
  <2>2. CASE phase # "up"
    <3>1. CURRENT # 0 /\ w \in DiskIds /\ DBTypes /\ Logged
      BY <1>2, <2>2 DEF Kept, DBInv
    <3>2. InTables(table, DiskState.files, w) \/ InLogs(log, DiskState.log, w)
      BY <1>1, <3>1
    <3>3. DiskState \in Left
      BY <3>1, CurrentLeft
    <3>4. Counts(w)
      BY <2>2, <3>2, <3>3 DEF Counts
    <3> QED
      BY <3>1, <3>4, CountsBounded
  <2> QED
    BY <2>1, <2>2
<1> QED
  BY <1>1, <1>2, <1>3, <1>4 DEF Seen, DBInv, Durable

\* A step that leaves what is read alone is one of Store!Persist.
LEMMA Persisted ==
    ASSUME Seen', (phase = "up") <=> (phase' = "up"), seqOf' = seqOf, Kept' = Kept,
           must \subseteq must', safe \subseteq safe'
    PROVE  Store!Persist
BY DEF Store!Persist, Store!Promise, Seen, Kept

\* Nothing but the name of a step of Open changes.
LEMMA DiskSame ==
    ASSUME Seen, Seen', phase # "up", phase' # "up", CURRENT' = CURRENT, CURRENT # 0,
           DiskState' = DiskState,
           \A w : InTables(table', DiskState.files, w) <=> InTables(table, DiskState.files, w),
           \A w : InLogs(log', DiskState.log, w) <=> InLogs(log, DiskState.log, w)
    PROVE  Kept' = Kept
<1>1. \A w : w \in DiskIds <=> InTables(table, DiskState.files, w) \/ InLogs(log, DiskState.log, w)
  BY DEF Seen
<1>2. \A w : w \in DiskIds' <=> InTables(table', DiskState.files, w) \/ InLogs(log', DiskState.log, w)
  BY DEF Seen
<1>3. \A w : w \in DiskIds' <=> w \in DiskIds
  BY <1>1, <1>2
<1>4. DiskIds' = DiskIds
  BY <1>3
<1> QED
  BY <1>4 DEF Kept

\* No write enters or leaves what is read.
LEMMA ContentSame ==
    ASSUME phase = "up", phase' = "up",
           \A w : (w \in mem' \/ w \in imm'.ids \/ InTables(table', vset'.current, w))
                    <=> (w \in mem \/ w \in imm.ids \/ InTables(table, vset.current, w))
    PROVE  Kept' = Kept
<1>1. \A w : w \in Content <=> w \in mem \/ w \in imm.ids \/ InTables(table, vset.current, w)
  BY ContentHolds
<1>2. \A w : w \in Content' <=> w \in mem' \/ w \in imm'.ids \/ InTables(table', vset'.current, w)
  BY DEF Content, InTables, Numbers
<1>3. \A w : w \in Content' <=> w \in Content
  BY <1>1, <1>2
<1>4. Content' = Content
  BY <1>3
<1> QED
  BY <1>4 DEF Kept

\* What an open finds is what the files held.
LEMMA StoreOpening ==
    ASSUME DBInv, Seen, Seen', ~ReuseLogs, Opening
    PROVE  Store!Open \/ Store!Persist
<1>1. CASE NewDB
  <2>1. /\ phase # "up" /\ phase' = phase /\ CURRENT = 0 /\ CURRENT' # 0
        /\ UNCHANGED <<seqOf, must, safe, log, table>>
        /\ DOMAIN table = {} /\ DOMAIN log = {}
    BY <1>1 DEF NewDB, DBInv, Phases
  <2>2. DiskIds = {} /\ DiskIds' = {}
    BY <2>1 DEF Seen, InTables, InLogs
  <2> QED
    BY <2>1, <2>2, Persisted DEF Kept
<1>2. CASE OpenRead
  <2>1. /\ phase # "up" /\ phase' # "up" /\ CURRENT # 0 /\ CURRENT' = CURRENT /\ DiskState' = DiskState
        /\ UNCHANGED <<seqOf, must, safe, log, table>>
    BY <1>2 DEF OpenRead, disk, DiskState
  <2> QED
    BY <2>1, DiskSame, Persisted
<1>3. CASE ReplayLog
  <2>1. PICK n, t, recs : n = Min(opening.todo) /\ t = vset.next /\ recs = Readable(log[n].recs)
    OBVIOUS
  <2>2. /\ phase # "up" /\ phase' # "up" /\ CURRENT # 0 /\ CURRENT' = CURRENT /\ DiskState' = DiskState
        /\ UNCHANGED <<seqOf, must, safe, log>>
        /\ table' = table \/ table' = Put(table, t, ToSet(recs))
    BY <1>3, <2>1 DEF ReplayLog, DiskState, DBInv, Opened, NewFileNumber
  <2>3. \A f \in DiskState.files : f[2] # t
    <3>1. vset.current = DiskState.files /\ \A f \in vset.current : f[2] < vset.next /\ f[2] \in Nat
      BY <1>3 DEF ReplayLog, DBInv, Opened, Numbered, UsedFiles, DBTypes, VersionState, FileRef, Num
    <3>2. vset.next \in Nat
      BY DEF DBInv, DBTypes, VersionState
    <3> QED
      BY <2>1, <3>1, <3>2
  <2>4. \A w : InTables(table', DiskState.files, w) <=> InTables(table, DiskState.files, w)
    BY <2>2, <2>3 DEF InTables, Put
  <2> QED
    BY <2>2, <2>4, DiskSame, Persisted
<1>4. CASE OpenLog
  <2>1. PICK n, e : n = vset.next /\ e = [recs |-> << >>, synced |-> 0]
    OBVIOUS
  <2>2. /\ phase # "up" /\ phase' # "up" /\ CURRENT # 0 /\ CURRENT' = CURRENT
        /\ vset.man # CURRENT /\ CURRENT \in DOMAIN manifest /\ opening.save /\ opening.todo = {}
        /\ n \in Num /\ log' = Put(log, n, e)
        /\ UNCHANGED <<seqOf, must, safe, table>>
    BY <1>4, <2>1 DEF OpenLog, DBInv, Opened, Phases, Opens, DBTypes, NewFileNumber
  <2>3. DiskState' = DiskState
    <3>1. manifest'[CURRENT] = manifest[CURRENT]
      BY <1>4, <2>2 DEF OpenLog, Put
    <3> QED
      BY <2>2, <3>1 DEF DiskState
  <2>4. n \notin DOMAIN log
    <3>1. \A m \in DOMAIN log : m < n /\ m \in Nat
      BY <1>4, <2>1, <2>2 DEF OpenLog, DBInv, DBTypes, Numbered, Num
    <3> QED
      BY <2>2, <3>1 DEF Num
  <2>5. \A w : InLogs(log', DiskState.log, w) <=> InLogs(log, DiskState.log, w)
    <3>1. PICK l2 : l2 = log'
      OBVIOUS
    <3>2. l2 = Put(log, n, [recs |-> << >>, synced |-> 0])
      BY <2>1, <2>2, <3>1
    <3>3. WithNewLog(l2, n)
      BY <2>2, <2>4, <3>2, NewLog DEF DBInv
    <3> QED
      BY <3>1, <3>3 DEF WithNewLog
  <2> QED
    BY <2>2, <2>3, <2>5, DiskSame, Persisted
<1>5. CASE SaveSynced
  <2>1. /\ phase # "up" /\ phase' # "up" /\ CURRENT # 0 /\ CURRENT' = CURRENT
        /\ vset.man # CURRENT /\ CURRENT \in DOMAIN manifest
        /\ UNCHANGED <<seqOf, must, safe, table, log>>
    BY <1>5 DEF SaveSynced, DBInv, Opened, DBTypes
  <2>2. DiskState' = DiskState
    <3>1. manifest'[CURRENT] = manifest[CURRENT]
      BY <1>5, <2>1 DEF SaveSynced, SyncedManifest
    <3> QED
      BY <2>1, <3>1 DEF DiskState
  <2> QED
    BY <2>1, <2>2, DiskSame, Persisted
<1>6. CASE SetCurrentFile
  <2>1. PICK D, N, k : /\ D = DiskState /\ k = vset.man
                       /\ N = [files |-> vset.current \cup opening.add, log |-> logfile, next |-> vset.next,
                               last |-> vset.last]
    OBVIOUS
  <2>2. /\ phase # "up" /\ phase' # "up" /\ CURRENT' = k /\ k # 0 /\ CURRENT # 0
        /\ UNCHANGED <<seqOf, must, safe, table, log, manifest>>
        /\ vset.current = D.files
        /\ \A n \in DOMAIN log : n >= D.log => \A w \in Good(log[n].recs) : InTables(table, opening.add, w)
        /\ \A w \in 1..MaxWrites : InTables(table, opening.add, w) => InLogs(log, D.log, w)
        /\ logfile \in DOMAIN log /\ log[logfile].recs = << >>
        /\ \A n \in DOMAIN log : n <= logfile
        /\ Replay(manifest[k].edits) = N
    BY <1>6, <2>1 DEF SetCurrentFile, DBInv, Phases, Opened
  <2>3. DiskState' = N
    BY <2>2 DEF DiskState
  <2>4. \A w : InTables(table, N.files, w) <=> InTables(table, D.files, w) \/ InTables(table, opening.add, w)
    BY <2>1, <2>2 DEF InTables
  <2>5. \A w : InTables(table, opening.add, w) <=> InLogs(log, D.log, w)
    BY <2>2 DEF InTables, InLogs, DBInv, DBTypes
  <2>6. \A w : ~InLogs(log, N.log, w)
    <3>1. \A n \in DOMAIN log : n >= logfile => n = logfile
      BY <2>2 DEF DBInv, DBTypes, Num
    <3>2. Good(<< >>) = {}
      BY DEF Good
    <3> QED
      BY <2>1, <2>2, <3>1, <3>2 DEF InLogs
  <2>7. \A w : w \in DiskIds' <=> InTables(table, N.files, w) \/ InLogs(log, N.log, w)
    BY <2>2, <2>3 DEF Seen
  <2>8. \A w : w \in DiskIds <=> InTables(table, D.files, w) \/ InLogs(log, D.log, w)
    BY <2>1, <2>2 DEF Seen
  <2>9. \A w : w \in DiskIds' <=> w \in DiskIds
    BY <2>4, <2>5, <2>6, <2>7, <2>8
  <2>10. DiskIds' = DiskIds
    BY <2>9
  <2> QED
    BY <2>2, <2>10, Persisted DEF Kept
<1>7. CASE OpenDone
  <2>1. PICK files, N : /\ files = vset.current \cup opening.add
                        /\ N = [files |-> files, log |-> logfile, next |-> vset.next, last |-> vset.last]
    OBVIOUS
  <2>2. /\ phase = "installed" /\ phase' = "up" /\ CURRENT # 0 /\ opening.save /\ CURRENT = vset.man
        /\ mem = {} /\ mem' = mem /\ imm = NoImm /\ imm' = imm /\ bg_error = FALSE
        /\ logfile \in DOMAIN log /\ log[logfile].recs = << >>
        /\ \A n \in DOMAIN log : n <= logfile
        /\ DiskState = N /\ seqOf' = seqOf /\ must \subseteq must' /\ safe \subseteq safe'
    <3>1. edit = Edit(logfile, vset.next, vset.last, opening.add, {}) /\ edit.log = logfile
      BY <1>7 DEF OpenDone, DBInv, Phases, Edit
    <3> QED
      BY <1>7, <2>1, <3>1 DEF OpenDone, DBInv, Phases, Opened, Opens, DiskState, memory, DBTypes
  <2>3. vset'.current = files /\ table' = Only(table, Live(files, {}, {}, held))
    <3>1. vset \in VersionState
      BY DEF DBInv, DBTypes
    <3> QED
      BY <1>7, <2>1, <2>2, <3>1 DEF OpenDone, DeleteObsoleteFiles, VersionState
  <2>4. \A w : InTables(table', files, w) <=> InTables(table, files, w)
    <3>1. \A f \in files : f[2] \in Live(files, {}, {}, held)
      BY DEF Live, Numbers
    <3> QED
      BY <2>3, <3>1 DEF InTables, Only
  <2>5. \A w : ~InLogs(log, N.log, w)
    <3>1. \A n \in DOMAIN log : n >= logfile => n = logfile
      BY <2>2 DEF DBInv, DBTypes, Num
    <3>2. Good(<< >>) = {}
      BY DEF Good
    <3> QED
      BY <2>1, <2>2, <3>1, <3>2 DEF InLogs
  <2>6. \A w : w \in DiskIds <=> InTables(table, files, w)
    BY <2>1, <2>2, <2>5 DEF Seen
  <2>7. \A w : w \in Content' <=> InTables(table', files, w)
    <3>1. \A w : w \in Content' <=> w \in mem' \/ w \in imm'.ids \/ InTables(table', vset'.current, w)
      BY DEF Content, InTables, Numbers
    <3> QED
      BY <2>2, <2>3, <3>1 DEF NoImm
  <2>8. \A w : w \in Content' <=> w \in DiskIds
    BY <2>4, <2>6, <2>7
  <2>9. Content' = DiskIds
    BY <2>8
  <2>10. must' \subseteq Content' /\ safe' \subseteq must'
    BY <2>2 DEF Seen, Kept
  <2> QED
    BY <2>2, <2>9, <2>10 DEF Store!Open, Store!Promise
<1> QED
  BY <1>1, <1>2, <1>3, <1>4, <1>5, <1>6, <1>7 DEF Opening

\* A write is begun once and read from its answer on.
LEMMA StoreWriting ==
    ASSUME DBInv, Seen, Seen', Writing
    PROVE  Store!Begin \/ Store!Finish \/ Store!Persist
<1>0. vset \in VersionState /\ DBTypes
  BY DEF DBInv, DBTypes
<1>1. CASE \/ \E kind \in {"sync", "async", "null"} : WriteStart(kind)
           \/ WriteRefused \/ (RoomFound /\ wr.kind = "null") \/ SwitchFails
           \/ LogAppend \/ LogAppendFails \/ SyncFails
  <2>1. /\ phase = "up" /\ phase' = phase /\ mem' = mem /\ imm' = imm /\ table' = table
        /\ vset'.current = vset.current
        /\ UNCHANGED <<seqOf, must, safe>>
    BY <1>0, <1>1 DEF WriteStart, WriteRefused, RoomFound, SwitchFails, LogAppend, LogAppendFails, SyncFails,
       memory, disk, VersionState, DBInv, Phases, Idle
  <2>2. Kept' = Kept
    BY <2>1, ContentSame
  <2> QED
    BY <2>1, <2>2, Persisted
<1>2. CASE RoomFound /\ wr.kind # "null"
  <2>1. /\ phase = "up" /\ phase' = phase /\ mem' = mem /\ imm' = imm /\ table' = table /\ vset' = vset
        /\ Len(seqOf) < MaxWrites /\ seqOf' = Append(seqOf, vset.last + 1)
        /\ UNCHANGED <<must, safe>>
    BY <1>2 DEF RoomFound, memory, disk, DBInv, Phases, Attempt, Idle
  <2>2. Kept' = Kept
    BY <2>1, ContentSame
  <2>3. Len(seqOf') = Len(seqOf) + 1
    BY <1>0, <2>1 DEF DBTypes, VersionState
  <2> QED
    BY <2>1, <2>2, <2>3 DEF Store!Begin, Kept
<1>3. CASE SwitchMemTable
  <2>1. /\ phase = "up" /\ phase' = phase /\ ~imm.on /\ imm' = [on |-> TRUE, ids |-> mem] /\ mem' = {}
        /\ table' = table /\ vset'.current = vset.current
        /\ UNCHANGED <<seqOf, must, safe>>
    BY <1>0, <1>3 DEF SwitchMemTable, MaySwitch, VersionState, DBInv, Phases, Idle
  <2>2. imm.ids = {}
    BY <2>1 DEF DBInv, Phases, NoImm
  <2>3. Kept' = Kept
    BY <2>1, <2>2, ContentSame
  <2> QED
    BY <2>1, <2>3, Persisted
<1>4. CASE Commit
  <2>1. /\ wr.pc = "commit" /\ phase = "up" /\ phase' = phase /\ mem' = mem \cup {Write} /\ imm' = imm
        /\ table' = table /\ vset'.current = vset.current /\ seqOf' = seqOf
        /\ must \subseteq must' /\ safe \subseteq safe'
    BY <1>0, <1>4 DEF Commit, VersionState, DBInv, Phases, Idle
  <2>2. \A w : w \in Content <=> w \in mem \/ w \in imm.ids \/ InTables(table, vset.current, w)
    BY ContentHolds
  <2>3. \A w : w \in Content' <=> w \in mem' \/ w \in imm'.ids \/ InTables(table', vset'.current, w)
    BY DEF Content, InTables, Numbers
  <2>4. \A w : w \in Content' <=> w \in Content \/ w = Write
    BY <2>1, <2>2, <2>3
  <2>5. Content' = Content \cup {Write}
    BY <2>4
  <2>6. Write \notin Content
    BY <2>1, <2>2 DEF DBInv, Attempt, InTables
  <2>7. must' \subseteq Content' /\ safe' \subseteq must'
    BY <2>1 DEF Seen, Kept
  <2> QED
    BY <2>1, <2>5, <2>6, <2>7 DEF Store!Finish, Store!Promise, Write
<1> QED
  BY <1>1, <1>2, <1>3, <1>4 DEF Writing

\* Flushes and compactions change nothing that is read.
LEMMA StoreBackground ==
    ASSUME DBInv, Seen, Seen', Background
    PROVE  Store!Persist
<1>0. vset \in VersionState /\ DBTypes
  BY DEF DBInv, DBTypes
<1>1. CASE CompactStart \/ CompactFails \/ TrivialMove \/ InstallFails \/ BackgroundIdle
  <2>1. /\ phase = "up" /\ phase' = phase /\ mem' = mem /\ imm' = imm /\ table' = table /\ vset' = vset
        /\ UNCHANGED <<seqOf, must, safe>>
    BY <1>1, Installing DEF CompactStart, CompactFails, TrivialMove, InstallFails, BackgroundIdle, MayCompact,
       memory, disk, DBInv, Phases, NoComp
  <2>2. Kept' = Kept
    BY <2>1, ContentSame
  <2> QED
    BY <2>1, <2>2, Persisted
<1>2. ASSUME NEW n \in Num, phase = "up", \A f \in vset.current : f[2] # n,
             mem' = mem, imm' = imm, vset'.current = vset.current,
             NEW S \in SUBSET (1..MaxWrites),
             \/ table' \in {Put(table, n, S), Only(table, DOMAIN table \ {n})}
             \/ n \in DOMAIN table /\ table' = [table EXCEPT ![n] = S],
             UNCHANGED <<phase, seqOf, must, safe>>
      PROVE  Store!Persist
  <2>1. PICK t2 : t2 = table'
    OBVIOUS
  <2>2. t2 \in {Put(table, n, S), Only(table, DOMAIN table \ {n})}
          \/ (n \in DOMAIN table /\ t2 = [table EXCEPT ![n] = S])
    BY <1>2, <2>1
  <2>3. OnlyTable(t2, n)
    BY <1>0, <2>2, OneTable
  <2>4. \A w : InTables(table', vset.current, w) <=> InTables(table, vset.current, w)
    BY <1>2, <2>1, <2>3 DEF OnlyTable
  <2>5. Kept' = Kept
    BY <1>2, <2>4, ContentSame
  <2> QED
    BY <1>2, <2>5, Persisted
<1>3. CASE FlushStart \/ CompactOpen
  <2>1. PICK n, S : n = vset.next /\ S = {}
    OBVIOUS
  <2>2. /\ phase = "up" /\ n \in Num /\ table' = Put(table, n, S) /\ S \in SUBSET (1..MaxWrites)
        /\ mem' = mem /\ imm' = imm /\ vset'.current = vset.current
        /\ UNCHANGED <<phase, seqOf, must, safe>>
    BY <1>0, <1>3, <2>1 DEF FlushStart, CompactOpen, HasNumber, NewFileNumber, MayFlush, memory, VersionState,
       DBInv, Phases, NoImm, NoComp
  <2>3. \A f \in vset.current : f[2] # n
    BY <2>1, <2>2, NextNumber DEF UsedFiles
  <2> QED
    BY <1>2, <2>2, <2>3
<1>4. CASE FlushBuilt \/ FlushFails
  <2>1. PICK n, S : n = flush /\ S = imm.ids
    OBVIOUS
  <2>2. /\ phase = "up" /\ n \in Num /\ S \in SUBSET (1..MaxWrites)
        /\ Fresh(n) /\ n \in DOMAIN table
        /\ mem' = mem /\ imm' = imm /\ vset' = vset
        /\ UNCHANGED <<phase, seqOf, must, safe>>
    BY <1>0, <1>4, <2>1 DEF FlushBuilt, FlushFails, memory, DBInv, DBTypes, Phases, Tables, Fresh, Num
  <2>3. \A f \in vset.current : f[2] # n
    BY <2>2 DEF Fresh, UsedFiles, Num
  <2>4. \/ table' \in {Put(table, n, S), Only(table, DOMAIN table \ {n})}
        \/ n \in DOMAIN table /\ table' = [table EXCEPT ![n] = S]
    BY <1>4, <2>1, <2>2 DEF FlushBuilt, FlushFails
  <2> QED
    BY <1>2, <2>2, <2>3, <2>4
<1>5. CASE CompactBuilt
  <2>1. PICK n, S : n = comp.out /\ S = UNION {table[m] : m \in Numbers(comp.inputs)}
    OBVIOUS
  <2>2. /\ phase = "up" /\ n \in Num /\ Fresh(n) /\ n \in DOMAIN table /\ comp.on
        /\ comp.inputs \subseteq vset.current
        /\ mem' = mem /\ imm' = imm /\ vset' = vset
        /\ table' = [table EXCEPT ![n] = S]
        /\ UNCHANGED <<phase, seqOf, must, safe>>
    BY <1>0, <1>5, <2>1 DEF CompactBuilt, Quiet, memory, DBInv, DBTypes, CompState, Phases, Tables, Fresh, Num,
       NoComp, NoEdit
  <2>3. \A f \in vset.current : f[2] # n
    BY <2>2 DEF Fresh, UsedFiles, Num
  <2>4. S \in SUBSET (1..MaxWrites)
    <3>1. \A f \in comp.inputs : f[2] \in DOMAIN table
      BY <2>2 DEF DBInv, Tables, Filled, UsedFiles
    <3> QED
      BY <1>0, <2>1, <3>1 DEF DBTypes, Numbers
  <2> QED
    BY <1>2, <2>2, <2>3, <2>4
<1>6. CASE Install
  <2>1. PICK files, pend, base, m2 :
          /\ files = (vset.current \ edit.del) \cup edit.add
          /\ pend = PendingAfter(edit.kind = "compact")
          /\ base = (IF comp.on /\ edit.kind = "flush" THEN comp.base ELSE {})
          /\ m2 = SyncedManifest
    OBVIOUS
  <2>2. /\ edit.kind \in {"flush", "move", "compact"}
        /\ vset'.current = files /\ mem' = mem
        /\ imm' = (IF edit.kind = "flush" THEN NoImm ELSE imm)
        /\ \/ table' = table
           \/ table' = Only(table, Live(files, base, pend, held))
        /\ safe \subseteq safe'
        /\ UNCHANGED <<phase, seqOf, must>>
    BY <1>0, <1>6, <2>1 DEF Install, DeleteObsoleteFiles, VersionState
  <2>3. phase = "up" /\ edit # NoEdit
    BY <2>2, Installing
  <2>4. \A w : InTables(table', files, w) <=> InTables(table, files, w)
    <3>1. \A f \in files : f[2] \in Live(files, base, pend, held)
      BY DEF Live, Numbers
    <3> QED
      BY <2>2, <3>1 DEF InTables, Only
  <2>5. \A w : InTables(table, files, w) <=>
                 InTables(table, vset.current \ edit.del, w) \/ InTables(table, edit.add, w)
    BY <2>1 DEF InTables
  <2>6. CASE edit.kind = "flush"
    <3>1. /\ imm' = NoImm /\ edit.del = {}
          /\ \A w \in 1..MaxWrites : w \in imm.ids <=> InTables(table, edit.add, w)
      BY <2>2, <2>3, <2>6 DEF DBInv, Recorded
    <3>2. \A w : w \in imm.ids <=> InTables(table, edit.add, w)
      BY <1>0, <3>1 DEF DBTypes, InTables
    <3>3. vset.current \ edit.del = vset.current
      BY <3>1
    <3>4. Kept' = Kept
      BY <2>2, <2>3, <2>4, <2>5, <3>1, <3>2, <3>3, ContentSame DEF NoImm
    <3> QED
      BY <2>2, <2>3, <3>4, Persisted
  <2>7. CASE edit.kind # "flush"
    <3>1. /\ imm' = imm /\ edit.del \subseteq vset.current
          /\ \A w \in 1..MaxWrites : InTables(table, edit.add, w) <=> InTables(table, edit.del, w)
      BY <2>2, <2>3, <2>7 DEF DBInv, Recorded
    <3>2. \A w : InTables(table, edit.add, w) <=> InTables(table, edit.del, w)
      BY <1>0, <3>1 DEF DBTypes, InTables
    <3>3. \A w : InTables(table, vset.current, w) <=>
                   InTables(table, vset.current \ edit.del, w) \/ InTables(table, edit.del, w)
      BY <3>1 DEF InTables
    <3>4. Kept' = Kept
      BY <2>2, <2>3, <2>4, <2>5, <3>1, <3>2, <3>3, ContentSame
    <3> QED
      BY <2>2, <2>3, <3>4, Persisted
  <2> QED
    BY <2>6, <2>7
<1> QED
  BY <1>1, <1>3, <1>4, <1>5, <1>6 DEF Background

\* What is left when a process ends, or the machine, is what was promised.
LEMMA StoreEnding ==
    ASSUME DBInv, Seen, Seen', OpenFails \/ ProcessCrash \/ MachineCrash
    PROVE  Store!Restart \/ Store!PowerCut \/ Store!Persist
<1>1. CASE OpenFails
  <2>1. /\ phase # "up" /\ phase' # "up" /\ CURRENT # 0 /\ CURRENT' = CURRENT
        /\ vset.man # CURRENT /\ CURRENT \in DOMAIN manifest
        /\ UNCHANGED <<seqOf, must, safe, table, log>>
    BY <1>1 DEF OpenFails, MemoryLost, DBInv, Opened, DBTypes
  <2>2. DiskState' = DiskState
    <3>1. manifest'[CURRENT] = manifest[CURRENT]
      BY <1>1, <2>1 DEF OpenFails, Only
    <3> QED
      BY <2>1, <3>1 DEF DiskState
  <2> QED
    BY <2>1, <2>2, DiskSame, Persisted
<1>2. CASE ProcessCrash /\ phase = "up"
  <2>1. phase' = "down" /\ UNCHANGED <<seqOf, must, safe>>
    BY <1>2 DEF ProcessCrash, MemoryLost
  <2> QED
    BY <1>2, <2>1 DEF Seen, Kept, Store!Restart
<1>3. CASE ProcessCrash /\ phase # "up"
  <2>1. /\ phase' # "up" /\ CURRENT # 0 /\ CURRENT' = CURRENT /\ log' = log /\ DiskState' = DiskState
        /\ UNCHANGED <<seqOf, must, safe, table>>
    BY <1>3 DEF ProcessCrash, MemoryLost, DBInv, Phases, Idle, DiskState
  <2> QED
    BY <1>3, <2>1, DiskSame, Persisted
<1>4. CASE MachineCrash
  <2>1. phase' = "down" /\ must' = safe /\ UNCHANGED <<seqOf, safe>>
    BY <1>4 DEF MachineCrash, MemoryLost
  <2> QED
    BY <2>1 DEF Seen, Kept, Store!PowerCut
<1> QED
  BY <1>1, <1>2, <1>3, <1>4

\* Readers change nothing.
LEMMA StoreReading ==
    ASSUME DBInv, Seen', NEW r \in Readers, ReadStart(r) \/ ReadEnd(r)
    PROVE  Store!Persist
<1>1. /\ phase = "up" /\ phase' = phase /\ mem' = mem /\ imm' = imm /\ table' = table /\ vset' = vset
      /\ UNCHANGED <<seqOf, must, safe>>
  BY DEF ReadStart, ReadEnd, disk, memory, DBInv, Phases
<1>2. Kept' = Kept
  BY <1>1, ContentSame
<1> QED
  BY <1>1, <1>2, Persisted

\* DBImpl keeps the promises of a store: a write that was answered is read
\* until the process ends, a restart finds it, a crash of the machine leaves
\* what was synced, and flushes, compactions, failed opens and the deletion
\* of files change nothing that is read.
THEOREM DBIsStore ==
    ASSUME ~ReuseLogs
    PROVE  Spec => ImplementsStore
<1>1. Init => Store!Init
  BY DEF Init, Store!Init, DiskIds
<1>2. ASSUME DBInv, Seen, Seen', [Next]_vars
      PROVE  [Store!Next]_(Store!store)
  <2>1. CASE Next
    BY <1>2, <2>1, StoreOpening, StoreWriting, StoreBackground, StoreEnding, StoreReading DEF Next, Store!Next
  <2>2. CASE UNCHANGED vars
    BY <2>2 DEF vars, disk, memory, bgvars, Content, DiskIds, DiskState, Found, Whole, LogsOf, Store!store
  <2> QED
    BY <1>2, <2>1, <2>2
<1>3. DBInv => Seen
  BY SeenNow
<1> QED
  BY <1>1, <1>2, <1>3, DBInvariance, PTL DEF Spec, ImplementsStore, Store!Spec

=============================================================================

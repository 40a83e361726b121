------------------------------ MODULE DBImpl ------------------------------
(***************************************************************************)
(* leveldb's DBImpl (db/db_impl.cc) with the part of VersionSet            *)
(* (db/version_set.cc) that keeps its state on disk: writes go to a log    *)
(* and a memtable, a full memtable becomes a table, tables are compacted,  *)
(* the manifest says which tables and logs count, CURRENT names the        *)
(* manifest, obsolete files are deleted, and a restart rebuilds all of it. *)
(*                                                                         *)
(* A write is a number: its place in the history of all writes.  Keys and  *)
(* the merging of overwritten values are the subject of module Levels.     *)
(***************************************************************************)
EXTENDS Integers, Sequences, FiniteSets, SequencesExt

CONSTANTS
  Readers,      \* threads with a Get or an iterator open
  MemCap,       \* writes that fill a memtable (write_buffer_size)
  L0Trigger,    \* kL0_CompactionTrigger
  L0Stop,       \* kL0_StopWritesTrigger
  ReuseLogs,    \* Options::reuse_logs
  MaxWrites, MaxFile, MaxIncidents  \* bounds of a run

ASSUME DBAssumption ==
  /\ {MemCap, L0Trigger, L0Stop} \subseteq Nat \ {0} /\ L0Trigger <= L0Stop
  /\ {MaxWrites, MaxIncidents} \subseteq Nat /\ MaxFile \in Nat \ {0}
  /\ ReuseLogs \in BOOLEAN

VARIABLES
  log,       \* log files: number -> [recs, synced]
  table,     \* table files: number -> the writes in it, {} while unfinished
  manifest,  \* manifest files: number -> [edits, synced]
  CURRENT,   \* the manifest that CURRENT names, 0 before NewDB
  phase,     \* "down", the steps of DB::Open, or "up"
  opening,   \* what Recover has gathered: [todo, add, maxseq, save, reuse]
  vset,      \* VersionSet: [current, log, next, last, man]
  mem, imm, logfile,   \* mem_, imm_ and logfile_number_
  pending,   \* pending_outputs_
  edit,      \* the edit LogAndApply is writing with the mutex released
  flush,     \* the table CompactMemTable is building, 0 if none
  comp,      \* the compaction under way: [inputs, base, out]
  scheduled, \* bg_compaction_scheduled_
  bg_error,  \* whether bg_error_ is set
  wr,        \* the writer at the head of the queue: [pc, kind, force]
  held,      \* reader -> the version it has referenced
  seqOf,     \* write -> the sequence number it was given
  must,      \* history: writes a restart of the process may not lose
  safe,      \* history: writes a crash of the machine may not lose
  incidents  \* how many crashes, failures and forced switches so far

disk == <<log, table, manifest, CURRENT>>
bgvars == <<pending, edit, flush, comp, scheduled>>
memory == <<mem, imm, logfile>>
vars == <<disk, phase, opening, vset, memory, bgvars, bg_error, wr, held,
          seqOf, must, safe, incidents>>

Torn == 0                   \* a record cut short: nothing after it can be read
Num == 1..MaxFile
NoImm == [on |-> FALSE, ids |-> {}]
NoEdit == [kind |-> "none"]
NoComp == [on |-> FALSE, inputs |-> {}, base |-> {}, out |-> 0]
Idle == [pc |-> "idle", kind |-> "none", force |-> FALSE]
NoOpening == [todo |-> {}, add |-> {}, maxseq |-> 0, save |-> FALSE, reuse |-> FALSE]
NoVset == [current |-> {}, log |-> 0, next |-> 2, last |-> 0, man |-> 0]

Put(f, n, v) == [x \in DOMAIN f \cup {n} |-> IF x = n THEN v ELSE f[x]]
Only(f, S) == [x \in DOMAIN f \cap S |-> f[x]]
Larger(a, b) == IF a < b THEN b ELSE a
Numbers(files) == {f[2] : f \in files}       \* a file of a version is <<level, number>>
Level0(files) == Cardinality({f \in files : f[1] = 0})

---------------------------------------------------------------------------
(* What the files say to a process that opens them.                        *)

\* log::Reader: the records before one that was cut short.
Readable(recs) ==
  LET i == SelectInSeq(recs, LAMBDA r : r = Torn)
  IN  IF i = 0 THEN recs ELSE SubSeq(recs, 1, i - 1)

Edit(lognum, next, last, add, del) ==
  [kind |-> "edit", log |-> lognum, next |-> next, last |-> last, add |-> add, del |-> del]

\* The first record of a manifest: the files alone, no counters.
Snapshot(files) == [Edit(0, 0, 0, files, {}) EXCEPT !.kind = "snapshot"]
TornEdit == [Edit(0, 0, 0, {}, {}) EXCEPT !.kind = "torn"]

Blank == [files |-> {}, log |-> 0, next |-> 0, last |-> 0]

(* Variant, never a step: an added file does not outlive its deletion at another level. *)
ApplyForgetsMoves(st, e) ==
  [files |-> {f \in st.files \cup e.add : f[2] \notin Numbers(e.del)},
   log |-> e.log, next |-> e.next, last |-> e.last]

\* Builder::Apply and SaveTo, and the counters Recover reads beside them.
Apply(st, e) ==
  IF e.kind = "torn" THEN st
  ELSE LET files == (st.files \ e.del) \cup e.add
       IN  IF e.kind = "snapshot" THEN [st EXCEPT !.files = files]
           ELSE [files |-> files, log |-> e.log, next |-> e.next, last |-> e.last]

Replay(edits) ==
  LET state[k \in 0..Len(edits)] == IF k = 0 THEN Blank ELSE Apply(state[k - 1], edits[k])
  IN  state[Len(edits)]

\* A record cut short at the end of the manifest is skipped in silence; one
\* with a record after it is a checksum error, which Recover returns.
Intact(edits) == \A i \in 1..(Len(edits) - 1) : edits[i].kind # "torn"

LogsOf(d) == {n \in DOMAIN log : n >= d.log}

\* The writes a process would find after opening a database in state d,
\* if every log were cut to the given number of records.
Found(d, cut) ==
  (UNION {table[n] : n \in Numbers(d.files) \cap DOMAIN table})
    \cup UNION {ToSet(Readable(SubSeq(log[n].recs, 1, cut[n]))) : n \in LogsOf(d)}

Whole == [n \in DOMAIN log |-> Len(log[n].recs)]
Synced == [n \in DOMAIN log |-> log[n].synced]

DiskState == Replay(manifest[CURRENT].edits)
DiskIds == IF CURRENT = 0 THEN {} ELSE Found(DiskState, Whole)

\* The writes that reads of the running process see.
Content ==
  mem \cup imm.ids \cup UNION {table[n] : n \in Numbers(vset.current) \cap DOMAIN table}

---------------------------------------------------------------------------
Init ==
  /\ log = << >> /\ table = << >> /\ manifest = << >> /\ CURRENT = 0
  /\ phase = "down" /\ opening = NoOpening /\ vset = NoVset
  /\ mem = {} /\ imm = NoImm /\ logfile = 0
  /\ pending = {} /\ edit = NoEdit /\ flush = 0 /\ comp = NoComp /\ scheduled = FALSE
  /\ bg_error = FALSE /\ wr = Idle /\ held = [r \in Readers |-> {}]
  /\ seqOf = << >> /\ must = {} /\ safe = {}
  /\ incidents = 0

\* One more crash, failure or forced switch of memtables.
Incident == incidents < MaxIncidents /\ incidents' = incidents + 1

\* VersionSet::NewFileNumber
NewFileNumber == vset.next
HasNumber == vset.next \in Num

\* VersionSet::NeedsCompaction, for the number of level-0 files.
NeedsCompaction(files) == Level0(files) >= L0Trigger

\* MaybeScheduleCompaction, when nothing is scheduled: is there work?
Schedules(hasImm, files) == ~bg_error /\ (hasImm \/ NeedsCompaction(files))

(* Variant, never a step: pending outputs are taken for garbage. *)
LiveButPending(current, base, pend, h) ==
  Numbers(current) \cup Numbers(base) \cup UNION {Numbers(h[r]) : r \in Readers}

\* AddLiveFiles: the files of every version somebody references, and the
\* outputs that no version has yet.
Live(current, base, pend, h) ==
  pend \cup Numbers(current) \cup Numbers(base) \cup UNION {Numbers(h[r]) : r \in Readers}

(* Variant, never a step: the manifest that is being written counts as an old one. *)
ManifestsNewer == {n \in DOMAIN manifest : n > vset.man}

ManifestsKept == {n \in DOMAIN manifest : n >= vset.man}

\* DeleteObsoleteFiles, with the mutex held: m is the manifest just synced.
DeleteObsoleteFiles(current, base, pend, lognum, m) ==
  IF bg_error THEN UNCHANGED <<log, table>> /\ manifest' = m
  ELSE /\ log' = Only(log, {n \in DOMAIN log : n >= lognum})
       /\ table' = Only(table, Live(current, base, pend, held))
       /\ manifest' = Only(m, ManifestsKept)

---------------------------------------------------------------------------
(* DB::Open                                                                *)

\* NewDB: the first manifest is closed, not synced, before CURRENT names it.
NewDB ==
  /\ phase = "down" /\ CURRENT = 0
  /\ manifest' = Put(manifest, 1, [edits |-> <<Edit(0, 2, 0, {}, {})>>, synced |-> 0])
  /\ CURRENT' = 1
  /\ UNCHANGED <<log, table, phase, opening, vset, memory, bgvars, bg_error, wr, held,
                 seqOf, must, safe, incidents>>

\* The missing-file check of Recover goes by number, whatever kind of file
\* has it.
NumberExists(n) == n \in DOMAIN table \cup DOMAIN log \cup DOMAIN manifest

\* VersionSet::Recover, and the files Recover then looks for.
OpenRead ==
  /\ phase = "down" /\ CURRENT # 0
  /\ Intact(manifest[CURRENT].edits)
  /\ LET d == DiskState IN
       /\ d.next # 0
       /\ \A n \in Numbers(d.files) : NumberExists(n)
       /\ d.next + 1 \in Num
       /\ vset' = [current |-> d.files, log |-> d.log, next |-> d.next + 1, last |-> d.last,
                   man |-> IF ReuseLogs THEN CURRENT ELSE d.next]
       /\ opening' = [NoOpening EXCEPT !.todo = LogsOf(d), !.save = ~ReuseLogs,
                                       !.reuse = ReuseLogs]
  /\ phase' = "replay"
  /\ UNCHANGED <<disk, memory, bgvars, bg_error, wr, held, seqOf, must, safe, incidents>>

(* Variant, never a step: the sequence numbers in the logs are not taken into account. *)
ReplayedSeqIgnored(recs) == 0

\* The largest sequence number in a log.
ReplayedSeq(recs) == IF recs = << >> THEN 0 ELSE seqOf[Last(recs)]

\* RecoverLogFile: the oldest log goes to a table of level 0, or, if it is the
\* last and logs are reused, becomes the memtable and the log of the process.
ReplayLog ==
  /\ phase = "replay" /\ opening.todo # {} /\ HasNumber
  /\ LET n == Min(opening.todo)
         recs == Readable(log[n].recs)
         keep == ReuseLogs /\ opening.todo = {n}
         flushed == ~keep /\ recs # << >>
         t == NewFileNumber
         used == Larger(IF flushed THEN t + 1 ELSE t, n + 1)     \* MarkFileNumberUsed
     IN
       /\ vset' = [vset EXCEPT !.next = used]
       /\ opening' = [todo |-> opening.todo \ {n},
                      add |-> opening.add \cup (IF flushed THEN {<<0, t>>} ELSE {}),
                      maxseq |-> Larger(opening.maxseq, ReplayedSeq(recs)),
                      save |-> opening.save \/ flushed,
                      reuse |-> opening.reuse]
       /\ table' = IF flushed THEN Put(table, t, ToSet(recs)) ELSE table
       /\ mem' = IF keep THEN ToSet(recs) ELSE {}
       /\ logfile' = IF keep THEN n ELSE 0
  /\ UNCHANGED <<log, manifest, CURRENT, phase, imm, bgvars, bg_error, wr, held,
                 seqOf, must, safe, incidents>>

\* The rest of Open: a new log unless one is reused, and LogAndApply if there
\* is something to save, up to the record it appends.
OpenLog ==
  /\ phase = "replay" /\ opening.todo = {}
  /\ LET fresh == logfile = 0
         n == IF fresh THEN NewFileNumber ELSE logfile
         next == IF fresh THEN n + 1 ELSE vset.next
         last == Larger(vset.last, opening.maxseq)
         e == Edit(n, next, last, opening.add, {})
         old == IF opening.reuse THEN manifest[vset.man]
                ELSE [edits |-> <<Snapshot(vset.current)>>, synced |-> 0]
     IN
       /\ n \in Num
       /\ log' = IF fresh THEN Put(log, n, [recs |-> << >>, synced |-> 0]) ELSE log
       /\ logfile' = n
       /\ vset' = [vset EXCEPT !.next = next, !.last = last]
       /\ IF opening.save
          THEN /\ manifest' = Put(manifest, vset.man, [old EXCEPT !.edits = Append(@, e)])
               /\ edit' = e
               /\ phase' = "saving"
          ELSE /\ phase' = "installed"
               /\ UNCHANGED <<manifest, edit>>
  /\ UNCHANGED <<table, CURRENT, opening, mem, imm, pending, flush, comp, scheduled, bg_error,
                 wr, held, seqOf, must, safe, incidents>>

SyncedManifest == [manifest EXCEPT ![vset.man].synced = Len(manifest[vset.man].edits)]

\* LogAndApply syncs the manifest ...
SaveSynced ==
  /\ phase = "saving"
  /\ manifest' = SyncedManifest
  /\ phase' = IF opening.reuse THEN "installed" ELSE "naming"
  /\ UNCHANGED <<log, table, CURRENT, opening, vset, memory, bgvars, bg_error, wr, held,
                 seqOf, must, safe, incidents>>

\* ... and SetCurrentFile renames a synced temporary file to CURRENT.
SetCurrentFile ==
  /\ phase = "naming"
  /\ CURRENT' = vset.man
  /\ phase' = "installed"
  /\ UNCHANGED <<log, table, manifest, opening, vset, memory, bgvars, bg_error, wr, held,
                 seqOf, must, safe, incidents>>

\* The version is installed, garbage is deleted, compactions may start.  What
\* the open has found, answered or not, counts from now on.
OpenDone ==
  /\ phase = "installed"
  /\ LET files == vset.current \cup opening.add
         lognum == IF opening.save THEN edit.log ELSE vset.log IN
       /\ vset' = [vset EXCEPT !.current = files, !.log = lognum]
       /\ DeleteObsoleteFiles(files, {}, {}, lognum, manifest)
       /\ scheduled' = Schedules(FALSE, files)
       /\ safe' = IF opening.save THEN safe \cup UNION {table[n] : n \in Numbers(files)} ELSE safe
       /\ must' = must \cup mem \cup UNION {table[n] : n \in Numbers(files)}
  /\ phase' = "up" /\ opening' = NoOpening /\ edit' = NoEdit
  /\ UNCHANGED <<CURRENT, memory, pending, flush, comp, bg_error, wr, held, seqOf, incidents>>

\* What is left in memory when a process ends.
MemoryLost ==
  /\ phase' = "down" /\ opening' = NoOpening /\ vset' = NoVset
  /\ mem' = {} /\ imm' = NoImm /\ logfile' = 0
  /\ pending' = {} /\ edit' = NoEdit /\ flush' = 0 /\ comp' = NoComp /\ scheduled' = FALSE
  /\ bg_error' = FALSE /\ wr' = Idle /\ held' = [r \in Readers |-> {}]

\* An open that fails: LogAndApply deletes the manifest it could not finish.
OpenFails ==
  /\ phase \in {"replay", "saving", "naming"}
  /\ Incident
  /\ manifest' = IF phase \in {"saving", "naming"} /\ ~opening.reuse
                 THEN Only(manifest, DOMAIN manifest \ {vset.man}) ELSE manifest
  /\ MemoryLost
  /\ UNCHANGED <<log, table, CURRENT, seqOf, must, safe>>

---------------------------------------------------------------------------
(* DBImpl::Write, by the writer at the head of the queue (module           *)
(* WriteQueue says who that is).  A null batch only forces a new memtable. *)

WriteStart(kind) ==
  /\ phase = "up" /\ wr.pc = "idle"
  /\ IF kind = "null"
     THEN Incident
     ELSE Len(seqOf) < MaxWrites /\ UNCHANGED incidents
  /\ wr' = [pc |-> "room", kind |-> kind, force |-> kind = "null"]
  /\ UNCHANGED <<disk, phase, opening, vset, memory, bgvars, bg_error, held, seqOf, must, safe>>

\* MakeRoomForWrite: the background error ends the write.
WriteRefused ==
  /\ wr.pc = "room" /\ bg_error
  /\ wr' = Idle
  /\ UNCHANGED <<disk, phase, opening, vset, memory, bgvars, bg_error, held, seqOf, must, safe, incidents>>

Room == ~wr.force /\ Cardinality(mem) < MemCap

\* There is room: the batch gets the next sequence number.
RoomFound ==
  /\ wr.pc = "room" /\ ~bg_error /\ Room
  /\ IF wr.kind = "null" THEN wr' = Idle /\ UNCHANGED seqOf
     ELSE /\ wr' = [wr EXCEPT !.pc = "append"]
          /\ seqOf' = Append(seqOf, vset.last + 1)
  /\ UNCHANGED <<disk, phase, opening, vset, memory, bgvars, bg_error, held, must, safe, incidents>>

(* Variant, never a step: a memtable that is still being flushed does not hold the writer up. *)
MaySwitchEarly == ~bg_error /\ ~Room /\ Level0(vset.current) < L0Stop

\* No room: the old memtable is flushed already and level 0 is not too long.
MaySwitch == ~bg_error /\ ~Room /\ ~imm.on /\ Level0(vset.current) < L0Stop

\* A new log and a new memtable; the old one waits for its flush, for which
\* MaybeScheduleCompaction is called.
SwitchMemTable ==
  /\ wr.pc = "room" /\ MaySwitch /\ HasNumber
  /\ LET n == NewFileNumber IN
       /\ log' = Put(log, n, [recs |-> << >>, synced |-> 0])
       /\ logfile' = n
       /\ vset' = [vset EXCEPT !.next = n + 1]
  /\ imm' = [on |-> TRUE, ids |-> mem] /\ mem' = {}
  /\ wr' = [wr EXCEPT !.force = FALSE]
  /\ scheduled' = TRUE
  /\ UNCHANGED <<table, manifest, CURRENT, phase, opening, pending, edit, flush, comp,
                 bg_error, held, seqOf, must, safe, incidents>>

\* The new log cannot be created: ReuseFileNumber, and the write ends.
SwitchFails ==
  /\ wr.pc = "room" /\ MaySwitch
  /\ Incident
  /\ wr' = Idle
  /\ UNCHANGED <<disk, phase, opening, vset, memory, bgvars, bg_error, held, seqOf, must, safe>>

Write == Len(seqOf)      \* the write under way

Append2Log(recs) == log' = [log EXCEPT ![logfile].recs = @ \o recs]

\* AddRecord, with the mutex released.
LogAppend ==
  /\ wr.pc = "append"
  /\ Append2Log(<<Write>>)
  /\ wr' = [wr EXCEPT !.pc = "commit"]
  /\ UNCHANGED <<table, manifest, CURRENT, phase, opening, vset, memory, bgvars, bg_error, held,
                 seqOf, must, safe, incidents>>

\* AddRecord fails: all, part or nothing of the record is in the file.  The
\* memtable is left alone, and the sequence number is used up all the same.
LogAppendFails ==
  /\ wr.pc = "append"
  /\ Incident
  /\ \E recs \in {<< >>, <<Write>>, <<Torn>>} : Append2Log(recs)
  /\ vset' = [vset EXCEPT !.last = @ + 1]
  /\ wr' = Idle
  /\ UNCHANGED <<table, manifest, CURRENT, phase, opening, memory, bgvars, bg_error, held,
                 seqOf, must, safe>>

(* Variant, never a step: the write is answered before the file is synced. *)
SyncedLength(recs, kind, synced) == synced

\* Sync makes the whole of the log durable.
LengthSynced(recs, kind, synced) == IF kind = "sync" THEN Len(recs) ELSE synced

\* Sync if asked for, insert into the memtable, SetLastSequence, answer.
\* The write counts on being read back unless the log was torn before it.
Commit ==
  /\ wr.pc = "commit"
  /\ LET recs == log[logfile].recs
         read == ToSet(Readable(recs)) IN
       /\ log' = [log EXCEPT ![logfile].synced = LengthSynced(recs, wr.kind, @)]
       /\ must' = must \cup ({Write} \cap read)
       /\ safe' = IF wr.kind = "sync" THEN safe \cup (read \cap (must \cup {Write})) ELSE safe
  /\ mem' = mem \cup {Write}
  /\ vset' = [vset EXCEPT !.last = @ + 1]
  /\ wr' = Idle
  /\ UNCHANGED <<table, manifest, CURRENT, phase, opening, imm, logfile, bgvars, bg_error, held,
                 seqOf, incidents>>

\* Sync fails: whether the record is there is unknown, no write follows it.
SyncFails ==
  /\ wr.pc = "commit" /\ wr.kind = "sync"
  /\ Incident
  /\ bg_error' = TRUE
  /\ vset' = [vset EXCEPT !.last = @ + 1]
  /\ wr' = Idle
  /\ UNCHANGED <<disk, phase, opening, memory, bgvars, held, seqOf, must, safe>>

---------------------------------------------------------------------------
(* Get and iterators: a version is referenced, then read without the mutex. *)

ReadStart(r) ==
  /\ phase = "up" /\ held[r] = {} /\ vset.current # {}
  /\ held' = [held EXCEPT ![r] = vset.current]
  /\ UNCHANGED <<disk, phase, opening, vset, memory, bgvars, bg_error, wr, seqOf, must, safe, incidents>>

\* UpdateStats: a read that had to look into too many files asks for a
\* compaction, if its version is still current.
ReadEnd(r) ==
  /\ held[r] # {}
  /\ held' = [held EXCEPT ![r] = {}]
  /\ \E seek \in BOOLEAN :
       scheduled' = (scheduled \/ (seek /\ ~bg_error /\ held[r] = vset.current))
  /\ UNCHANGED <<disk, phase, opening, vset, memory, pending, edit, flush, comp, bg_error, wr,
                 seqOf, must, safe, incidents>>

---------------------------------------------------------------------------
(* The background thread.  LogAndApply releases the mutex while it writes  *)
(* the manifest, so each of its uses takes two steps: the record is        *)
(* appended (edit is set), then synced and installed.                      *)

Quiet == flush = 0 /\ edit = NoEdit

\* BackgroundCompaction prefers the memtable; a compaction under way stops
\* for it, and then does not look at bg_error_.
MayFlush == /\ imm.on /\ Quiet
            /\ comp.on \/ (scheduled /\ ~bg_error)

\* WriteLevel0Table takes a number and builds the table without the mutex.
FlushStart ==
  /\ MayFlush /\ HasNumber
  /\ LET n == NewFileNumber IN
       /\ flush' = n
       /\ pending' = pending \cup {n}
       /\ table' = Put(table, n, {})
       /\ vset' = [vset EXCEPT !.next = n + 1]
  /\ UNCHANGED <<log, manifest, CURRENT, phase, opening, memory, edit, comp, scheduled, bg_error,
                 wr, held, seqOf, must, safe, incidents>>

AppendEdit(e) == manifest' = [manifest EXCEPT ![vset.man].edits = Append(@, e)]

\* The table is synced and the edit is on its way: logs before the current one
\* are no longer needed.  Nothing is added for an empty memtable, whose file
\* is deleted.
FlushBuilt ==
  /\ flush # 0
  /\ \E level \in {0, 1} :
       LET add == IF imm.ids = {} THEN {} ELSE {<<level, flush>>}
           e == Edit(logfile, vset.next, vset.last, add, {})
       IN  /\ AppendEdit(e)
           /\ edit' = [e EXCEPT !.kind = "flush"]
  /\ table' = IF imm.ids = {} THEN Only(table, DOMAIN table \ {flush})
              ELSE [table EXCEPT ![flush] = imm.ids]
  /\ pending' = pending \ {flush}
  /\ flush' = 0
  /\ UNCHANGED <<log, CURRENT, phase, opening, vset, memory, comp, scheduled, bg_error,
                 wr, held, seqOf, must, safe, incidents>>

\* The table cannot be written: it is deleted and the error is recorded.
FlushFails ==
  /\ flush # 0
  /\ Incident
  /\ table' = Only(table, DOMAIN table \ {flush})
  /\ pending' = pending \ {flush}
  /\ flush' = 0 /\ bg_error' = TRUE
  /\ scheduled' = comp.on
  /\ UNCHANGED <<log, manifest, CURRENT, phase, opening, vset, memory, edit, comp,
                 wr, held, seqOf, must, safe>>

\* PickCompaction: by size if level 0 is long, else what a seek asked for.
MayCompact == scheduled /\ ~bg_error /\ ~imm.on /\ ~comp.on /\ Quiet

Inputs == {S \in SUBSET vset.current :
             S # {} /\ (NeedsCompaction(vset.current) => Level0(S) > 0)}

CompactStart ==
  /\ MayCompact
  /\ \E S \in Inputs : comp' = [on |-> TRUE, inputs |-> S, base |-> vset.current, out |-> 0]
  /\ UNCHANGED <<disk, phase, opening, vset, memory, pending, edit, flush, scheduled, bg_error,
                 wr, held, seqOf, must, safe, incidents>>

\* A single file that overlaps nothing is moved down as it is.
TrivialMove ==
  /\ MayCompact
  /\ \E f \in {g \in vset.current : g[1] = 0} :
       LET e == Edit(vset.log, vset.next, vset.last, {<<1, f[2]>>}, {f})
       IN  AppendEdit(e) /\ edit' = [e EXCEPT !.kind = "move"]
  /\ UNCHANGED <<log, table, CURRENT, phase, opening, vset, memory, pending, flush, comp,
                 scheduled, bg_error, wr, held, seqOf, must, safe, incidents>>

\* OpenCompactionOutputFile
CompactOpen ==
  /\ comp.on /\ comp.out = 0 /\ Quiet /\ HasNumber
  /\ LET n == NewFileNumber IN
       /\ comp' = [comp EXCEPT !.out = n]
       /\ pending' = pending \cup {n}
       /\ table' = Put(table, n, {})
       /\ vset' = [vset EXCEPT !.next = n + 1]
  /\ UNCHANGED <<log, manifest, CURRENT, phase, opening, memory, edit, flush, scheduled, bg_error,
                 wr, held, seqOf, must, safe, incidents>>

\* AddInputDeletions
CompactedInputs == comp.inputs

\* The output is synced; InstallCompactionResults appends its edit.
CompactBuilt ==
  /\ comp.out # 0 /\ Quiet
  /\ LET e == Edit(vset.log, vset.next, vset.last, {<<1, comp.out>>}, CompactedInputs)
     IN  AppendEdit(e) /\ edit' = [e EXCEPT !.kind = "compact"]
  /\ table' = [table EXCEPT ![comp.out] = UNION {table[n] : n \in Numbers(comp.inputs)}]
  /\ UNCHANGED <<log, CURRENT, phase, opening, vset, memory, pending, flush, comp, scheduled,
                 bg_error, wr, held, seqOf, must, safe, incidents>>

\* A compaction that fails leaves its output for a later process to delete.
CompactFails ==
  /\ comp.out # 0 /\ Quiet
  /\ Incident
  /\ bg_error' = TRUE /\ scheduled' = FALSE
  /\ pending' = pending \ {comp.out} /\ comp' = NoComp
  /\ UNCHANGED <<disk, phase, opening, vset, memory, edit, flush, wr, held, seqOf, must, safe>>

\* CleanupCompaction drops the outputs of the compaction that ended.
PendingAfter(compacted) == IF compacted THEN pending \ {comp.out} ELSE pending

(* Variant, never a step: what became too long while this work was done is not looked at. *)
NotRescheduled(hasImm, files) == FALSE

\* BackgroundCall ends with another look at what there is to do.
Reschedule(hasImm, files) == Schedules(hasImm, files)

\* LogAndApply has synced the manifest: the version is installed, what it
\* makes obsolete is deleted.
Install ==
  /\ edit.kind \in {"flush", "move", "compact"}
  /\ LET files == (vset.current \ edit.del) \cup edit.add
         pend == PendingAfter(edit.kind = "compact")
         running == comp.on /\ edit.kind = "flush"      \* inside DoCompactionWork
         base == IF running THEN comp.base ELSE {}
         imm2 == IF edit.kind = "flush" THEN NoImm ELSE imm
     IN
       /\ vset' = [vset EXCEPT !.current = files, !.log = edit.log]
       /\ imm' = imm2
       /\ pending' = pend
       /\ IF edit.kind = "move" THEN manifest' = SyncedManifest /\ UNCHANGED <<log, table>>
          ELSE DeleteObsoleteFiles(files, base, pend, edit.log, SyncedManifest)
       /\ comp' = IF running THEN comp ELSE NoComp
       /\ scheduled' = IF running THEN TRUE ELSE Reschedule(imm2.on, files)
       /\ safe' = safe \cup (IF edit.kind = "flush" THEN imm.ids \cap must ELSE {})
  /\ edit' = NoEdit
  /\ UNCHANGED <<CURRENT, phase, opening, mem, logfile, flush, bg_error, wr, held, seqOf, must, incidents>>

\* The manifest cannot be written or synced.  The record may be there in
\* full, in part or not at all; a compaction that was interrupted goes on.
InstallFails ==
  /\ edit.kind \in {"flush", "move", "compact"}
  /\ Incident
  /\ LET edits == manifest[vset.man].edits
         before == SubSeq(edits, 1, Len(edits) - 1)
         running == comp.on /\ edit.kind = "flush" IN
       /\ \E left \in {edits, before, Append(before, TornEdit)} :
            manifest' = [manifest EXCEPT ![vset.man].edits = left]
       /\ pending' = PendingAfter(edit.kind = "compact")
       /\ comp' = IF running THEN comp ELSE NoComp
       /\ scheduled' = running
  /\ edit' = NoEdit /\ bg_error' = TRUE
  /\ UNCHANGED <<log, table, CURRENT, phase, opening, vset, memory, flush, wr, held, seqOf, must, safe>>

\* After an error of a writer the background thread has nothing to do.
BackgroundIdle ==
  /\ scheduled /\ bg_error /\ ~comp.on /\ Quiet
  /\ scheduled' = FALSE
  /\ UNCHANGED <<disk, phase, opening, vset, memory, pending, edit, flush, comp, bg_error, wr, held,
                 seqOf, must, safe, incidents>>

---------------------------------------------------------------------------
(* The end of a process.                                                   *)

\* The process is killed (or closes the database, which writes nothing):
\* the files keep what was written to them, a record half-way at most in part.
ProcessCrash ==
  /\ phase # "down"
  /\ Incident
  /\ \E part \in {<< >>} \cup (IF wr.pc = "append" THEN {<<Torn>>} ELSE {}) :
       log' = IF part = << >> THEN log ELSE [log EXCEPT ![logfile].recs = Append(@, Torn)]
  /\ MemoryLost
  /\ UNCHANGED <<table, manifest, CURRENT, seqOf, must, safe>>

\* What may be left of a file of which only a prefix was synced.
Remains(s, synced, torn) ==
  {SubSeq(s, 1, k) : k \in synced..Len(s)}
    \cup {Append(SubSeq(s, 1, k), torn) : k \in synced..(Len(s) - 1)}

\* The machine goes down: of each log and manifest the synced prefix is
\* left, and any part of the rest.  (Creating, renaming and deleting a file
\* is taken to be done in order, as a journaling file system does it.)
MachineCrash ==
  /\ Incident
  /\ \E l \in {f \in [DOMAIN log -> UNION {Remains(log[n].recs, log[n].synced, Torn) : n \in DOMAIN log}] :
                 \A n \in DOMAIN log : f[n] \in Remains(log[n].recs, log[n].synced, Torn)} :
       log' = [n \in DOMAIN log |-> [recs |-> l[n], synced |-> Len(l[n])]]
  /\ \E m \in {f \in [DOMAIN manifest -> UNION {Remains(manifest[n].edits, manifest[n].synced, TornEdit)
                                                 : n \in DOMAIN manifest}] :
                 \A n \in DOMAIN manifest :
                   f[n] \in Remains(manifest[n].edits, manifest[n].synced, TornEdit)} :
       manifest' = [n \in DOMAIN manifest |-> [edits |-> m[n], synced |-> Len(m[n])]]
  /\ must' = safe
  /\ MemoryLost
  /\ UNCHANGED <<table, CURRENT, seqOf, safe>>

---------------------------------------------------------------------------
Opening == NewDB \/ OpenRead \/ ReplayLog \/ OpenLog \/ SaveSynced \/ SetCurrentFile \/ OpenDone

Writing ==
  \/ \E kind \in {"sync", "async", "null"} : WriteStart(kind)
  \/ WriteRefused \/ RoomFound \/ SwitchMemTable \/ SwitchFails
  \/ LogAppend \/ LogAppendFails \/ Commit \/ SyncFails

Background ==
  \/ FlushStart \/ FlushBuilt \/ FlushFails
  \/ CompactStart \/ TrivialMove \/ CompactOpen \/ CompactBuilt \/ CompactFails
  \/ Install \/ InstallFails \/ BackgroundIdle

Next ==
  \/ Opening \/ OpenFails
  \/ Writing
  \/ Background
  \/ \E r \in Readers : ReadStart(r) \/ ReadEnd(r)
  \/ ProcessCrash \/ MachineCrash

Spec == Init /\ [][Next]_vars

\* The background thread runs while it has work, and a writer that the
\* background thread has woken goes on.
FairSpec ==
  /\ Spec
  /\ WF_vars(FlushStart \/ FlushBuilt \/ CompactStart \/ CompactOpen \/ CompactBuilt
             \/ Install \/ BackgroundIdle)
  /\ WF_vars(WriteRefused \/ RoomFound \/ SwitchMemTable)

---------------------------------------------------------------------------
(* Properties                                                              *)

\* Every variable is of its type, and CURRENT names a manifest that exists.
TypeOK ==
  /\ DOMAIN log \subseteq Num /\ DOMAIN table \subseteq Num /\ DOMAIN manifest \subseteq Num
  /\ \A n \in DOMAIN log : /\ log[n].recs \in Seq(0..MaxWrites)
                           /\ log[n].synced \in 0..Len(log[n].recs)
  /\ \A n \in DOMAIN table : table[n] \subseteq 1..MaxWrites
  /\ \A n \in DOMAIN manifest : manifest[n].synced \in 0..Len(manifest[n].edits)
  /\ CURRENT \in DOMAIN manifest \cup {0}
  /\ phase \in {"down", "replay", "saving", "naming", "installed", "up"}
  /\ vset.current \subseteq (0..1) \X Num
  /\ mem \subseteq 1..MaxWrites /\ imm.ids \subseteq 1..MaxWrites /\ logfile \in 0..MaxFile
  /\ pending \subseteq Num /\ flush \in 0..MaxFile /\ comp.out \in 0..MaxFile
  /\ scheduled \in BOOLEAN /\ bg_error \in BOOLEAN
  /\ must \subseteq 1..Len(seqOf) /\ safe \subseteq must

\* What the writes were promised is there: in the running process, and for
\* any process that would open the files as they are now (Write, options.h
\* 185-201: killing the process loses nothing).
NothingLost ==
  /\ phase = "up" => must \subseteq Content
  /\ must \subseteq DiskIds

\* The edits of a manifest that a crash of the machine may leave.
Outcomes == LET m == manifest[CURRENT] IN {SubSeq(m.edits, 1, k) : k \in m.synced..Len(m.edits)}

\* Whatever a crash of the machine leaves of manifest and logs, the tables it
\* needs exist and hold, with the logs, every write that was made durable:
\* DeleteObsoleteFiles never runs ahead of the manifest.
AlwaysRecoverable ==
  CURRENT # 0 =>
    \A edits \in Outcomes :
      LET d == Replay(edits) IN
        /\ \A n \in Numbers(d.files) : n \in DOMAIN table /\ table[n] # {}
        /\ safe \subseteq Found(d, Synced)

\* A database that holds anything can be opened, unless writing a manifest
\* failed half-way and a compaction went on behind it.
OpensAgain ==
  phase = "down" /\ CURRENT > 1 =>
    \/ ~Intact(manifest[CURRENT].edits)
    \/ DiskState.next # 0 /\ \A n \in Numbers(DiskState.files) : n \in DOMAIN table

\* No file of a version that a reader, a compaction or the next read uses is
\* deleted, however flushes, compactions and deletions interleave.
UsedFilesExist ==
  \A n \in Numbers(vset.current) \cup Numbers(comp.base) \cup UNION {Numbers(held[r]) : r \in Readers} :
    n \in DOMAIN table /\ table[n] # {}

\* Of two writes that are there the later has the larger sequence number,
\* across crashes that lose writes and numbers: the newer value wins.
LaterWins ==
  phase = "up" => \A a, b \in Content : a < b => seqOf[a] < seqOf[b]

\* A writer that waits for room gets it, or the background error: no state is
\* left where it waits for work nobody was asked to do.  (MaxFile ends a run.)
WriterServed == wr.pc = "room" ~> (wr.pc # "room" \/ ~HasNumber)

\* The database is the store it promises to be: flushes and compactions change
\* nothing that is read, and what an open finds is what the files held.
Store == INSTANCE DurableStore WITH
  up <- phase = "up", begun <- Len(seqOf), kept <- IF phase = "up" THEN Content ELSE DiskIds
ImplementsStore == Store!Spec

=============================================================================

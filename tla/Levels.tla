------------------------------- MODULE Levels -------------------------------
(***************************************************************************)
(* The tree of leveldb: how entries move from the memtable through the     *)
(* levels (db/version_set.cc, the flush and compaction of db/db_impl.cc),  *)
(* and how Get and an iterator find the entry a snapshot should see.       *)
(*                                                                         *)
(* An entry is its sequence number, hist says its key and whether it       *)
(* deletes it; a file is the set of its entries.  Numbers of level-0 files *)
(* are given in the order of flushes, so the newest file is the one with   *)
(* the largest entry.  Sizes are choices: whatever depends on a number of  *)
(* bytes may turn out either way.                                          *)
(***************************************************************************)
EXTENDS Integers, Sequences, FiniteSets, SequencesExt

CONSTANTS
  Key,                  \* user keys, ordered as numbers
  NumLevels,            \* config::kNumLevels
  MaxMemCompactLevel,   \* config::kMaxMemCompactLevel
  SplitKeys,            \* whether an output may end between two entries of a key
  ManualFiles,          \* files a manual compaction takes before its size limit
  MaxWrites, MaxSnapshots  \* bounds of a run

ASSUME LevelsAssumption ==
  /\ Key \subseteq Nat /\ Key # {}
  /\ NumLevels \in Nat /\ NumLevels > MaxMemCompactLevel /\ MaxMemCompactLevel \in Nat
  /\ SplitKeys \in BOOLEAN
  /\ {ManualFiles, MaxWrites, MaxSnapshots} \subseteq Nat

VARIABLES
  hist,       \* the writes: sequence number -> [key, del]
  mem, imm,   \* mem_ and imm_
  files,      \* the current version: level -> its files
  snapshots,  \* snapshots_
  comp        \* the compaction under way: [on, level, in0, in1, base, snap]

vars == <<hist, mem, imm, files, snapshots, comp>>

Level == 0..(NumLevels - 1)
None == 0
last == Len(hist)           \* versions_->LastSequence()
NoComp == [on |-> FALSE, level |-> 0, in0 |-> {}, in1 |-> {}, base |-> {}, snap |-> 0]

KeyOf(e) == hist[e].key
KeysOf(f) == {KeyOf(e) : e \in f}
FirstKey(f) == Min(KeysOf(f))              \* smallest.user_key()
LastKey(f) == Max(KeysOf(f))               \* largest.user_key()

\* Internal keys: by user key, then the newest first.
Before(d, e) == KeyOf(d) < KeyOf(e) \/ (KeyOf(d) = KeyOf(e) /\ d > e)
Largest(f) == CHOOSE e \in f : \A d \in f : d = e \/ Before(d, e)
Smallest(f) == CHOOSE e \in f : \A d \in f : d = e \/ Before(e, d)

---------------------------------------------------------------------------
(* Reading                                                                 *)

\* The newest entry of key k that snapshot s sees in a set of entries.
Newest(es, k, s) == LET seen == {e \in es : KeyOf(e) = k /\ e <= s}
                    IN  IF seen = {} THEN None ELSE Max(seen)

NewestFirst(fs) == CHOOSE f \in fs : \A g \in fs : Max(f) >= Max(g)

\* Level 0: every file whose range has the key, the newest first.
InLevel0(k, s) ==
  LET hits == {f \in files[0] : Newest(f, k, s) # None}
  IN  IF hits = {} THEN None ELSE Newest(NewestFirst(hits), k, s)

\* FindFile: the first file that does not end before <<k, s>>.
NotBefore(f, k, s) ==
  LET e == Largest(f) IN KeyOf(e) > k \/ (KeyOf(e) = k /\ e <= s)

FindFile(fs, k, s) ==
  LET cands == {f \in fs : NotBefore(f, k, s)}
  IN  IF cands = {} THEN {}
      ELSE CHOOSE f \in cands : \A g \in cands \ {f} : Before(Smallest(f), Smallest(g))

\* One file of each deeper level is looked at.
InLevel(l, k, s) == Newest(FindFile(files[l], k, s), k, s)

\* Where Get looks, in this order: mem_, imm_, level 0 and the deeper levels.
Place == (-2)..(NumLevels - 1)

Hit(i, k, s) ==
  IF i = -2 THEN Newest(mem, k, s)
  ELSE IF i = -1 THEN Newest(imm, k, s)
  ELSE IF i = 0 THEN InLevel0(k, s)
  ELSE InLevel(i, k, s)

\* DBImpl::Get and Version::Get: the first place that has the key decides.
Get(k, s) ==
  LET found == {i \in Place : Hit(i, k, s) # None}
  IN  IF found = {} THEN None ELSE Hit(Min(found), k, s)

Everything == mem \cup imm \cup UNION UNION {files[l] : l \in Level}

Value(e) == IF e = None \/ hist[e].del THEN None ELSE e

---------------------------------------------------------------------------
(* Which files overlap which                                               *)

Overlaps(f, lo, hi) == FirstKey(f) <= hi /\ LastKey(f) >= lo

\* OverlapInLevel
OverlapInLevel(l, lo, hi) == \E f \in files[l] : Overlaps(f, lo, hi)

Hull(fs) == <<Min(KeysOf(UNION fs)), Max(KeysOf(UNION fs))>>

\* GetOverlappingInputs: the files that overlap the range; at level 0 it grows with
\* every file found, and the search starts again, until it has all it overlaps.
GetOverlappingInputs(l, lo, hi) ==
  LET reached(S) == IF l = 0 THEN KeysOf(UNION S) ELSE {}
      closed(S) == \A f \in files[l] :
        (\E a \in {lo} \cup reached(S), b \in {hi} \cup reached(S) : Overlaps(f, a, b)) => f \in S
  IN  {f \in files[l] : \A S \in SUBSET files[l] : closed(S) => f \in S}

OverlappingFiles(l, fs) == LET h == Hull(fs) IN GetOverlappingInputs(l, h[1], h[2])

\* SetupOtherInputs: the inputs <<level, level + 1>>, and the larger choice if
\* it brings in no more files of level + 1 (and is small enough).
SetupOtherInputs(l, in0) ==
  LET in1 == OverlappingFiles(l + 1, in0)
      more0 == OverlappingFiles(l, in0 \cup in1)
      more1 == OverlappingFiles(l + 1, more0)
  IN  {<<in0, in1>>} \cup
      (IF in1 # {} /\ Cardinality(more0) > Cardinality(in0) /\ Cardinality(more1) = Cardinality(in1)
       THEN {<<more0, more1>>} ELSE {})

---------------------------------------------------------------------------
Init ==
  /\ hist = << >> /\ mem = {} /\ imm = {} /\ snapshots = {} /\ comp = NoComp
  /\ files = [l \in Level |-> {}]

\* DBImpl::Write of one update, with room in the memtable.
Write(k, del) ==
  /\ last < MaxWrites
  /\ hist' = Append(hist, [key |-> k, del |-> del])
  /\ mem' = mem \cup {last + 1}
  /\ UNCHANGED <<imm, files, snapshots, comp>>

\* MakeRoomForWrite: the memtable is full, the old one is flushed.
SwitchMemTable ==
  /\ mem # {} /\ imm = {}
  /\ imm' = mem /\ mem' = {}
  /\ UNCHANGED <<hist, files, snapshots, comp>>

GetSnapshot ==
  /\ Cardinality(snapshots \cup {last}) <= MaxSnapshots /\ last \notin snapshots
  /\ snapshots' = snapshots \cup {last}
  /\ UNCHANGED <<hist, mem, imm, files, comp>>

ReleaseSnapshot(s) ==
  /\ snapshots' = snapshots \ {s}
  /\ UNCHANGED <<hist, mem, imm, files, comp>>

(* Variant, never a step: the memtable's table goes below files it overlaps. *)
PickLevelBlindly(lo, hi) == 0..MaxMemCompactLevel

\* PickLevelForMemTableOutput: as deep as nothing is overlapped on the way;
\* many bytes of a grandparent may stop it earlier.
PickLevelForMemTableOutput(lo, hi) ==
  {l \in 0..MaxMemCompactLevel :
     /\ l > 0 => \A i \in 0..l : ~OverlapInLevel(i, lo, hi)
     /\ \/ l = MaxMemCompactLevel
        \/ l = 0 /\ OverlapInLevel(0, lo, hi)
        \/ OverlapInLevel(l + 1, lo, hi)
        \/ l + 2 \in Level /\ OverlapInLevel(l + 2, lo, hi)}

\* CompactMemTable: by the background thread, also in the middle of a
\* compaction.  Nothing else changes the version meanwhile.
Flush ==
  /\ imm # {}
  /\ \E l \in PickLevelForMemTableOutput(FirstKey(imm), LastKey(imm)) :
       files' = [files EXCEPT ![l] = @ \cup {imm}]
  /\ imm' = {}
  /\ UNCHANGED <<hist, mem, snapshots, comp>>

\* The files PickCompaction starts from: one, at level 0 with what it overlaps.
Picked(l) == {IF l = 0 THEN OverlappingFiles(0, {f}) ELSE {f} : f \in files[l]}

\* CompactRange: files in a row; below level 0 no more than the size limit.
Manual(l) ==
  LET found == {GetOverlappingInputs(l, lo, hi) : lo \in Key, hi \in Key}
      cut(fs) == {S \in SUBSET fs :
                    /\ S # {} /\ Cardinality(S) <= ManualFiles
                    /\ \A f \in S, g \in fs \ S : Before(Smallest(f), Smallest(g))}
  IN  IF ManualFiles = 0 THEN {}
      ELSE IF l = 0 THEN found \ {{}} ELSE UNION {cut(fs) : fs \in found}

\* BackgroundCompaction: the memtable comes first.
MayCompact == ~comp.on /\ imm = {}

\* A compaction fixes its inputs, its version and the oldest snapshot.
CompactStart(l) ==
  /\ MayCompact
  /\ \E in0 \in Picked(l) \cup Manual(l) : \E in \in SetupOtherInputs(l, in0) :
       comp' = [on |-> TRUE, level |-> l, in0 |-> in[1], in1 |-> in[2],
                base |-> UNION {files[i] : i \in {j \in Level : j >= l + 2}},
                snap |-> IF snapshots = {} THEN last ELSE Min(snapshots)]
  /\ UNCHANGED <<hist, mem, imm, files, snapshots>>

(* Variant, never a step: the file is added below, and not deleted above. *)
MoveKeepsFile(l) ==
  /\ MayCompact
  /\ \E in0 \in Picked(l) : \E in \in SetupOtherInputs(l, in0) :
       /\ Cardinality(in[1]) = 1 /\ in[2] = {}
       /\ files' = [files EXCEPT ![l + 1] = @ \cup in[1]]
  /\ UNCHANGED <<hist, mem, imm, snapshots, comp>>

\* A compaction of one file that overlaps nothing below just moves it.
TrivialMove(l) ==
  /\ MayCompact
  /\ \E in0 \in Picked(l) : \E in \in SetupOtherInputs(l, in0) :
       /\ Cardinality(in[1]) = 1 /\ in[2] = {}
       /\ files' = [files EXCEPT ![l] = @ \ in[1], ![l + 1] = @ \cup in[1]]
  /\ UNCHANGED <<hist, mem, imm, snapshots, comp>>

(* Variant, never a step: deletions are dropped although older entries lie deeper. *)
BaseLevelAlways(k) == TRUE

\* IsBaseLevelForKey: no file two or more levels down has the key in its range.
IsBaseLevelForKey(k) == \A f \in comp.base : ~(FirstKey(f) <= k /\ k <= LastKey(f))

\* Rule (A): a newer entry of the key is old enough for every snapshot.
Shadowed(e, inputs) ==
  LET newer == {d \in inputs : KeyOf(d) = KeyOf(e) /\ d > e}
  IN  newer # {} /\ Min(newer) <= comp.snap

\* Rule (B): the deletion hides nothing that is left.
Obsolete(e) == hist[e].del /\ e <= comp.snap /\ IsBaseLevelForKey(KeyOf(e))

Kept(inputs) == {e \in inputs : ~Shadowed(e, inputs) /\ ~Obsolete(e)}

\* An output file ends where it is long enough, or would overlap too many
\* grandparents: C is the set of entries that end a file.
MayEnd(e, kept) == SplitKeys \/ \A d \in kept : KeyOf(d) = KeyOf(e) => d >= e

Outputs(kept) ==
  {{{e \in kept : \A c \in C : Before(c, e) <=> Before(c, f)} : f \in kept} :
     C \in SUBSET {e \in kept : MayEnd(e, kept)}}

\* DoCompactionWork and InstallCompactionResults, against the version as a
\* flush may have left it.
CompactDone ==
  /\ comp.on
  /\ \E out \in Outputs(Kept(UNION (comp.in0 \cup comp.in1))) :
       files' = [files EXCEPT ![comp.level] = @ \ comp.in0,
                              ![comp.level + 1] = (@ \ comp.in1) \cup out]
  /\ comp' = NoComp
  /\ UNCHANGED <<hist, mem, imm, snapshots>>

Next ==
  \/ \E k \in Key, del \in BOOLEAN : Write(k, del)
  \/ SwitchMemTable \/ Flush
  \/ GetSnapshot \/ \E s \in snapshots : ReleaseSnapshot(s)
  \/ \E l \in 0..(NumLevels - 2) : CompactStart(l) \/ TrivialMove(l)
  \/ CompactDone

Spec == Init /\ [][Next]_vars

---------------------------------------------------------------------------
(* Properties                                                              *)

\* Every variable is of its type; every entry is in one place.
TypeOK ==
  /\ hist \in Seq([key : Key, del : BOOLEAN])
  /\ files \in [Level -> SUBSET ((SUBSET (1..last)) \ {{}})]
  /\ mem \subseteq 1..last /\ imm \subseteq 1..last /\ mem \cap imm = {}
  /\ snapshots \subseteq 0..last
  /\ \A l, m \in Level : \A f \in files[l], g \in files[m] :
       (l # m \/ f # g) => f \cap g = {}
  /\ \A l \in Level : \A f \in files[l] : f \cap (mem \cup imm) = {}

\* Files of a level below 0 do not overlap (the assertion of MaybeAddFile and
\* SaveTo), whatever is flushed while a compaction runs.
LevelsDisjoint ==
  \A l \in Level \ {0} : \A f, g \in files[l] : f # g => ~Overlaps(f, FirstKey(g), LastKey(g))

\* Of two entries of a key in different levels the newer is in the level with
\* the smaller number (db_impl.cc 961-967 relies on it).
NewerAbove ==
  \A l, m \in Level : l < m =>
    \A e \in UNION files[l], d \in UNION files[m] : KeyOf(d) = KeyOf(e) => e > d

\* What a search by level and a binary search within a level stand on, kept by
\* every flush, compaction and move.
LevelsOrdered == LevelsDisjoint /\ NewerAbove

\* Searching level by level finds what merging everything finds (the comment
\* at version_set.cc 346-348), for every snapshot somebody holds.
SearchByLevelIsEnough ==
  \A k \in Key, s \in snapshots \cup {last} :
    Value(Get(k, s)) = Value(Newest(Everything, k, s))

\* Flushes, compactions and moves change nothing that is read: Get and an
\* iterator give every snapshot somebody holds, and a read without one, the
\* last write of the key that it covers.
ReadsRight ==
  \A k \in Key, s \in snapshots \cup {last} :
    LET right == Value(Newest(1..last, k, s))
    IN  Value(Get(k, s)) = right /\ Value(Newest(Everything, k, s)) = right

=============================================================================

----------------------------- MODULE Iterators -----------------------------
(***************************************************************************)
(* The iterators of leveldb as a user's cursor moves them: DBIter          *)
(* (db/db_iter.cc) over MergingIterator (table/merger.cc) over a memtable  *)
(* and a TwoLevelIterator (table/two_level_iterator.cc).  An entry is its  *)
(* place in the order of internal keys; a loop of DBIter is one step for   *)
(* each entry it looks at.                                                 *)
(***************************************************************************)
EXTENDS Integers, Sequences, FiniteSets, SequencesExt

CONSTANTS
  IterKey,     \* user keys, ordered as numbers
  IterWrites   \* how many entries there are

ASSUME IterAssumption == IterKey \subseteq Nat \ {0} /\ IterKey # {} /\ IterWrites \in Nat

VARIABLES
  db,      \* what is read: [ents, mem, blocks, long, snap]
  merge,   \* MergingIterator: [st, cur, dir]
  cursor,  \* DBIter: [pc, dir, valid, saved, value, type, skipping]
  want     \* history: the key the cursor should be at, 0 if at none

iterVars == <<db, merge, cursor, want>>

Entry == 1..IterWrites
Nowhere == [index |-> 0, at |-> 0]      \* a child that is not Valid()
KeyAt(i) == db.ents[i].key

---------------------------------------------------------------------------
(* TwoLevelIterator, child 2: an index over blocks (or files).  The index  *)
(* key of a block is its last entry, or a separator after it.              *)

\* Where a key falls between entries: entry i is at 2i.
AtOrAfter(S, t) == LET after == {i \in S : 2 * i >= t} IN IF after = {} THEN 0 ELSE Min(after)

FirstOf(S) == IF S = {} THEN 0 ELSE Min(S)
LastOf(S) == IF S = {} THEN 0 ELSE Max(S)

Block == DOMAIN db.blocks
UpTo(j) == UNION {db.blocks[i] : i \in 1..j}
IndexKey(j) == 2 * LastOf(UpTo(j)) + (IF db.long THEN 1 ELSE 0)

\* SkipEmptyDataBlocksForward
SkipForward(s) ==
  LET later == {j \in Block : j > s.index /\ db.blocks[j] # {}}
  IN  IF s.at # 0 THEN s
      ELSE IF s.index = 0 \/ later = {} THEN Nowhere
      ELSE [index |-> Min(later), at |-> FirstOf(db.blocks[Min(later)])]

\* SkipEmptyDataBlocksBackward
SkipBackward(s) ==
  LET earlier == {j \in Block : j < s.index /\ db.blocks[j] # {}}
  IN  IF s.at # 0 THEN s
      ELSE IF earlier = {} THEN Nowhere
      ELSE [index |-> Max(earlier), at |-> LastOf(db.blocks[Max(earlier)])]

TwoLevelSeek(t) ==
  LET blocks == {j \in Block : IndexKey(j) >= t}
  IN  IF blocks = {} THEN Nowhere
      ELSE SkipForward([index |-> Min(blocks), at |-> AtOrAfter(db.blocks[Min(blocks)], t)])

---------------------------------------------------------------------------
(* The children of the merge: 1 is a memtable, 2 the blocks.               *)

InMem(i) == [index |-> 0, at |-> i]

ChildSeek(c, t) == IF c = 1 THEN InMem(AtOrAfter(db.mem, t)) ELSE TwoLevelSeek(t)

ChildFirst(c) ==
  IF c = 1 THEN InMem(FirstOf(db.mem))
  ELSE SkipForward([index |-> 1, at |-> FirstOf(db.blocks[1])])

ChildLast(c) ==
  IF c = 1 THEN InMem(LastOf(db.mem))
  ELSE LET b == Len(db.blocks) IN SkipBackward([index |-> b, at |-> LastOf(db.blocks[b])])

ChildNext(c, s) ==
  IF c = 1 THEN InMem(FirstOf({i \in db.mem : i > s.at}))
  ELSE SkipForward([s EXCEPT !.at = FirstOf({i \in db.blocks[s.index] : i > s.at})])

ChildPrev(c, s) ==
  IF c = 1 THEN InMem(LastOf({i \in db.mem : i < s.at}))
  ELSE SkipBackward([s EXCEPT !.at = LastOf({i \in db.blocks[s.index] : i < s.at})])

---------------------------------------------------------------------------
(* MergingIterator                                                         *)

Child == {1, 2}
Other(c) == 3 - c
ValidChildren(st) == {c \in Child : st[c].at # 0}

FindSmallest(st) ==
  IF ValidChildren(st) = {} THEN 0
  ELSE CHOOSE c \in ValidChildren(st) : \A d \in ValidChildren(st) : st[c].at <= st[d].at

FindLargest(st) ==
  IF ValidChildren(st) = {} THEN 0
  ELSE CHOOSE c \in ValidChildren(st) : \A d \in ValidChildren(st) : st[c].at >= st[d].at

Forwards(st) == [st |-> st, cur |-> FindSmallest(st), dir |-> "forward"]
Backwards(st) == [st |-> st, cur |-> FindLargest(st), dir |-> "reverse"]

At(m) == m.st[m.cur].at          \* the entry key() is about
IsValid(m) == m.cur # 0

MergeFirst == Forwards([c \in Child |-> ChildFirst(c)])
MergeLast == Backwards([c \in Child |-> ChildLast(c)])
MergeSeek(t) == Forwards([c \in Child |-> ChildSeek(c, t)])

\* Next after Prev: every other child goes to the first entry after key().
\* (No entry is in two children, so none is at key() itself.)
TurnedForward(m) ==
  IF m.dir = "forward" THEN m.st
  ELSE [m.st EXCEPT ![Other(m.cur)] = ChildSeek(Other(m.cur), 2 * At(m))]

MergeNext(m) ==
  LET st == TurnedForward(m) IN Forwards([st EXCEPT ![m.cur] = ChildNext(m.cur, st[m.cur])])

(* Variant, never a step: a child with nothing after key() is left invalid. *)
TurnedHalf(m) ==
  IF m.dir = "reverse" THEN m.st
  ELSE LET c == Other(m.cur)
           s == ChildSeek(c, 2 * At(m))
       IN  [m.st EXCEPT ![c] = IF s.at # 0 THEN ChildPrev(c, s) ELSE s]

\* Prev after Next: every other child goes to the last entry before key().
TurnedBackward(m) ==
  IF m.dir = "reverse" THEN m.st
  ELSE LET c == Other(m.cur)
           s == ChildSeek(c, 2 * At(m))
       IN  [m.st EXCEPT ![c] = IF s.at # 0 THEN ChildPrev(c, s) ELSE ChildLast(c)]

MergePrev(m) ==
  LET st == TurnedBackward(m) IN Backwards([st EXCEPT ![m.cur] = ChildPrev(m.cur, st[m.cur])])

---------------------------------------------------------------------------
(* What the cursor should show: the newest entry of every key that the     *)
(* snapshot sees, unless it is a deletion.                                 *)

NewestEntry(k) == FirstOf({i \in Entry : KeyAt(i) = k /\ db.ents[i].seq <= db.snap})
Shown == {k \in IterKey : NewestEntry(k) # 0 /\ ~db.ents[NewestEntry(k)].del}

---------------------------------------------------------------------------
(* DBIter                                                                  *)

Sees(i) == db.ents[i].seq <= db.snap

Still == [pc |-> "idle", dir |-> "forward", valid |-> FALSE, saved |-> 0, value |-> 0,
          type |-> "deletion", skipping |-> FALSE]

\* Internal keys: a key's entries are one after the other, the newest first.
Sorted(e) == \A i, j \in Entry : i < j =>
  \/ e[i].key < e[j].key
  \/ e[i].key = e[j].key /\ e[i].seq > e[j].seq

Histories == {e \in [Entry -> [key : IterKey, seq : Entry, del : BOOLEAN]] :
                /\ Sorted(e)
                /\ \A i, j \in Entry : i # j => e[i].seq # e[j].seq}

IterRest(d) ==
  /\ db = d
  /\ merge = [st |-> [c \in Child |-> Nowhere], cur |-> 0, dir |-> "forward"]
  /\ cursor = Still /\ want = 0

\* An entry may be in the memtable or in either of two blocks, of which one
\* may turn out empty (its file cannot be read).
IterInit ==
  \E e \in Histories, mems \in SUBSET Entry, cut \in 0..IterWrites, long \in BOOLEAN, s \in Entry :
    IterRest([ents |-> e, mem |-> mems, long |-> long, snap |-> s,
              blocks |-> <<{i \in Entry \ mems : i <= cut}, {i \in Entry \ mems : i > cut}>>])

Done(c, valid) == [c EXCEPT !.pc = "idle", !.valid = valid]
Lost(c) == [Done(c, FALSE) EXCEPT !.saved = 0]

\* FindNextUserEntry, or the end if the internal iterator is there.
Forward(c, m, skipping) ==
  /\ merge' = m
  /\ cursor' = IF IsValid(m) THEN [c EXCEPT !.pc = "next", !.dir = "forward", !.skipping = skipping]
               ELSE [Lost(c) EXCEPT !.dir = "forward"]

SeekTarget(k) ==
  LET before == {i \in Entry : KeyAt(i) < k \/ (KeyAt(i) = k /\ ~Sees(i))}
  IN  2 * LastOf(before) + 1

IterSeek(k) ==
  /\ cursor.pc = "idle"
  /\ want' = FirstOf({v \in Shown : v >= k})
  /\ Forward([cursor EXCEPT !.saved = 0], MergeSeek(SeekTarget(k)), FALSE)
  /\ UNCHANGED db

IterSeekToFirst ==
  /\ cursor.pc = "idle"
  /\ want' = FirstOf(Shown)
  /\ Forward(cursor, MergeFirst, FALSE)
  /\ UNCHANGED db

IterSeekToLast ==
  /\ cursor.pc = "idle"
  /\ want' = LastOf(Shown)
  /\ merge' = MergeLast
  /\ cursor' = [cursor EXCEPT !.pc = "prev", !.dir = "reverse", !.type = "deletion"]
  /\ UNCHANGED db

\* Next: going back, the internal iterator is before the entries of key().
CursorNext ==
  /\ cursor.pc = "idle" /\ cursor.valid
  /\ want' = FirstOf({v \in Shown : v > want})
  /\ IF cursor.dir = "reverse"
     THEN Forward(cursor, IF IsValid(merge) THEN MergeNext(merge) ELSE MergeFirst, TRUE)
     ELSE Forward([cursor EXCEPT !.saved = KeyAt(At(merge))], merge, TRUE)
  /\ UNCHANGED db

\* One round of the loop of FindNextUserEntry.
CursorNextStep ==
  /\ cursor.pc = "next"
  /\ LET i == At(merge)
         hidden == cursor.skipping /\ KeyAt(i) <= cursor.saved
         c == IF Sees(i) /\ db.ents[i].del
              THEN [cursor EXCEPT !.saved = KeyAt(i), !.skipping = TRUE] ELSE cursor
         m == MergeNext(merge)
     IN  IF Sees(i) /\ ~db.ents[i].del /\ ~hidden
         THEN cursor' = [Done(cursor, TRUE) EXCEPT !.saved = 0] /\ UNCHANGED merge
         ELSE merge' = m /\ cursor' = IF IsValid(m) THEN c ELSE Lost(c)
  /\ UNCHANGED <<db, want>>

\* Prev: going forward, the internal iterator first leaves the key's entries.
CursorPrev ==
  /\ cursor.pc = "idle" /\ cursor.valid
  /\ want' = LastOf({v \in Shown : v < want})
  /\ cursor' = IF cursor.dir = "forward"
               THEN [cursor EXCEPT !.pc = "turn", !.saved = KeyAt(At(merge))]
               ELSE [cursor EXCEPT !.pc = "prev", !.type = "deletion"]
  /\ UNCHANGED <<db, merge>>

CursorTurnStep ==
  /\ cursor.pc = "turn"
  /\ LET m == MergePrev(merge) IN
       /\ merge' = m
       /\ cursor' = IF ~IsValid(m) THEN Lost(cursor)
                    ELSE IF KeyAt(At(m)) < cursor.saved
                    THEN [cursor EXCEPT !.pc = "prev", !.dir = "reverse", !.type = "deletion"]
                    ELSE cursor
  /\ UNCHANGED <<db, want>>

\* The end of FindPrevUserEntry.
PrevEnds(c) == IF c.type = "deletion" THEN [Lost(c) EXCEPT !.dir = "forward"] ELSE Done(c, TRUE)

\* One round of the loop of FindPrevUserEntry.
CursorPrevStep ==
  /\ cursor.pc = "prev"
  /\ IF ~IsValid(merge) THEN cursor' = PrevEnds(cursor) /\ UNCHANGED merge
     ELSE LET i == At(merge)
              m == MergePrev(merge)
              c == IF ~Sees(i) THEN cursor
                   ELSE IF db.ents[i].del THEN [cursor EXCEPT !.type = "deletion", !.saved = 0]
                   ELSE [cursor EXCEPT !.type = "value", !.saved = KeyAt(i), !.value = i]
          IN  IF Sees(i) /\ cursor.type # "deletion" /\ KeyAt(i) < cursor.saved
              THEN cursor' = PrevEnds(cursor) /\ UNCHANGED merge
              ELSE merge' = m /\ cursor' = IF IsValid(m) THEN c ELSE PrevEnds(c)
  /\ UNCHANGED <<db, want>>

IterNext ==
  \/ \E k \in IterKey : IterSeek(k)
  \/ IterSeekToFirst \/ IterSeekToLast
  \/ CursorNext \/ CursorNextStep \/ CursorPrev \/ CursorTurnStep \/ CursorPrevStep

---------------------------------------------------------------------------
(* Properties                                                              *)

ShownKey == IF cursor.dir = "forward" THEN KeyAt(At(merge)) ELSE cursor.saved
ShownEntry == IF cursor.dir = "forward" THEN At(merge) ELSE cursor.value

\* After any sequence of seeks and steps in either direction the cursor is at
\* the key it should be at, with the value the snapshot sees.
CursorRight ==
  cursor.pc = "idle" =>
    /\ cursor.valid <=> want # 0
    /\ cursor.valid => ShownKey = want /\ ShownEntry = NewestEntry(want)

=============================================================================

----------------------------- MODULE TableCache -----------------------------
(***************************************************************************)
(* leveldb's LRUCache (util/cache.cc) as TableCache (db/table_cache.cc)    *)
(* uses it: a reader that misses opens the file outside the cache's lock,  *)
(* so that several may open, and insert, the same file.  Every operation   *)
(* of the cache holds its lock and is one step.  One shard is modelled.    *)
(***************************************************************************)
EXTENDS Integers, Sequences, FiniteSets, SequencesExt

CONSTANTS
  CacheReader,     \* threads that use tables
  CacheFile,       \* table files, the keys of the cache
  CacheCapacity,   \* of the shard
  CacheCharge,     \* what an entry may be charged
  MaxInserts       \* bound: entries made

ASSUME CacheAssumption ==
  /\ CacheCapacity \in Nat \ {0} /\ CacheCharge \subseteq Nat \ {0}
  /\ IsFiniteSet(CacheReader) /\ MaxInserts \in Nat

VARIABLES
  entry,   \* the LRUHandles made so far: [key, charge, refs, inCache, freed]
  table,   \* HandleTable: the entry of a file, 0 if none
  lru,     \* the LRU list, the oldest first; the rest of the cache is in use
  usage,   \* usage_
  lookup   \* the readers: [pc, file, handle]

cacheVars == <<entry, table, lru, usage, lookup>>

NoLookup == [pc |-> "idle", file |-> CHOOSE f \in CacheFile : TRUE, handle |-> 0]

CacheInit ==
  /\ entry = <<>> /\ lru = <<>> /\ usage = 0
  /\ table = [f \in CacheFile |-> 0]
  /\ lookup = [r \in CacheReader |-> NoLookup]

---------------------------------------------------------------------------
(* The cache as a value [entry, table, lru, usage].                        *)

Cache == [entry |-> entry, table |-> table, lru |-> lru, usage |-> usage]

Becomes(c) == entry' = c.entry /\ table' = c.table /\ lru' = c.lru /\ usage' = c.usage

Ref(c, h) ==
  [c EXCEPT !.entry[h].refs = @ + 1,
            !.lru = IF c.entry[h].refs = 1 /\ c.entry[h].inCache THEN RemoveFirst(@, h) ELSE @]

Unref(c, h) ==
  LET refs == c.entry[h].refs - 1
  IN  [c EXCEPT !.entry[h] = [@ EXCEPT !.refs = refs, !.freed = refs = 0],
                !.lru = IF c.entry[h].inCache /\ refs = 1 THEN Append(@, h) ELSE @]

(* Variant, never a step: what leaves the cache is freed, in use or not. *)
FinishEraseFrees(c, h) ==
  [c EXCEPT !.entry[h].inCache = FALSE, !.entry[h].freed = TRUE, !.lru = RemoveFirst(@, h),
            !.usage = @ - c.entry[h].charge]

\* h has left the table already.
FinishErase(c, h) ==
  Unref([c EXCEPT !.lru = RemoveFirst(@, h), !.entry[h].inCache = FALSE,
                  !.usage = @ - c.entry[h].charge], h)

EraseKey(c, f) ==
  IF c.table[f] = 0 THEN c ELSE FinishErase([c EXCEPT !.table[f] = 0], c.table[f])

\* While usage is above the limit, the oldest on the LRU list leaves.
Trimmed(c, limit) ==
  LET left[n \in 0..Len(c.lru)] ==
        IF n = 0 THEN c
        ELSE LET d == left[n - 1]
             IN  IF d.usage > limit /\ d.lru # << >> THEN EraseKey(d, d.entry[Head(d.lru)].key) ELSE d
  IN  left[Len(c.lru)]

Insert(c, f, charge) ==
  LET h == Len(c.entry) + 1
      e == [key |-> f, charge |-> charge, refs |-> 2, inCache |-> TRUE, freed |-> FALSE]
      added == [c EXCEPT !.entry = Append(@, e), !.usage = @ + charge, !.table[f] = h]
      single == IF c.table[f] = 0 THEN added ELSE FinishErase(added, c.table[f])
  IN  Trimmed(single, CacheCapacity)

---------------------------------------------------------------------------
(* The readers                                                             *)

\* FindTable: a hit is in use at once.
FindTable(r, f) ==
  /\ lookup[r].pc = "idle"
  /\ IF table[f] # 0
     THEN /\ Becomes(Ref(Cache, table[f]))
          /\ lookup' = [lookup EXCEPT ![r] = [pc |-> "using", file |-> f, handle |-> table[f]]]
     ELSE /\ lookup' = [lookup EXCEPT ![r] = [pc |-> "opening", file |-> f, handle |-> 0]]
          /\ UNCHANGED <<entry, table, lru, usage>>

\* The file is open, by now perhaps a second time.
OpenTable(r, charge) ==
  /\ lookup[r].pc = "opening" /\ Len(entry) < MaxInserts
  /\ Becomes(Insert(Cache, lookup[r].file, charge))
  /\ lookup' = [lookup EXCEPT ![r].pc = "using", ![r].handle = Len(entry) + 1]

OpenFails(r) ==
  /\ lookup[r].pc = "opening"
  /\ lookup' = [lookup EXCEPT ![r] = NoLookup]
  /\ UNCHANGED <<entry, table, lru, usage>>

\* The end of Get, or of the life of an iterator (UnrefEntry).
ReleaseTable(r) ==
  /\ lookup[r].pc = "using"
  /\ Becomes(Unref(Cache, lookup[r].handle))
  /\ lookup' = [lookup EXCEPT ![r] = NoLookup]

Evict(f) == Becomes(EraseKey(Cache, f)) /\ UNCHANGED lookup

\* Nothing that is not in use stays, whatever the usage.
Prune == Becomes(Trimmed(Cache, -1)) /\ UNCHANGED lookup

CacheNext ==
  \/ \E r \in CacheReader, f \in CacheFile : FindTable(r, f)
  \/ \E r \in CacheReader, charge \in CacheCharge : OpenTable(r, charge)
  \/ \E r \in CacheReader : OpenFails(r) \/ ReleaseTable(r)
  \/ \E f \in CacheFile : Evict(f)
  \/ Prune

CacheSpec == CacheInit /\ [][CacheNext]_cacheVars

---------------------------------------------------------------------------
(* Properties                                                              *)

Made == DOMAIN entry
Users(h) == {r \in CacheReader : lookup[r].pc = "using" /\ lookup[r].handle = h}
InTable(h) == table[entry[h].key] = h

\* What the tables are charged that the cache can find.
Charged ==
  LET sum[n \in 0..Len(entry)] ==
        IF n = 0 THEN 0 ELSE sum[n - 1] + (IF InTable(n) THEN entry[n].charge ELSE 0)
  IN  sum[Len(entry)]

\* A table is freed when, and only when, nobody uses it and the cache has let
\* go of it, even if it was opened twice or evicted while in use; the charge is
\* that of the tables the cache can find, of which those nobody uses, and only
\* those, wait on the LRU list to be dropped.
TablesKept ==
  /\ \A h \in Made : entry[h].freed <=> Users(h) = {} /\ ~InTable(h)
  /\ usage = Charged
  /\ ToSet(lru) = {h \in Made : InTable(h) /\ Users(h) = {}} /\ IsInjective(lru)
  /\ \A r \in CacheReader :
       lookup[r].pc = "using" => entry[lookup[r].handle].key = lookup[r].file

=============================================================================

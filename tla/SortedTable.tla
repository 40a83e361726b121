---------------------------- MODULE SortedTable ----------------------------
(***************************************************************************)
(* A table file of leveldb: TableBuilder (table/table_builder.cc) cuts a   *)
(* sorted run of entries into blocks of prefix-compressed keys             *)
(* (block_builder.cc), indexes them by shortened keys (util/comparator.cc, *)
(* db/dbformat.cc) and adds a filter for each stretch of the file          *)
(* (filter_block.cc); Table (table.cc) and Block::Iter (block.cc) read it. *)
(* A key is its bytes and, last, its sequence number.                      *)
(***************************************************************************)
EXTENDS Integers, Sequences, FiniteSets, SequencesExt

CONSTANTS
  UserKeys,      \* user keys, sequences over 0..MaxByte
  MaxByte,       \* the byte 0xff
  Sequence,      \* sequence numbers; no key is newer than 1 + their maximum
  Interval,      \* block_restart_interval of the data blocks
  FilterBase,    \* kFilterBase, in the unit of MaxBlockBytes
  MaxBlockBytes, \* the most a block takes in the file
  MaxEntries     \* bound: entries of a table

ASSUME TableAssumption ==
  /\ MaxByte \in Nat /\ Interval \in Nat \ {0} /\ FilterBase \in Nat \ {0}
  /\ MaxBlockBytes \in Nat \ {0} /\ MaxEntries \in Nat
  /\ UserKeys \subseteq Seq(0..MaxByte) /\ Sequence \subseteq Nat /\ Sequence # {}

VARIABLES
  made,    \* the keys added so far
  build,   \* TableBuilder: [data, index, blocks, offset, pending, filters, keys, closed]
  place    \* an iterator over a block of the finished table: [block, at, ri, key]

tableVars == <<made, build, place>>

---------------------------------------------------------------------------
(* Keys                                                                    *)

User(k) == SubSeq(k, 1, Len(k) - 1)          \* ExtractUserKey
InternalKeys == {Append(u, s) : u \in UserKeys, s \in Sequence}
MaxSequence == Max(Sequence) + 1             \* kMaxSequenceNumber

Common(a, b) ==
  Max({n \in 0..Min({Len(a), Len(b)}) : SubSeq(a, 1, n) = SubSeq(b, 1, n)})

BytesLess(a, b) ==
  LET n == Common(a, b) IN n < Len(b) /\ (n < Len(a) => a[n + 1] < b[n + 1])

KeyLess(a, b) ==
  IF User(a) = User(b) THEN a[Len(a)] > b[Len(b)] ELSE BytesLess(User(a), User(b))

\* BytewiseComparatorImpl
ShortestSeparator(start, limit) ==
  LET n == Common(start, limit) IN
  IF n < Len(start) /\ n < Len(limit) /\ start[n + 1] < MaxByte /\ start[n + 1] + 1 < limit[n + 1]
  THEN Append(SubSeq(start, 1, n), start[n + 1] + 1) ELSE start

ShortSuccessor(key) ==
  LET low == {i \in DOMAIN key : key[i] # MaxByte} IN
  IF low = {} THEN key
  ELSE Append(SubSeq(key, 1, Min(low) - 1), key[Min(low)] + 1)

\* InternalKeyComparator: a shortened user key gets the earliest number.
Shortened(key, short) ==
  IF Len(short) < Len(User(key)) /\ BytesLess(User(key), short)
  THEN Append(short, MaxSequence) ELSE key

---------------------------------------------------------------------------
(* BlockBuilder: entries [shared, delta], restarts as places among them.   *)

EmptyBlock == [entries |-> <<>>, restarts |-> <<1>>, counter |-> 0, last |-> <<>>]

BlockAdd(b, key, interval) ==
  LET restart == b.counter >= interval
      shared == IF restart THEN 0 ELSE Common(b.last, key)
  IN  [entries |-> Append(b.entries, [shared |-> shared,
                                      delta |-> SubSeq(key, shared + 1, Len(key))]),
       restarts |-> IF restart THEN Append(b.restarts, Len(b.entries) + 1) ELSE b.restarts,
       counter |-> IF restart THEN 1 ELSE b.counter + 1, last |-> key]

---------------------------------------------------------------------------
(* Block::Iter: a place [at, ri, key]; at is past the entries if invalid.  *)

Decode(key, e) == SubSeq(key, 1, e.shared) \o e.delta

\* ParseNextKey from a restart point to entry i.
KeyFrom(b, restart, i) ==
  FoldLeft(LAMBDA key, e : Decode(key, e), <<>>, SubSeq(b.entries, b.restarts[restart], i))

Ended(b) == [at |-> Len(b.entries) + 1, ri |-> Len(b.restarts) + 1, key |-> <<>>]

\* At entry i, having come from restart point ri.
Parsed(b, ri, i, key) ==
  IF i > Len(b.entries) THEN Ended(b)
  ELSE [at |-> i, key |-> key,
        ri |-> Max({ri} \cup {j \in DOMAIN b.restarts : b.restarts[j] < i})]

ParsedFrom(b, ri, i) == Parsed(b, ri, i, KeyFrom(b, ri, i))

\* The search among the restart points, then along the entries.
BlockSeek(b, target) ==
  LET low == {j \in DOMAIN b.restarts : b.entries # <<>> /\
                KeyLess(b.entries[b.restarts[j]].delta, target)}
      ri == Max({1} \cup low)
      after == {i \in b.restarts[ri]..Len(b.entries) : ~KeyLess(KeyFrom(b, ri, i), target)}
  IN  IF after = {} THEN Ended(b) ELSE ParsedFrom(b, ri, Min(after))

BlockFirst(b) == ParsedFrom(b, 1, 1)
BlockLast(b) == ParsedFrom(b, Len(b.restarts), Len(b.entries))

BlockNext(b, p) ==
  IF p.at = Len(b.entries) THEN Ended(b)
  ELSE Parsed(b, p.ri, p.at + 1, Decode(p.key, b.entries[p.at + 1]))

\* Back to a restart point before the entry, and forward again.
BlockPrev(b, p) ==
  LET before == {j \in 1..p.ri : b.restarts[j] < p.at} IN
  IF before = {} THEN Ended(b) ELSE ParsedFrom(b, Max(before), p.at - 1)

---------------------------------------------------------------------------
(* FilterBlockBuilder; a filter is the set of user keys it was made of, so *)
(* that it has no false matches, the hardest case for its placing.         *)

(* Variant, never a step: a filter for each block. *)
FilterPerBlock(b, offset) == [b EXCEPT !.filters = Append(@, b.keys), !.keys = {}]

\* StartBlock: a filter for each stretch of the file before offset.
FiltersUpTo(b, offset) ==
  LET n == offset \div FilterBase IN
  IF n <= Len(b.filters) THEN b
  ELSE [b EXCEPT !.keys = {},
                 !.filters = @ \o <<b.keys>> \o [i \in 1..(n - Len(b.filters) - 1) |-> {}]]

FiltersFinished(b) ==
  IF b.keys = {} THEN b ELSE [b EXCEPT !.filters = Append(@, b.keys), !.keys = {}]

KeyMayMatch(offset, key) ==
  LET i == 1 + offset \div FilterBase IN
  i \in DOMAIN build.filters => User(key) \in build.filters[i]

---------------------------------------------------------------------------
(* TableBuilder                                                            *)

TableInit ==
  /\ made = <<>>
  /\ build = [data |-> EmptyBlock, index |-> EmptyBlock, blocks |-> <<>>, offset |-> 0,
              pending |-> FALSE, filters |-> <<>>, keys |-> {}, closed |-> FALSE]
  /\ place = [block |-> 0]

\* The blocks are [block, offset]; entry i of the index is about block i.
FlushBlock(b, bytes) ==
  IF b.data.entries = <<>> THEN b
  ELSE FiltersUpTo([b EXCEPT !.blocks = Append(@, [block |-> b.data, offset |-> b.offset]),
                             !.data = EmptyBlock, !.pending = TRUE, !.offset = @ + bytes],
                   b.offset + bytes)

IndexEntry(b, key) ==
  IF b.pending THEN [b EXCEPT !.index = BlockAdd(@, key, 1), !.pending = FALSE] ELSE b

\* bytes is 0 as long as the block is not full.
TableAdd(key, bytes) ==
  /\ ~build.closed /\ Len(made) < MaxEntries
  /\ made # <<>> => KeyLess(made[Len(made)], key)
  /\ made' = Append(made, key)
  /\ LET before == IF made = <<>> THEN <<>> ELSE made[Len(made)]
         indexed == IF build.pending
                    THEN IndexEntry(build, Shortened(before,
                           ShortestSeparator(User(before), User(key))))
                    ELSE build
         b == [indexed EXCEPT !.data = BlockAdd(@, key, Interval), !.keys = @ \cup {User(key)}]
     IN  build' = IF bytes > 0 THEN FlushBlock(b, bytes) ELSE b
  /\ UNCHANGED place

TableFinish(bytes) ==
  /\ ~build.closed /\ made # <<>>
  /\ LET b == FiltersFinished(FlushBlock(build, bytes))
         last == made[Len(made)]
     IN  build' = [IndexEntry(b, Shortened(last, ShortSuccessor(User(last)))) EXCEPT !.closed = TRUE]
  /\ UNCHANGED <<made, place>>

---------------------------------------------------------------------------
(* Table                                                                   *)

\* InternalGet: the key that is handed to the saver, <<>> if none is.
InternalGet(key) ==
  LET i == BlockSeek(build.index, key).at IN
  IF i > Len(build.blocks) THEN <<>>
  ELSE IF ~KeyMayMatch(build.blocks[i].offset, key) THEN <<>>
  ELSE BlockSeek(build.blocks[i].block, key).key

Moves(n, p) ==
  /\ build.closed
  /\ place' = [block |-> n, at |-> p.at, ri |-> p.ri, key |-> p.key]
  /\ UNCHANGED <<made, build>>

PlaceValid == place.block # 0 /\ place.at <= Len(build.blocks[place.block].block.entries)

SeekInBlock(n, key) == Moves(n, BlockSeek(build.blocks[n].block, key))
FirstInBlock(n) == Moves(n, BlockFirst(build.blocks[n].block))
LastInBlock(n) == Moves(n, BlockLast(build.blocks[n].block))
NextInBlock ==
  PlaceValid /\ Moves(place.block, BlockNext(build.blocks[place.block].block, place))
PrevInBlock ==
  PlaceValid /\ Moves(place.block, BlockPrev(build.blocks[place.block].block, place))

TableNext ==
  \/ \E key \in InternalKeys, bytes \in 0..MaxBlockBytes : TableAdd(key, bytes)
  \/ \E bytes \in 1..MaxBlockBytes : TableFinish(bytes)
  \/ \E n \in DOMAIN build.blocks :
       \/ \E key \in InternalKeys : SeekInBlock(n, key)
       \/ FirstInBlock(n) \/ LastInBlock(n)
  \/ NextInBlock \/ PrevInBlock

---------------------------------------------------------------------------
(* Properties                                                              *)

\* How many entries are in the blocks before block n.
EntriesBefore(n) ==
  FoldLeft(LAMBDA sum, b : sum + Len(b.block.entries), 0, SubSeq(build.blocks, 1, n - 1))

FirstFrom(key) == {i \in DOMAIN made : ~KeyLess(made[i], key)}

\* A finished table gives back what was added: for every key that could be
\* asked for, present or not, the first entry at or after it if that has the
\* user key (no shortened index key and no filter hides it) and none of the
\* user's otherwise; and an iterator moved through a block in any way, across
\* restart points, is at the key that was added there.
TableExact ==
  build.closed =>
    /\ \A key \in InternalKeys :
         LET got == InternalGet(key)
             at == FirstFrom(key)
         IN  IF at # {} /\ User(made[Min(at)]) = User(key) THEN got = made[Min(at)]
             ELSE got = <<>> \/ User(got) # User(key)
    /\ PlaceValid => place.key = made[EntriesBefore(place.block) + place.at]

=============================================================================

----------------------------- MODULE LogFormat -----------------------------
(***************************************************************************)
(* The log of leveldb: a writer cuts records into fragments that stay      *)
(* within a block (db/log_writer.cc), a reader puts them together again    *)
(* (db/log_reader.cc) after a crash cut the file off, an append failed     *)
(* half way, a fragment was damaged, or a new writer continued behind a    *)
(* torn end.  A byte of the file is the number of its fragment, 0 in the   *)
(* trailer of a block; a checksum matches when all bytes are in place.     *)
(***************************************************************************)
EXTENDS Integers, Sequences, FiniteSets, SequencesExt

CONSTANTS
  BlockSize,    \* kBlockSize
  HeaderSize,   \* kHeaderSize
  RecordSizes,  \* sizes of the records added
  MaxRecords,   \* bound: records added
  MaxMishaps    \* bound: crashes, failed appends and damaged fragments

ASSUME LogAssumption ==
  /\ HeaderSize \in Nat \ {0} /\ BlockSize \in Nat /\ BlockSize > HeaderSize
  /\ RecordSizes \subseteq Nat /\ MaxRecords \in Nat /\ MaxMishaps \in Nat

VARIABLES
  logFile,   \* the bytes
  frag,      \* the fragments emitted: [at, type, size, rec]
  spoilt,    \* fragments with a damaged byte
  logWriter, \* [rec, left, begin, offset]; between records rec is 0
  added,     \* how many records were begun
  mishaps,   \* how many mishaps there were
  logReader  \* [pc, pos, end, eof, open, scratch, got]

logVars == <<logFile, frag, spoilt, logWriter, added, mishaps, logReader>>

NoReader == [pc |-> "closed", pos |-> 1, end |-> 0, eof |-> FALSE, open |-> FALSE,
             scratch |-> <<>>, got |-> <<>>]

LogInit ==
  /\ logFile = <<>> /\ frag = <<>> /\ spoilt = {} /\ added = 0 /\ mishaps = 0
  /\ logWriter = [rec |-> 0, left |-> 0, begin |-> FALSE, offset |-> 0]
  /\ logReader = NoReader

LastByte(f) == f.at + HeaderSize + f.size - 1

---------------------------------------------------------------------------
(* The writer                                                              *)

AddRecord(size) ==
  /\ logReader.pc = "closed" /\ logWriter.rec = 0 /\ added < MaxRecords
  /\ added' = added + 1
  /\ logWriter' = [logWriter EXCEPT !.rec = added + 1, !.left = size, !.begin = TRUE]
  /\ UNCHANGED <<logFile, frag, spoilt, mishaps, logReader>>

RecordType(begin, end) ==
  CASE begin /\ end -> "full" [] begin /\ ~end -> "first"
    [] ~begin /\ end -> "last" [] OTHER -> "middle"

(* Variant, never a step: a header may begin in the trailer of a block. *)
HeaderAnywhere(offset) == IF offset = BlockSize THEN 0 ELSE offset

\* Where in its block the next fragment begins.
FragmentOffset(offset) == IF BlockSize - offset < HeaderSize THEN 0 ELSE offset

Filler(offset) == IF FragmentOffset(offset) = offset THEN 0 ELSE BlockSize - offset

\* One round of AddRecord with EmitPhysicalRecord.  If an append fails, only
\* so many of the bytes are in the file, the record is given up, and
\* block_offset_ has moved all the same.
EmitFragment(failed) ==
  /\ logReader.pc = "closed" /\ logWriter.rec # 0
  /\ LET offset == FragmentOffset(logWriter.offset)
         room == BlockSize - offset - HeaderSize
         size == IF logWriter.left < room THEN logWriter.left ELSE room
         ends == logWriter.left = size
         padded == logFile \o [i \in 1..Filler(logWriter.offset) |-> 0]
         f == [at |-> Len(padded) + 1, type |-> RecordType(logWriter.begin, ends),
               size |-> size, rec |-> logWriter.rec]
         bytes == padded \o [i \in 1..(HeaderSize + size) |-> Len(frag) + 1]
     IN  /\ frag' = Append(frag, f)
         /\ IF failed
            THEN /\ mishaps < MaxMishaps /\ mishaps' = mishaps + 1
                 /\ \E n \in Len(padded)..(Len(bytes) - 1) : logFile' = SubSeq(bytes, 1, n)
            ELSE logFile' = bytes /\ UNCHANGED mishaps
         /\ logWriter' = [rec |-> IF ends \/ failed THEN 0 ELSE logWriter.rec,
                          left |-> IF ends \/ failed THEN 0 ELSE logWriter.left - size,
                          begin |-> FALSE, offset |-> offset + HeaderSize + size]
  /\ UNCHANGED <<spoilt, added, logReader>>

\* The file is closed, or the process dies: the end of the file may be lost.
CloseOrCrash(n) ==
  /\ logReader.pc = "closed"
  /\ IF n = Len(logFile) THEN UNCHANGED mishaps ELSE mishaps < MaxMishaps /\ mishaps' = mishaps + 1
  /\ logFile' = SubSeq(logFile, 1, n)
  /\ logReader' = [NoReader EXCEPT !.pc = "reading"]
  /\ logWriter' = [logWriter EXCEPT !.rec = 0, !.left = 0]
  /\ UNCHANGED <<frag, spoilt, added>>

Damage(i) ==
  /\ logReader.pc = "closed" /\ logWriter.rec = 0 /\ mishaps < MaxMishaps
  /\ spoilt' = spoilt \cup {i} /\ mishaps' = mishaps + 1
  /\ UNCHANGED <<logFile, frag, logWriter, added, logReader>>

---------------------------------------------------------------------------
(* The reader, which starts at offset 0                                    *)

Legible(p) ==
  /\ logFile[p] # 0 /\ frag[logFile[p]].at = p
  /\ \A q \in p..(p + HeaderSize - 1) : logFile[q] = logFile[p]

ChecksumMatches(i) == i \notin spoilt /\ \A q \in frag[i].at..LastByte(frag[i]) : logFile[q] = i

\* ReadPhysicalRecord, with a whole header in the buffer.  A header of other
\* bytes is all zero, or too long, or has no match; each drops the buffer.
PhysicalRecord ==
  LET i == logFile[logReader.pos] IN
  IF ~Legible(logReader.pos) THEN "bad"
  ELSE IF LastByte(frag[i]) > logReader.end THEN IF logReader.eof THEN "eof" ELSE "bad"
  ELSE IF ChecksumMatches(i) THEN frag[i].type ELSE "bad"

\* kBadRecord: the rest of the buffer and what was put together so far are lost.
DropBuffer(r) == [r EXCEPT !.pos = r.end + 1, !.open = FALSE, !.scratch = <<>>]

Between(r) == [r EXCEPT !.open = FALSE, !.scratch = <<>>]

\* ReadRecord's use of a fragment.
Use(r, type, i) ==
  CASE type = "bad" -> DropBuffer(r)
    [] type = "eof" -> [Between(r) EXCEPT !.pc = "done"]
    [] type = "full" -> [Between(r) EXCEPT !.got = Append(@, <<i>>)]
    [] type = "first" -> [r EXCEPT !.open = TRUE, !.scratch = <<i>>]
    [] type = "middle" -> IF r.open THEN [r EXCEPT !.scratch = Append(@, i)] ELSE r
    [] type = "last" ->
         IF r.open THEN [Between(r) EXCEPT !.got = Append(@, Append(r.scratch, i))] ELSE r

\* The next block, if the last one was full.
ReadBlock ==
  /\ logReader.pc = "reading" /\ logReader.end - logReader.pos + 1 < HeaderSize
  /\ LET left == Len(logFile) - logReader.end
         n == IF left < BlockSize THEN left ELSE BlockSize
     IN  logReader' = IF logReader.eof THEN Use(logReader, "eof", 0)
                      ELSE [logReader EXCEPT !.pos = logReader.end + 1, !.end = @ + n,
                                             !.eof = n < BlockSize]
  /\ UNCHANGED <<logFile, frag, spoilt, logWriter, added, mishaps>>

ReadFragment ==
  /\ logReader.pc = "reading" /\ logReader.end - logReader.pos + 1 >= HeaderSize
  /\ LET i == logFile[logReader.pos]
         read == IF PhysicalRecord \in {"bad", "eof"} THEN logReader
                 ELSE [logReader EXCEPT !.pos = LastByte(frag[i]) + 1]
     IN  logReader' = Use(read, PhysicalRecord, i)
  /\ UNCHANGED <<logFile, frag, spoilt, logWriter, added, mishaps>>

\* With reuse_logs a new Writer continues at the end of the file.
Reopen ==
  /\ logReader.pc = "done"
  /\ logReader' = NoReader
  /\ logWriter' = [logWriter EXCEPT !.offset = Len(logFile) % BlockSize]
  /\ UNCHANGED <<logFile, frag, spoilt, added, mishaps>>

LogNext ==
  \/ \E size \in RecordSizes : AddRecord(size)
  \/ \E failed \in BOOLEAN : EmitFragment(failed)
  \/ \E n \in 0..Len(logFile) : CloseOrCrash(n)
  \/ \E i \in ToSet(logFile) \ {0} : Damage(i)
  \/ ReadBlock \/ ReadFragment \/ Reopen

---------------------------------------------------------------------------
(* Properties                                                              *)

BlockOf(q) == (q - 1) \div BlockSize
FragmentsOf(rec) == {i \in DOMAIN frag : frag[i].rec = rec}

\* In the file as it was written, and within a block.
Sound(i) ==
  /\ LastByte(frag[i]) <= Len(logFile) /\ ChecksumMatches(i)
  /\ BlockOf(frag[i].at) = BlockOf(LastByte(frag[i]))

Whole(rec) ==
  /\ \A i \in FragmentsOf(rec) : Sound(i)
  /\ \E i \in FragmentsOf(rec) : frag[i].type \in {"full", "last"}

\* A byte that belongs to no sound fragment and is not in a trailer.
Debris(q) == IF logFile[q] = 0 THEN (q - 1) % BlockSize <= BlockSize - HeaderSize
                               ELSE ~Sound(logFile[q])

Excused(rec) ==
  \E i \in FragmentsOf(rec) : \E q \in 1..(frag[i].at - 1) :
    BlockOf(q) = BlockOf(frag[i].at) /\ Debris(q)

RecordOf(scratch) == frag[scratch[1]].rec

\* What is read back are whole records, each of its own fragments and no
\* others, in the order they were added and none twice; a whole record is
\* missed only if something torn or damaged comes before it in its block.
ReadBackExactly ==
  logReader.pc = "done" =>
    LET got == logReader.got IN
    /\ \A i \in DOMAIN got :
         LET r == RecordOf(got[i])
         IN  Whole(r) /\ got[i] = SetToSortSeq(FragmentsOf(r), <)
    /\ \A i, j \in DOMAIN got : i < j => RecordOf(got[i]) < RecordOf(got[j])
    /\ \A r \in 1..added :
         Whole(r) => Excused(r) \/ \E i \in DOMAIN got : RecordOf(got[i]) = r

=============================================================================

----------------------------- MODULE LogFormat ------------------------------
(***************************************************************************)
(* The format of leveldb's log and MANIFEST files: log::Writer cuts a      *)
(* record into fragments that do not cross a block, log::Reader puts them  *)
(* together again after a crash, a failed append or damage on the medium   *)
(* (db/log_writer.cc, db/log_reader.cc).                                   *)
(*                                                                         *)
(* A byte of the file is a cell that remembers what it is a byte of.  A    *)
(* fragment whose header and payload stand in the file complete and        *)
(* unchanged has a matching checksum; no other bytes have one.             *)
(***************************************************************************)
EXTENDS Integers, Sequences, FiniteSetsExt

CONSTANTS
  BlockSize,     \* kBlockSize
  HeaderSize,    \* kHeaderSize
  Lengths,       \* sizes of the records that are written
  MaxRecords,    \* bound on the number of records
  MaxOffset,     \* largest initial_offset of a reader
  Faults         \* what may go wrong: "append", "crash", "flip"

VARIABLES
  phase,     \* "write", "read"
  file,      \* the cells of the file
  boff,      \* block_offset_ of the writer
  cur,       \* the AddRecord that is running: [rec, len, done, begin]
  written,   \* [len, ok, start]: the records, and whether AddRecord returned ok
  flipped,   \* 0, or the position of the damaged byte
  offset,    \* initial_offset_
  rd,        \* the reader
  out,       \* the records read: [rec, cells]
  reports    \* number of reported corruptions

vars == <<phase, file, boff, cur, written, flipped, offset, rd, out, reports>>

Zero == [kind |-> "zero"]
Junk == [kind |-> "junk"]
Idle == [rec |-> 0, len |-> 0, done |-> 0, begin |-> TRUE]

(* buffer_ holds the bytes lo + 1 .. hi of the file; hi is also            *)
(* end_of_buffer_offset_.                                                  *)
NewReader == [lo |-> 0, hi |-> 0, eof |-> FALSE, open |-> FALSE, scratch |-> << >>,
              resync |-> FALSE, done |-> FALSE]

Init ==
  /\ phase = "write" /\ file = << >> /\ boff = 0 /\ cur = Idle /\ written = << >>
  /\ flipped = 0 /\ offset = 0 /\ rd = NewReader /\ out = << >> /\ reports = 0

-----------------------------------------------------------------------------
(* log::Writer *)

Header(f) == [i \in 1 .. HeaderSize |-> [kind |-> "head", frag |-> f, at |-> i]]
Payload(f) == [i \in 1 .. f.len |-> [kind |-> "data", frag |-> f, at |-> i]]

(* AddRecord is called. *)
BeginRecord(n) ==
  /\ phase = "write" /\ cur = Idle /\ Len(written) < MaxRecords
  /\ cur' = [rec |-> Len(written) + 1, len |-> n, done |-> 0, begin |-> TRUE]
  /\ written' = Append(written, [len |-> n, ok |-> FALSE])
  /\ UNCHANGED <<phase, file, boff, flipped, offset, rd, out, reports>>

(* The trailer that is filled before a fragment. *)
Trailer ==
  IF BlockSize - boff < HeaderSize THEN [i \in 1 .. BlockSize - boff |-> Zero] ELSE << >>
From == IF BlockSize - boff < HeaderSize THEN 0 ELSE boff

TypeOf(begin, end) ==
  CASE begin /\ end -> "full" [] begin /\ ~end -> "first"
    [] ~begin /\ end -> "last" [] OTHER -> "middle"

(* The next fragment of the record that is being added. *)
Fragment ==
  LET left == cur.len - cur.done
      n == Min({left, BlockSize - From - HeaderSize})
  IN [rec |-> cur.rec, from |-> cur.done, len |-> n, type |-> TypeOf(cur.begin, n = left)]

(* Mutant: the rest of the block is not filled. *)
EmitPhysicalRecordNoTrailer ==
  /\ cur # Idle
  /\ LET f == Fragment
         end == f.from + f.len = cur.len
     IN /\ file' = file \o Header(f) \o Payload(f)
        /\ boff' = From + HeaderSize + f.len
        /\ cur' = IF end THEN Idle ELSE [cur EXCEPT !.done = @ + f.len, !.begin = FALSE]
        /\ written' = IF end THEN [written EXCEPT ![cur.rec].ok = TRUE] ELSE written
  /\ UNCHANGED <<phase, flipped, offset, rd, out, reports>>

(* One round of the loop of AddRecord. *)
EmitPhysicalRecord ==
  /\ cur # Idle
  /\ LET f == Fragment
         end == f.from + f.len = cur.len
     IN /\ file' = file \o Trailer \o Header(f) \o Payload(f)
        /\ boff' = From + HeaderSize + f.len
        /\ cur' = IF end THEN Idle ELSE [cur EXCEPT !.done = @ + f.len, !.begin = FALSE]
        /\ written' = IF end THEN [written EXCEPT ![cur.rec].ok = TRUE] ELSE written
  /\ UNCHANGED <<phase, flipped, offset, rd, out, reports>>

(* Mutant: the status of the Append is overwritten by that of Flush. *)
EmitFailsUnnoticed ==
  /\ cur # Idle /\ "append" \in Faults
  /\ LET f == Fragment
         bytes == Header(f) \o Payload(f)
     IN /\ \E k \in 0 .. Len(bytes) - 1 : file' = file \o Trailer \o SubSeq(bytes, 1, k)
        /\ boff' = From + HeaderSize + f.len
        /\ written' = [written EXCEPT ![cur.rec].ok = f.from + f.len = cur.len]
        /\ cur' = Idle
  /\ UNCHANGED <<phase, flipped, offset, rd, out, reports>>

(* An Append writes only part of its bytes and fails: AddRecord returns    *)
(* the error, and block_offset_ advances all the same.                     *)
EmitFails ==
  /\ cur # Idle /\ "append" \in Faults
  /\ LET f == Fragment
         bytes == Header(f) \o Payload(f)
     IN /\ \E k \in 0 .. Len(bytes) - 1 : file' = file \o Trailer \o SubSeq(bytes, 1, k)
        /\ boff' = From + HeaderSize + f.len
        /\ cur' = Idle
  /\ UNCHANGED <<phase, written, flipped, offset, rd, out, reports>>

-----------------------------------------------------------------------------
(* What happens to the file before it is read (external) *)

Truncated == IF "crash" \in Faults THEN {SubSeq(file, 1, n) : n \in 0 .. Len(file)} ELSE {file}

(* Mutant: the search starts one block late. *)
SkipToInitialBlockLate(o) == o - (o % BlockSize) + (IF o % BlockSize > 0 THEN BlockSize ELSE 0)

(* SkipToInitialBlock: where the reader starts; an offset in a block's     *)
(* trailer means the next block.                                           *)
SkipToInitialBlock(o) ==
  o - (o % BlockSize) + (IF o % BlockSize > BlockSize - (HeaderSize - 1) THEN BlockSize ELSE 0)

(* The writer is gone (a crash may cut the file anywhere, a byte may be    *)
(* damaged), and a Reader is made.                                         *)
StartReading ==
  /\ phase = "write" /\ (cur = Idle \/ "crash" \in Faults)
  /\ \E cut \in Truncated, o \in 0 .. MaxOffset :
       /\ \/ file' = cut /\ flipped' = 0
          \/ /\ "flip" \in Faults
             /\ \E p \in DOMAIN cut : file' = [cut EXCEPT ![p] = Junk] /\ flipped' = p
       /\ offset' = o
       /\ rd' = [NewReader EXCEPT !.lo = SkipToInitialBlock(o), !.hi = SkipToInitialBlock(o),
                                  !.resync = o > 0]
  /\ phase' = "read" /\ cur' = Idle
  /\ UNCHANGED <<boff, written, out, reports>>

-----------------------------------------------------------------------------
(* log::Reader *)

Reading == phase = "read" /\ ~rd.done
Buffered == rd.hi - rd.lo

(* Mutant: a short read is not the end of the file. *)
RefillNoEof ==
  /\ Reading /\ Buffered < HeaderSize /\ ~rd.eof
  /\ LET got == Max({0, Min({BlockSize, Len(file) - rd.hi})})
     IN rd' = [rd EXCEPT !.lo = rd.hi, !.hi = @ + got]
  /\ UNCHANGED <<phase, file, boff, cur, written, flipped, offset, out, reports>>

(* ReadPhysicalRecord reads the next block; what is left is a trailer. *)
Refill ==
  /\ Reading /\ Buffered < HeaderSize /\ ~rd.eof
  /\ LET got == Max({0, Min({BlockSize, Len(file) - rd.hi})})
     IN rd' = [rd EXCEPT !.lo = rd.hi, !.hi = @ + got, !.eof = got < BlockSize]
  /\ UNCHANGED <<phase, file, boff, cur, written, flipped, offset, out, reports>>

Cells(n) == SubSeq(file, rd.lo + 1, rd.lo + n)

(* The header at the front of the buffer, if its bytes are one. *)
HasHeader == file[rd.lo + 1].kind = "head" /\ Cells(HeaderSize) = Header(file[rd.lo + 1].frag)
Found == file[rd.lo + 1].frag
Fits == HeaderSize + Found.len <= Buffered
Matches == Cells(HeaderSize + Found.len) = Header(Found) \o Payload(Found)
AllZero == \A i \in 1 .. HeaderSize : file[rd.lo + i] = Zero

Result(type, cells, lo, report) == [type |-> type, cells |-> cells, lo |-> lo, report |-> report]

(* What ReadPhysicalRecord may return, buffer_ after it, and whether it    *)
(* reports a corruption.  A header that is not one has any length: the     *)
(* length is too large, or the checksum does not match.                    *)
ReadPhysicalRecord ==
  IF HasHeader /\ Fits /\ Matches
  THEN LET lo == rd.lo + HeaderSize + Found.len
       IN {IF rd.lo < offset THEN Result("bad", << >>, lo, FALSE)
           ELSE Result(Found.type, Payload(Found), lo, FALSE)}
  ELSE IF AllZero THEN {Result("bad", << >>, rd.hi, FALSE)}
  ELSE LET bad == Result("bad", << >>, rd.hi, rd.lo >= offset)
           end == Result("eof", << >>, rd.hi, FALSE)
       IN IF ~rd.eof THEN {bad}
          ELSE IF HasHeader THEN (IF Fits THEN {bad} ELSE {end}) ELSE {bad, end}

(* A logical record is complete. *)
Returned(cells) == Append(out, [rec |-> Found.rec, cells |-> cells])

Reports(b) == IF b THEN 1 ELSE 0

(* ReportDrop: nothing is reported that starts before initial_offset_. *)
Drops(r, n) == Reports(r.lo - n >= offset)

FirstFragment(r) ==
  /\ rd' = [rd EXCEPT !.lo = r.lo, !.resync = FALSE, !.open = TRUE, !.scratch = r.cells]
  /\ reports' = reports + (IF rd.open /\ rd.scratch # << >> THEN Drops(r, Len(rd.scratch)) ELSE 0)
  /\ UNCHANGED out

FullRecord(r) ==
  /\ rd' = [rd EXCEPT !.lo = r.lo, !.resync = FALSE, !.open = FALSE, !.scratch = << >>]
  /\ reports' = reports + (IF rd.open /\ rd.scratch # << >> THEN Drops(r, Len(rd.scratch)) ELSE 0)
  /\ out' = Returned(r.cells)

(* A middle or last fragment: skipped while resyncing, reported when the   *)
(* start of its record is missing.                                         *)
LaterFragment(r) ==
  LET last == r.type = "last"
  IN IF rd.resync
     THEN rd' = [rd EXCEPT !.lo = r.lo, !.resync = ~last] /\ UNCHANGED <<out, reports>>
     ELSE IF ~rd.open
     THEN /\ rd' = [rd EXCEPT !.lo = r.lo]
          /\ reports' = reports + Drops(r, Len(r.cells)) /\ UNCHANGED out
     ELSE /\ rd' = [rd EXCEPT !.lo = r.lo, !.open = ~last,
                              !.scratch = IF last THEN << >> ELSE @ \o r.cells]
          /\ out' = IF last THEN Returned(rd.scratch \o r.cells) ELSE out
          /\ UNCHANGED reports

(* Mutant: bad bytes end the file. *)
BadRecordEnds(r) ==
  /\ rd' = [rd EXCEPT !.lo = r.lo, !.done = TRUE]
  /\ UNCHANGED <<out, reports>>

(* Mutant: the fragments before the bad bytes are kept. *)
BadRecordKeepsScratch(r) ==
  /\ rd' = [rd EXCEPT !.lo = r.lo, !.resync = FALSE]
  /\ reports' = reports + Reports(r.report) + (IF rd.open THEN Drops(r, Len(rd.scratch)) ELSE 0)
  /\ UNCHANGED out

BadRecord(r) ==
  /\ rd' = [rd EXCEPT !.lo = r.lo, !.resync = FALSE, !.open = FALSE, !.scratch = << >>]
  /\ reports' = reports + Reports(r.report) + (IF rd.open THEN Drops(r, Len(rd.scratch)) ELSE 0)
  /\ UNCHANGED out

EndOfFile(r) ==
  /\ rd' = [rd EXCEPT !.lo = r.lo, !.scratch = << >>, !.done = TRUE]
  /\ UNCHANGED <<out, reports>>

(* One round of the loop of ReadRecord. *)
ReadRecord ==
  /\ Reading /\ Buffered >= HeaderSize
  /\ \E r \in ReadPhysicalRecord :
       \/ r.type = "full" /\ FullRecord(r)
       \/ r.type = "first" /\ FirstFragment(r)
       \/ r.type \in {"middle", "last"} /\ LaterFragment(r)
       \/ r.type = "bad" /\ BadRecord(r)
       \/ r.type = "eof" /\ EndOfFile(r)
  /\ UNCHANGED <<phase, file, boff, cur, written, flipped, offset>>

(* A truncated header, or nothing, at the end of the file. *)
ReadEof ==
  /\ Reading /\ Buffered < HeaderSize /\ rd.eof
  /\ EndOfFile(Result("eof", << >>, rd.hi, FALSE))
  /\ UNCHANGED <<phase, file, boff, cur, written, flipped, offset>>

Reads == Refill \/ ReadRecord \/ ReadEof

Next ==
  \/ (\E n \in Lengths : BeginRecord(n)) \/ EmitPhysicalRecord \/ EmitFails
  \/ StartReading \/ Reads

Spec == Init /\ [][Next]_vars
FairSpec == Spec /\ WF_vars(Reads)

-----------------------------------------------------------------------------
(* Type correctness: buffer_ is one block of the file at most. *)
LogTypeOK ==
  /\ phase \in {"write", "read"} /\ boff \in 0 .. BlockSize
  /\ Buffered \in 0 .. BlockSize /\ (phase = "read" /\ offset = 0 => rd.hi <= Len(file))
  /\ Len(out) <= Len(written)

(* A record that is returned is one that was written, whole, in the order  *)
(* of the writes and once, whatever was torn or damaged: fragments of two  *)
(* records are never put together.                                         *)
RecordsWhole ==
  /\ \A i, j \in DOMAIN out : i < j => out[i].rec < out[j].rec
  /\ \A i \in DOMAIN out :
       LET r == out[i]
           from(p) == r.cells[p].frag.from + r.cells[p].at
       IN /\ Len(r.cells) = written[r.rec].len
          /\ \A p \in DOMAIN r.cells : r.cells[p].frag.rec = r.rec /\ from(p) = p

Whole == {r \in DOMAIN written : written[r].ok}
Read == {out[i].rec : i \in DOMAIN out}

(* The positions of the bytes of a record, in the file that is read. *)
Bytes(rec) == {p \in DOMAIN file : file[p].kind \in {"head", "data"} /\ file[p].frag.rec = rec}
Blocks(ps) == {(p - 1) \div BlockSize : p \in ps}
LastByteOf(rec) == \E p \in Bytes(rec) :
  LET f == file[p].frag
  IN /\ f.from + f.len = written[rec].len
     /\ IF f.len = 0 THEN file[p].kind = "head" /\ file[p].at = HeaderSize
        ELSE file[p].kind = "data" /\ file[p].at = f.len

(* A crash that cuts the log anywhere loses only the end: what is read is  *)
(* exactly the records that are complete in the file, and nothing is       *)
(* reported as corruption (log_reader.cc: "don't treat it as a             *)
(* corruption").                                                           *)
CutLogIsPrefix ==
  rd.done /\ offset = 0 =>
    Read = {r \in DOMAIN written : LastByteOf(r)} /\ reports = 0

(* A damaged byte costs no record that has no byte in its block. *)
DamageStaysInBlock ==
  rd.done /\ flipped # 0 =>
    \A r \in Whole : (flipped - 1) \div BlockSize \notin Blocks(Bytes(r)) => r \in Read

(* A failed append loses no record that was added before it, and a record  *)
(* it tore is not read.                                                    *)
LostOnlyAfterFailure ==
  rd.done /\ flipped = 0 =>
    /\ Read \subseteq Whole
    /\ \A r \in Whole : (\A q \in 1 .. r : q \in Whole) => r \in Read

(* A reader with an initial offset returns exactly the records that start  *)
(* at or after it (log_reader.h: "the first record located at physical     *)
(* position >= initial_offset").                                           *)
StartsAtOffset ==
  rd.done => Read = {r \in Whole : Min(Bytes(r)) - 1 >= offset}

(* Reading ends. *)
ReadingEnds == phase = "read" ~> rd.done
=============================================================================

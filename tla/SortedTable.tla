---------------------------- MODULE SortedTable ----------------------------
(***************************************************************************)
(* One table file of leveldb: TableBuilder and BlockBuilder write it       *)
(* (table/table_builder.cc, block_builder.cc, filter_block.cc, and the     *)
(* loop of db/builder.cc), Table, Block::Iter and TwoLevelIterator read it *)
(* (table/table.cc, block.cc, two_level_iterator.cc).                      *)
(*                                                                         *)
(* A user key is a sequence of bytes 0 .. MaxByte; an internal key is the  *)
(* user key followed by one element for its 8-byte tag, here the sequence  *)
(* number alone.  A byte offset inside a block is the number of entries    *)
(* before it; sizes and file offsets count entries, restart points and     *)
(* block trailers.  Checksums are not verified by default, so a block is   *)
(* either read as it was written or cannot be read.                        *)
(***************************************************************************)
EXTENDS Integers, Sequences, FiniteSets, FiniteSetsExt

CONSTANTS
  Key,             \* the user keys
  MaxByte,         \* 0xff
  MaxSeq,          \* kMaxSequenceNumber; entries have smaller ones
  RestartInterval, \* options.block_restart_interval
  BlockSize,       \* options.block_size
  FilterBase,      \* kFilterBase
  HasFilter,       \* options.filter_policy != NULL
  Probes,          \* the bits of a user key in a Bloom filter
  MaxEntries,      \* bound: entries of the table
  MaxFaults        \* bound: failing appends and reads

VARIABLES
  phase,   \* "build", "kept", "dropped"
  rep,     \* TableBuilder::Rep
  added,   \* the internal keys the caller passed to Add, in order
  file,    \* the file: its data blocks by offset, its index block, its filters
  cursor,  \* the iterator of the table (TwoLevelIterator)
  call,    \* the last call: of the iterator, with where it stood before,
           \* or of InternalGet, with its answer
  faults   \* failures so far

vars == <<phase, rep, added, file, cursor, call, faults>>

None == [none |-> TRUE]

-----------------------------------------------------------------------------
(* Keys *)

CommonPrefix(a, b) ==
  Max({n \in 0 .. Min({Len(a), Len(b)}) : SubSeq(a, 1, n) = SubSeq(b, 1, n)})

LessBytes(a, b) ==
  LET n == CommonPrefix(a, b)
  IN  n < Len(b) /\ (n = Len(a) \/ (n < Len(a) /\ a[n + 1] < b[n + 1]))

Internal(user, seq) == Append(user, seq)
UserKey(k) == SubSeq(k, 1, Len(k) - 1)
Tag(k) == k[Len(k)]

(* User keys ascend, the sequence numbers of one user key descend. *)
Less(a, b) ==
  \/ LessBytes(UserKey(a), UserKey(b))
  \/ UserKey(a) = UserKey(b) /\ Tag(a) > Tag(b)

BytewiseSeparator(start, limit) ==
  LET d == CommonPrefix(start, limit) + 1
  IN  IF /\ d <= Min({Len(start), Len(limit)})
         /\ start[d] < MaxByte /\ start[d] + 1 < limit[d]
      THEN Append(SubSeq(start, 1, d - 1), start[d] + 1)
      ELSE start

BytewiseSuccessor(key) ==
  LET free == {i \in 1 .. Len(key) : key[i] # MaxByte}
  IN  IF free = {} THEN key
      ELSE Append(SubSeq(key, 1, Min(free) - 1), key[Min(free)] + 1)

ShortenedAlways(key, user) == Internal(user, MaxSeq)

(* A shortened user key gets the number that comes first. *)
Shortened(key, user) ==
  IF Len(user) < Len(UserKey(key)) /\ LessBytes(UserKey(key), user)
  THEN Internal(user, MaxSeq)
  ELSE key

FindShortestSeparator(start, limit) ==
  Shortened(start, BytewiseSeparator(UserKey(start), UserKey(limit)))

FindShortSuccessor(key) == Shortened(key, BytewiseSuccessor(UserKey(key)))

-----------------------------------------------------------------------------
(* BlockBuilder *)

NewBlock == [entries |-> <<>>, restarts |-> <<0>>, counter |-> 0, last |-> <<>>]

CurrentSizeEstimate(blk) == Len(blk.entries) + Len(blk.restarts)

BlockAddNoRestart(blk, key, value, interval) ==
  LET shared == CommonPrefix(blk.last, key)
  IN  [entries  |-> Append(blk.entries,
                           [shared |-> shared, value |-> value,
                            delta |-> SubSeq(key, shared + 1, Len(key))]),
       restarts |-> IF blk.counter < interval THEN blk.restarts
                    ELSE Append(blk.restarts, Len(blk.entries)),
       counter  |-> IF blk.counter < interval THEN blk.counter + 1 ELSE 1,
       last     |-> key]

BlockAdd(blk, key, value, interval) ==
  LET restart == blk.counter >= interval
      shared  == IF restart THEN 0 ELSE CommonPrefix(blk.last, key)
  IN  [entries  |-> Append(blk.entries,
                           [shared |-> shared, value |-> value,
                            delta |-> SubSeq(key, shared + 1, Len(key))]),
       restarts |-> IF restart THEN Append(blk.restarts, Len(blk.entries))
                    ELSE blk.restarts,
       counter  |-> IF restart THEN 1 ELSE blk.counter + 1,
       last     |-> key]

-----------------------------------------------------------------------------
(* Filters: the bits of all keys of the blocks that start in one stretch of
   FilterBase. *)

GenerateFilter(f) ==
  [done |-> Append(f.done, UNION {Probes[u] : u \in f.keys}), keys |-> {}]

StartBlockEarly(f, offset) ==
  LET RECURSIVE Fill(_)
      Fill(g) == IF offset \div FilterBase >= Len(g.done)
                 THEN Fill(GenerateFilter(g)) ELSE g
  IN  Fill(f)

StartBlock(f, offset) ==
  LET RECURSIVE Fill(_)
      Fill(g) == IF offset \div FilterBase > Len(g.done)
                 THEN Fill(GenerateFilter(g)) ELSE g
  IN  Fill(f)

FinishFilter(f) == IF f.keys = {} THEN f.done ELSE GenerateFilter(f).done

KeyMayMatch(filters, offset, user) ==
  LET i == offset \div FilterBase + 1
  IN  i <= Len(filters) => Probes[user] \subseteq filters[i]

-----------------------------------------------------------------------------
(* TableBuilder *)

Init ==
  /\ phase = "build"
  /\ rep = [data |-> NewBlock, index |-> NewBlock, last |-> <<>>,
            pending |-> None, offset |-> 0, ok |-> TRUE, blocks |-> <<>>,
            filter |-> [done |-> <<>>, keys |-> {}]]
  /\ added = <<>>
  /\ file = None
  /\ cursor = None /\ call = None
  /\ faults = 0

AddKey(r, key, sep) ==
  [r EXCEPT !.index = IF r.pending = None THEN @
                      ELSE BlockAdd(@, sep, r.pending, 1),
            !.pending = None,
            !.filter.keys = @ \union {UserKey(key)},
            !.last = key,
            !.data = BlockAdd(@, key, key, RestartInterval)]

FlushForgetsError(r, fails) ==
  IF ~r.ok \/ r.data.entries = <<>> THEN r
  ELSE IF fails THEN [r EXCEPT !.data = NewBlock]
  ELSE LET end == r.offset + CurrentSizeEstimate(r.data) + 1
       IN  [r EXCEPT !.blocks = Append(@, [offset |-> r.offset,
                                           block |-> r.data]),
                     !.pending = [offset |-> r.offset],
                     !.offset = end,
                     !.data = NewBlock,
                     !.filter = StartBlock(@, end)]

(* Flush writes the data block; appending it may fail. *)
Flush(r, fails) ==
  IF ~r.ok \/ r.data.entries = <<>> THEN r
  ELSE IF fails THEN [r EXCEPT !.ok = FALSE, !.data = NewBlock]
  ELSE LET end == r.offset + CurrentSizeEstimate(r.data) + 1
       IN  [r EXCEPT !.blocks = Append(@, [offset |-> r.offset,
                                           block |-> r.data]),
                     !.pending = [offset |-> r.offset],
                     !.offset = end,
                     !.data = NewBlock,
                     !.filter = StartBlock(@, end)]

CountFault(fails) == faults' = faults + (IF fails THEN 1 ELSE 0)

(* One turn of BuildTable's loop: the memtable's iterator gives the keys in
   ascending order; a builder that failed ignores them. *)
Add ==
  /\ phase = "build" /\ Len(added) < MaxEntries
  /\ \E user \in Key, seq \in 0 .. MaxSeq - 1, fails \in BOOLEAN :
       LET key == Internal(user, seq)
           r   == AddKey(rep, key,
                         IF rep.pending = None THEN <<>>
                         ELSE FindShortestSeparator(rep.last, key))
           full == CurrentSizeEstimate(r.data) >= BlockSize
       IN  /\ \A i \in 1 .. Len(added) : Less(added[i], key)
           /\ fails => rep.ok /\ full /\ faults < MaxFaults
           /\ added' = Append(added, key)
           /\ rep' = IF ~rep.ok THEN rep
                     ELSE IF full THEN Flush(r, fails) ELSE r
           /\ CountFault(fails)
  /\ UNCHANGED <<phase, file, cursor, call>>

(* Flush, then the filter, the metaindex, the index and the footer. *)
Finish(r, fails) ==
  LET f == Flush(r, FALSE)
  IN  [f EXCEPT !.ok = @ /\ ~fails,
                !.index = IF f.pending = None THEN @
                          ELSE BlockAdd(@, FindShortSuccessor(f.last),
                                        f.pending, 1)]

(* BuildTable after its loop: Finish, Sync, Close and a first opening; a
   table with an error is deleted. *)
BuildTable ==
  /\ phase = "build" /\ added # <<>>
  /\ \E fails \in BOOLEAN :
       LET r == Finish(rep, fails)
       IN  /\ fails => rep.ok /\ faults < MaxFaults
           /\ phase' = IF r.ok THEN "kept" ELSE "dropped"
           /\ file' = IF ~r.ok THEN None
                      ELSE [blocks |-> r.blocks, index |-> r.index,
                            filters |-> IF HasFilter
                                        THEN FinishFilter(r.filter) ELSE None]
           /\ CountFault(fails)
           /\ rep' = None
  /\ UNCHANGED <<added, cursor, call>>

-----------------------------------------------------------------------------
(* Block::Iter.  current is restarts_ (the number of entries) when the
   iterator is not valid; next is the end of value_, where ParseNextKey
   goes on. *)

EntriesOf(blk) == Len(blk.entries)
NumRestarts(blk) == Len(blk.restarts)
GetRestartPoint(blk, i) == blk.restarts[i + 1]

NewIter(blk) ==
  [block |-> blk, current |-> EntriesOf(blk), next |-> 0,
   restart |-> NumRestarts(blk), key |-> <<>>, ok |-> TRUE]

(* An unreadable block: no entries, only a status. *)
ErrorIterator == [NewIter(NewBlock) EXCEPT !.ok = FALSE]

IterValid(it) == it.current < EntriesOf(it.block)

Invalid(it) == [it EXCEPT !.current = EntriesOf(it.block),
                          !.restart = NumRestarts(it.block)]

SeekToRestartPoint(it, i) ==
  [it EXCEPT !.key = <<>>, !.restart = i, !.next = GetRestartPoint(it.block, i)]

(* ParseNextKey: the key is rebuilt from the key before. *)
ParseNextKey(it) ==
  IF it.next >= EntriesOf(it.block)
  THEN Invalid(it)
  ELSE LET e == it.block.entries[it.next + 1]
       IN  IF Len(it.key) < e.shared
           THEN [Invalid(it) EXCEPT !.ok = FALSE, !.key = <<>>]
           ELSE [it EXCEPT !.current = it.next,
                           !.next = it.next + 1,
                           !.key = SubSeq(@, 1, e.shared) \o e.delta,
                           !.restart =
                             Max({@} \union
                                 {i \in @ .. NumRestarts(it.block) - 1 :
                                    GetRestartPoint(it.block, i) < it.next})]

(* Parse until the iterator is not valid or Stop holds of it. *)
ParseUntil(it, Stop(_)) ==
  LET RECURSIVE Go(_)
      Go(i) == LET n == ParseNextKey(i)
               IN  IF ~IterValid(n) \/ Stop(n) THEN n ELSE Go(n)
  IN  Go(it)

(* Prev: back to a restart point before the current entry, and forward to
   the entry that ends where the current one starts. *)
IterPrev(it) ==
  LET before == {i \in 0 .. it.restart :
                   GetRestartPoint(it.block, i) < it.current}
  IN  IF before = {} THEN Invalid(it)
      ELSE ParseUntil(SeekToRestartPoint(it, Max(before)),
                      LAMBDA i : i.next >= it.current)

RestartKey(blk, i) == blk.entries[GetRestartPoint(blk, i) + 1].delta

(* The binary search of Seek for the last restart point below the target. *)
SeekRestart(blk, target) ==
  LET RECURSIVE Search(_, _)
      Search(left, right) ==
        IF left >= right THEN left
        ELSE LET mid == (left + right + 1) \div 2
             IN  IF Less(RestartKey(blk, mid), target)
                 THEN Search(mid, right)
                 ELSE Search(left, mid - 1)
  IN  Search(0, NumRestarts(blk) - 1)

IterSeek(it, target) ==
  IF EntriesOf(it.block) = 0 THEN it
  ELSE ParseUntil(SeekToRestartPoint(it, SeekRestart(it.block, target)),
                  LAMBDA i : ~Less(i.key, target))

IterSeekToFirst(it) ==
  IF EntriesOf(it.block) = 0 THEN it ELSE ParseNextKey(SeekToRestartPoint(it, 0))

IterSeekToLast(it) ==
  IF EntriesOf(it.block) = 0 THEN it
  ELSE ParseUntil(SeekToRestartPoint(it, NumRestarts(it.block) - 1),
                  LAMBDA i : i.next >= EntriesOf(it.block))

IterValue(it) == it.block.entries[it.current + 1].value

-----------------------------------------------------------------------------
(* TwoLevelIterator: an iterator of the index block and one of the data
   block it stands on, or none. *)

NewIterator == [index |-> NewIter(file.index), data |-> None,
                handle |-> None, ok |-> TRUE]

Valid(t) == t.data # None /\ IterValid(t.data)

Status(t) == t.index.ok /\ (t.data # None => t.data.ok) /\ t.ok

(* BlockReader: the blocks at the offsets in bad cannot be read. *)
BlockReader(handle, bad) ==
  IF handle.offset \in bad THEN ErrorIterator
  ELSE NewIter((CHOOSE b \in {file.blocks[i] : i \in 1 .. Len(file.blocks)} :
                  b.offset = handle.offset).block)

SetDataIteratorForgets(t, it) == [t EXCEPT !.data = it]

SetDataIterator(t, it) ==
  [t EXCEPT !.ok = @ /\ (t.data # None => t.data.ok), !.data = it]

InitDataBlock(t, bad) ==
  IF ~IterValid(t.index) THEN SetDataIterator(t, None)
  ELSE LET handle == IterValue(t.index)
       IN  IF t.data # None /\ handle = t.handle THEN t
           ELSE SetDataIterator([t EXCEPT !.handle = handle],
                                BlockReader(handle, bad))

OnData(t, d) == IF t.data = None THEN t ELSE [t EXCEPT !.data = d]

(* SkipEmptyDataBlocksForward and -Backward: Step moves the index, Enter
   places the data iterator. *)
SkipEmptyDataBlocks(t, bad, Step(_), Enter(_)) ==
  LET RECURSIVE Skip(_)
      Skip(u) ==
        IF Valid(u) THEN u
        ELSE IF ~IterValid(u.index) THEN SetDataIterator(u, None)
        ELSE LET b == InitDataBlock([u EXCEPT !.index = Step(@)], bad)
             IN  Skip(OnData(b, Enter(b.data)))
  IN  Skip(t)

SkipForward(t, bad) == SkipEmptyDataBlocks(t, bad, ParseNextKey, IterSeekToFirst)
SkipBackward(t, bad) == SkipEmptyDataBlocks(t, bad, IterPrev, IterSeekToLast)

Seek(t, target, bad) ==
  LET b == InitDataBlock([t EXCEPT !.index = IterSeek(@, target)], bad)
  IN  SkipForward(OnData(b, IterSeek(b.data, target)), bad)

SeekToFirst(t, bad) ==
  LET b == InitDataBlock([t EXCEPT !.index = IterSeekToFirst(@)], bad)
  IN  SkipForward(OnData(b, IterSeekToFirst(b.data)), bad)

SeekToLast(t, bad) ==
  LET b == InitDataBlock([t EXCEPT !.index = IterSeekToLast(@)], bad)
  IN  SkipBackward(OnData(b, IterSeekToLast(b.data)), bad)

NextEntry(t, bad) == SkipForward(OnData(t, ParseNextKey(t.data)), bad)
PrevEntryInBlock(t, bad) == OnData(t, IterPrev(t.data))
PrevEntry(t, bad) == SkipBackward(OnData(t, IterPrev(t.data)), bad)

-----------------------------------------------------------------------------
(* Calls *)

Offsets == {file.blocks[i].offset : i \in 1 .. Len(file.blocks)}

(* The place of the cursor among the entries of the table, 0 if not valid. *)
Place(t) ==
  IF t = None \/ ~Valid(t) THEN 0
  ELSE CHOOSE i \in 1 .. Len(added) : added[i] = t.data.key

Moves(op, target, bad, t) ==
  /\ cursor' = t
  /\ call' = [op |-> op, target |-> target, from |-> Place(cursor), bad |-> bad]
  /\ faults' = faults + Cardinality(bad)
  /\ UNCHANGED <<phase, rep, added, file>>

Bad == {b \in SUBSET Offsets : Cardinality(b) <= MaxFaults - faults}

Target == {Internal(u, s) : u \in Key, s \in 0 .. MaxSeq}

Open ==
  /\ phase = "kept" /\ cursor = None
  /\ cursor' = NewIterator
  /\ UNCHANGED <<phase, rep, added, file, call, faults>>

Move ==
  /\ phase = "kept" /\ cursor # None
  /\ \E bad \in Bad :
       \/ \E k \in Target : Moves("seek", k, bad, Seek(cursor, k, bad))
       \/ Moves("first", None, bad, SeekToFirst(cursor, bad))
       \/ Moves("last", None, bad, SeekToLast(cursor, bad))
       \/ Valid(cursor) /\ Moves("next", None, bad, NextEntry(cursor, bad))
       \/ Valid(cursor) /\ Moves("prev", None, bad, PrevEntry(cursor, bad))

(* Table::InternalGet of a LookupKey, and the saver of Version::Get, which
   keeps an entry of the same user key only. *)
Get(k, bad) ==
  LET i == IterSeek(NewIter(file.index), k)
  IN  IF ~IterValid(i) THEN [ok |-> i.ok, value |-> <<>>]
      ELSE IF HasFilter /\ ~KeyMayMatch(file.filters, IterValue(i).offset,
                                        UserKey(k))
      THEN [ok |-> i.ok, value |-> <<>>]
      ELSE LET d == IterSeek(BlockReader(IterValue(i), bad), k)
           IN  [ok    |-> d.ok /\ i.ok,
                value |-> IF IterValid(d) /\ UserKey(d.key) = UserKey(k)
                          THEN IterValue(d) ELSE <<>>]

InternalGet ==
  /\ phase = "kept"
  /\ \E k \in Target, bad \in Bad :
       /\ call' = [op |-> "get", target |-> k, answer |-> Get(k, bad)]
       /\ faults' = faults + Cardinality(bad)
  /\ UNCHANGED <<phase, rep, added, file, cursor>>

Next == Add \/ BuildTable \/ Open \/ Move \/ InternalGet

Spec == Init /\ [][Next]_vars

-----------------------------------------------------------------------------
(* Properties *)

BlockOK(blk) ==
  /\ \A i \in 1 .. Len(blk.entries) : blk.entries[i].shared \in Nat
  /\ \A i \in 1 .. NumRestarts(blk) :
       blk.restarts[i] \in 0 .. EntriesOf(blk)
         /\ (blk.restarts[i] < EntriesOf(blk)
               => blk.entries[blk.restarts[i] + 1].shared = 0)

\* The builder's blocks are well formed - every restart point is the place
\* of an entry that holds its whole key - and the counters are in range.
TableTypeOK ==
  /\ phase \in {"build", "kept", "dropped"}
  /\ rep # None => BlockOK(rep.data) /\ BlockOK(rep.index) /\ rep.ok \in BOOLEAN
  /\ (phase = "kept") = (file # None)
  /\ file # None => /\ BlockOK(file.index)
                    /\ \A i \in 1 .. Len(file.blocks) : BlockOK(file.blocks[i].block)
  /\ faults \in 0 .. MaxFaults

(* The keys a block holds, rebuilt from its entries. *)
KeysOf(blk) == {blk.entries[i].value : i \in 1 .. EntriesOf(blk)}

\* The index points a search to the right block (table_builder.cc:31-36): the
\* key of a block's index entry is not below any key of the block and below
\* every key of the blocks after it, shortened as it may be.
IndexSeparates ==
  phase = "kept" =>
    \A i \in 1 .. Len(file.blocks) :
      LET sep == file.index.entries[i].delta
      IN  /\ \A k \in KeysOf(file.blocks[i].block) : ~Less(sep, k)
          /\ \A j \in i + 1 .. Len(file.blocks) :
               \A k \in KeysOf(file.blocks[j].block) : Less(sep, k)

\* A table that BuildTable keeps holds every key it was given, whatever
\* appends failed on the way: TableBuilder drops what it is given after a
\* failure and BuildTable has to notice.
KeptIsWhole ==
  phase = "kept" =>
    UNION {KeysOf(file.blocks[i].block) : i \in 1 .. Len(file.blocks)}
      = {added[i] : i \in 1 .. Len(added)}

(* Where one sorted list of the entries would leave the cursor. *)
Flat(c) ==
  LET n == Len(added)
      geq == {i \in 1 .. n : ~Less(added[i], c.target)}
  IN  CASE c.op = "first" -> 1
        [] c.op = "last"  -> n
        [] c.op = "next"  -> IF c.from = n THEN 0 ELSE c.from + 1
        [] c.op = "prev"  -> c.from - 1
        [] c.op = "seek"  -> IF geq = {} THEN 0 ELSE Min(geq)

\* The iterator over blocks, restart points and shared prefixes moves like
\* one over a sorted list, in both directions and across empty and unread
\* blocks, also after earlier calls met blocks that could not be read.
CursorAgrees ==
  call # None /\ call.op # "get" /\ call.bad = {} => Place(cursor) = Flat(call)

\* An iterator that passed over entries because a block could not be read
\* says so: status() is an error from then on, also when the data iterator
\* that met the error was replaced (SetDataIterator saves it).
SkipIsReported ==
  call # None /\ call.op # "get" /\ Place(cursor) # Flat(call)
    => ~Status(cursor)

\* A point read finds the newest entry of the user key that the snapshot
\* sees, and nothing only if there is none: neither the filter nor the
\* shortened index key sends it to the wrong block.
GetAgrees ==
  call # None /\ call.op = "get" /\ call.answer.ok =>
    LET seen == {k \in {added[i] : i \in 1 .. Len(added)} :
                   UserKey(k) = UserKey(call.target) /\ Tag(k) <= Tag(call.target)}
    IN  call.answer.value
          = IF seen = {} THEN <<>> ELSE CHOOSE k \in seen :
                                          \A l \in seen : Tag(l) <= Tag(k)
=============================================================================

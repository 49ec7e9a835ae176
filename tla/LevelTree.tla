----------------------------- MODULE LevelTree ------------------------------
(***************************************************************************)
(* What a leveldb database answers: the memtables, the levels of table     *)
(* files, snapshots, Get, the flush of a memtable to a level, and          *)
(* compactions (version_set.cc, and their callers in db_impl.cc).  A       *)
(* compaction runs without the mutex: writes, snapshots and the flush of   *)
(* the next memtable fall between its start and its end.                   *)
(*                                                                         *)
(* An entry is a user key, a sequence number and a type; a value is named  *)
(* by the sequence number of its write.  A file's size is its number of    *)
(* entries.                                                                *)
(***************************************************************************)
EXTENDS Integers, Sequences, FiniteSets, FiniteSetsExt, SequencesExt

CONSTANTS
  LevelBytes,      \* MaxBytesForLevel of every level above 0
  GrandLimit,      \* MaxGrandParentOverlapBytes
  ExpandLimit,     \* ExpandedCompactionByteSizeLimit
  Options          \* the settings a behaviour may run under: records of
                   \*   Key           user keys, integers
                   \*   NumLevels     kNumLevels
                   \*   MaxMemLevel   kMaxMemCompactLevel
                   \*   L0Trigger     kL0_CompactionTrigger
                   \*   MaxOutput     MaxOutputFileSize
                   \*   Manual        TEST_CompactRange is called
                   \*   Types         subset of BOOLEAN: is a write a deletion
                   \*   MaxSeq        bound on the number of writes
                   \*   MaxSnapshots  bound on the snapshots held at a time
                   \*   MaxMem        bound on the entries of a memtable

ASSUME TreeAssumption ==
  /\ {LevelBytes, GrandLimit, ExpandLimit} \subseteq Nat
  /\ \A o \in Options :
       /\ o.Key \subseteq Int /\ o.Manual \in BOOLEAN /\ o.Types \subseteq BOOLEAN
       /\ {o.NumLevels, o.MaxMemLevel, o.L0Trigger, o.MaxOutput, o.MaxSeq,
           o.MaxSnapshots, o.MaxMem} \subseteq Nat
       /\ o.MaxMemLevel < o.NumLevels /\ o.MaxOutput > 0

VARIABLES
  opt,          \* the settings, fixed
  mem, imm,     \* entries of the memtables
  files,        \* [level -> set of [num, ents]]: the current version
  next,         \* next_file_number_
  seq,          \* last_sequence_
  snaps,        \* snapshots_
  pointer,      \* compact_pointer_: [level -> entry or NoEntry]
  comp,         \* the running compaction, or NoComp
  hist          \* ghost: every entry ever written

vars == <<opt, mem, imm, files, next, seq, snaps, pointer, comp, hist>>

Level == 0 .. opt.NumLevels - 1
NoEntry == [key |-> -1, seq |-> 0, del |-> FALSE]
NoComp == [level |-> -1, in0 |-> {}, in1 |-> {}, snap |-> 0, base |-> << >>]

Init ==
  /\ opt \in Options
  /\ mem = {} /\ imm = {} /\ files = [l \in Level |-> {}]
  /\ next = 1 /\ seq = 0 /\ snaps = {}
  /\ pointer = [l \in Level |-> NoEntry] /\ comp = NoComp /\ hist = {}

-----------------------------------------------------------------------------
(* Keys and files *)

(* InternalKeyComparator: user key up, sequence number down. *)
Before(a, b) == a.key < b.key \/ (a.key = b.key /\ a.seq > b.seq)

Smallest(f) == CHOOSE e \in f.ents : \A d \in f.ents : d = e \/ Before(e, d)
Largest(f) == CHOOSE e \in f.ents : \A d \in f.ents : d = e \/ Before(d, e)
FileMin(f) == Smallest(f).key
FileMax(f) == Largest(f).key

TotalFileSize(fs) == MapThenSumSet(LAMBDA f : Cardinality(f.ents), fs)

Overlaps(f, lo, hi) == FileMax(f) >= lo /\ FileMin(f) <= hi

(* Version::OverlapInLevel *)
OverlapInLevel(v, l, lo, hi) == \E f \in v[l] : Overlaps(f, lo, hi)

(* Version::GetOverlappingInputs: at level 0 the range grows with the      *)
(* files it takes until no other file overlaps it.                         *)
Closed(fs, S, lo, hi) ==
  LET low == Min({lo} \union {FileMin(f) : f \in S})
      high == Max({hi} \union {FileMax(f) : f \in S})
  IN S = {f \in fs : Overlaps(f, low, high)}

(* Mutant: level 0 is not treated specially. *)
GetOverlappingInputsOnce(v, l, lo, hi) == {f \in v[l] : Overlaps(f, lo, hi)}

GetOverlappingInputs(v, l, lo, hi) ==
  LET direct == {f \in v[l] : Overlaps(f, lo, hi)}
  IN IF l > 0 THEN direct
     ELSE CHOOSE S \in {X \in SUBSET v[0] : direct \subseteq X /\ Closed(v[0], X, lo, hi)} :
            \A X \in SUBSET v[0] :
              direct \subseteq X /\ Closed(v[0], X, lo, hi) => S \subseteq X

Lo(fs) == Min({FileMin(f) : f \in fs})
Hi(fs) == Max({FileMax(f) : f \in fs})

-----------------------------------------------------------------------------
(* Reading *)

(* The entry a memtable or table yields for key k at sequence number s. *)
Visible(ents, k, s) == {e \in ents : e.key = k /\ e.seq <= s}
Newest(es) == IF es = {} THEN NoEntry ELSE CHOOSE e \in es : \A d \in es : d.seq <= e.seq

(* Version::Get: level 0 from newest to oldest, then one file per level.   *)
Level0Path(v, k) ==
  SetToSortSeq({f \in v[0] : FileMin(f) <= k /\ k <= FileMax(f)},
               LAMBDA f, g : f.num > g.num)

(* FindFile: the first file whose largest key is not before (k, s). *)
FindFile(v, l, k, s) ==
  LET at == [key |-> k, seq |-> s, del |-> FALSE]
      fs == {f \in v[l] : ~Before(Largest(f), at)}
  IN IF fs = {} THEN {}
     ELSE {CHOOSE f \in fs : \A g \in fs : g = f \/ Before(Smallest(f), Smallest(g))}

LevelPath(v, l, k, s) ==
  IF l = 0 THEN Level0Path(v, k)
  ELSE SetToSeq({f \in FindFile(v, l, k, s) : k >= FileMin(f)})

(* The files a Get may look into, in order. *)
ReadPath(v, k, s) == FlattenSeq([l \in 1 .. opt.NumLevels |-> LevelPath(v, l - 1, k, s)])

(* DBImpl::Get: mem_, imm_, then the current version; the first hit wins,  *)
(* a deletion included.                                                    *)
Get(k, s) ==
  LET tables == [i \in DOMAIN ReadPath(files, k, s) |-> ReadPath(files, k, s)[i].ents]
      places == <<mem, imm>> \o tables
      hits == {i \in DOMAIN places : Visible(places[i], k, s) # {}}
  IN IF hits = {} THEN NoEntry ELSE Newest(Visible(places[Min(hits)], k, s))

-----------------------------------------------------------------------------
(* Writing, snapshots *)

Write(k, d) ==
  /\ seq < opt.MaxSeq /\ Cardinality(mem) < opt.MaxMem
  /\ LET e == [key |-> k, seq |-> seq + 1, del |-> d]
     IN mem' = mem \union {e} /\ hist' = hist \union {e}
  /\ seq' = seq + 1
  /\ UNCHANGED <<opt, imm, files, next, snaps, pointer, comp>>

GetSnapshot ==
  /\ Cardinality(snaps) < opt.MaxSnapshots /\ seq > 0
  /\ snaps' = snaps \union {seq} /\ snaps' # snaps
  /\ UNCHANGED <<opt, mem, imm, files, next, seq, pointer, comp, hist>>

ReleaseSnapshot ==
  /\ \E s \in snaps : snaps' = snaps \ {s}
  /\ UNCHANGED <<opt, mem, imm, files, next, seq, pointer, comp, hist>>

SwitchMemTable ==
  /\ mem # {} /\ imm = {}
  /\ imm' = mem /\ mem' = {}
  /\ UNCHANGED <<opt, files, next, seq, snaps, pointer, comp, hist>>

-----------------------------------------------------------------------------
(* Flush: CompactMemTable, WriteLevel0Table *)

(* PickLevelForMemTableOutput: down while nothing overlaps and the level   *)
(* after that does not overlap too much.                                   *)
PickLevelForMemTableOutput(v, lo, hi) ==
  LET passes(l) ==   \* from level l - 1 to level l
        /\ ~OverlapInLevel(v, l, lo, hi)
        /\ l + 1 < opt.NumLevels => TotalFileSize(GetOverlappingInputs(v, l + 1, lo, hi)) <= GrandLimit
  IN IF OverlapInLevel(v, 0, lo, hi) THEN 0
     ELSE Max({l \in 0 .. opt.MaxMemLevel : \A m \in 1 .. l : passes(m)})

(* Also called by DoCompactionWork while a compaction is running. *)
CompactMemTable ==
  /\ imm # {}
  /\ LET f == [num |-> next, ents |-> imm]
         l == PickLevelForMemTableOutput(files, FileMin(f), FileMax(f))
     IN files' = [files EXCEPT ![l] = @ \union {f}]
  /\ next' = next + 1 /\ imm' = {}
  /\ UNCHANGED <<opt, mem, seq, snaps, pointer, comp, hist>>

-----------------------------------------------------------------------------
(* Choosing a compaction *)

(* Finalize: score of a level, as a fraction [n, d]; ties go to the lower. *)
Score(v, l) ==
  IF l = 0 THEN [n |-> Cardinality(v[0]), d |-> opt.L0Trigger]
  ELSE [n |-> TotalFileSize(v[l]), d |-> LevelBytes]

BestLevel(v) ==
  CHOOSE l \in 0 .. opt.NumLevels - 2 : \A m \in 0 .. opt.NumLevels - 2 :
    LET a == Score(v, l)  b == Score(v, m)
    IN a.n * b.d > b.n * a.d \/ (a.n * b.d = b.n * a.d /\ l <= m)

NeedsSize(v) == LET s == Score(v, BestLevel(v)) IN s.n >= s.d

(* Files in the order of the version: by smallest key. *)
Sorted(fs) == SetToSortSeq(fs, LAMBDA f, g : Before(Smallest(f), Smallest(g))
                                          \/ (Smallest(f) = Smallest(g) /\ f.num < g.num))

(* The first file after compact_pointer_, or the first one. *)
SizePick(l) ==
  LET after == {f \in files[l] : pointer[l] = NoEntry \/ Before(pointer[l], Largest(f))}
  IN Head(Sorted(IF after = {} THEN files[l] ELSE after))

(* SetupOtherInputs: grow the inputs of level l when that takes no more    *)
(* files of the next level.                                                *)
Expand(l, in0, in1) ==
  LET lo == Lo(in0 \union in1)  hi == Hi(in0 \union in1)
      exp0 == GetOverlappingInputs(files, l, lo, hi)
      exp1 == GetOverlappingInputs(files, l + 1, Lo(exp0), Hi(exp0))
  IN IF /\ in1 # {}
        /\ Cardinality(exp0) > Cardinality(in0)
        /\ TotalFileSize(in1) + TotalFileSize(exp0) < ExpandLimit
        /\ Cardinality(exp1) = Cardinality(in1)
     THEN <<exp0, exp1>> ELSE <<in0, in1>>

(* Mutant: the overlapping files of the next level are not taken. *)
SetupOtherInputsNone(l, in0) ==
  [level |-> l, in0 |-> in0, in1 |-> {},
   snap |-> IF snaps = {} THEN seq ELSE Min(snaps), base |-> files]

SetupOtherInputs(l, in0) ==
  LET in1 == GetOverlappingInputs(files, l + 1, Lo(in0), Hi(in0))
      both == Expand(l, in0, in1)
  IN [level |-> l, in0 |-> both[1], in1 |-> both[2],
      snap |-> IF snaps = {} THEN seq ELSE Min(snaps),
      base |-> files]

Grandparents(c) ==
  IF c.level + 2 >= opt.NumLevels THEN {}
  ELSE GetOverlappingInputs(c.base, c.level + 2, Lo(c.in0 \union c.in1), Hi(c.in0 \union c.in1))

IsTrivialMove(c) ==
  Cardinality(c.in0) = 1 /\ c.in1 = {} /\ TotalFileSize(Grandparents(c)) <= GrandLimit

(* DoCompactionWork starts, or BackgroundCompaction moves the one file.    *)
Begin(c, manual) ==
  /\ pointer' = [pointer EXCEPT ![c.level] =
       CHOOSE e \in {Largest(f) : f \in c.in0} : \A f \in c.in0 :
         Largest(f) = e \/ Before(Largest(f), e)]
  /\ IF ~manual /\ IsTrivialMove(c)
     THEN /\ files' = [files EXCEPT ![c.level] = @ \ c.in0, ![c.level + 1] = @ \union c.in0]
          /\ UNCHANGED comp
     ELSE comp' = c /\ UNCHANGED files
  /\ UNCHANGED <<opt, mem, imm, next, seq, snaps, hist>>

Idle == comp = NoComp /\ imm = {}

(* PickCompaction: too much data in a level ... *)
SizeCompaction ==
  /\ Idle /\ NeedsSize(files)
  /\ LET l == BestLevel(files)
         f == SizePick(l)
     IN Begin(SetupOtherInputs(l, IF l = 0
          THEN GetOverlappingInputs(files, 0, FileMin(f), FileMax(f)) ELSE {f}), FALSE)

(* ... or a file that many Gets read before they had to read another one   *)
(* (Version::Get, UpdateStats).                                            *)
SeekCompaction ==
  /\ Idle /\ ~NeedsSize(files)
  /\ \E k \in opt.Key :
       LET path == ReadPath(files, k, seq)
       IN /\ Len(path) >= 2
          /\ \E l \in 0 .. opt.NumLevels - 2 :
               /\ path[1] \in files[l]
               /\ Begin(SetupOtherInputs(l, IF l = 0
                    THEN GetOverlappingInputs(files, 0, FileMin(path[1]), FileMax(path[1]))
                    ELSE {path[1]}), FALSE)

(* The longest prefix of the sorted files that reaches the size limit. *)
Limited(fs) ==
  LET s == Sorted(fs)
      full == {i \in DOMAIN s : TotalFileSize({s[j] : j \in 1 .. i}) >= opt.MaxOutput}
  IN IF full = {} THEN fs ELSE {s[j] : j \in 1 .. Min(full)}

(* VersionSet::CompactRange for TEST_CompactRange. *)
ManualCompaction ==
  /\ opt.Manual /\ Idle
  /\ \E l \in 0 .. opt.NumLevels - 2, lo \in opt.Key, hi \in opt.Key :
       LET in == GetOverlappingInputs(files, l, lo, hi)
       IN /\ lo <= hi /\ in # {}
          /\ Begin(SetupOtherInputs(l, IF l = 0 THEN in ELSE Limited(in)), TRUE)

-----------------------------------------------------------------------------
(* DoCompactionWork *)

Inputs(c) == UNION {f.ents : f \in c.in0 \union c.in1}

IsBaseLevelForKey(c, k) ==
  \A l \in c.level + 2 .. opt.NumLevels - 1 : \A f \in c.base[l] : ~(FileMin(f) <= k /\ k <= FileMax(f))

(* Mutant: a hidden entry is dropped even if a snapshot needs it. *)
DropIgnoresSnapshots(c, e) ==
  \/ \E n \in Inputs(c) : n.key = e.key /\ n.seq > e.seq
  \/ e.del /\ e.seq <= c.snap /\ IsBaseLevelForKey(c, e.key)

(* Hidden by a newer entry (A), or a deletion marker nobody needs. *)
Drop(c, e) ==
  \/ \E n \in Inputs(c) : n.key = e.key /\ n.seq > e.seq /\ n.seq <= c.snap
  \/ e.del /\ e.seq <= c.snap /\ IsBaseLevelForKey(c, e.key)

(* ShouldStopBefore: the grandparent files passed since the last output. *)
Passed(c, e) == {g \in Grandparents(c) : Before(Largest(g), e)}

(* One key of the loop: a = [outs, cur, passed, seen, overlap]. *)
Feed(c, a, e) ==
  LET grown == a.overlap + (IF a.seen THEN TotalFileSize(Passed(c, e) \ a.passed) ELSE 0)
      stop == grown > GrandLimit
      cut == IF stop /\ a.cur # {} THEN [a EXCEPT !.outs = Append(@, a.cur), !.cur = {}] ELSE a
      cur == IF Drop(c, e) THEN cut.cur ELSE cut.cur \union {e}
      full == Cardinality(cur) >= opt.MaxOutput
  IN [outs |-> IF full THEN Append(cut.outs, cur) ELSE cut.outs,
      cur |-> IF full THEN {} ELSE cur,
      passed |-> Passed(c, e), seen |-> TRUE,
      overlap |-> IF stop THEN 0 ELSE grown]

Outputs(c) ==
  LET all == SetToSortSeq(Inputs(c), Before)
      a == FoldLeft(LAMBDA acc, e : Feed(c, acc, e),
             [outs |-> << >>, cur |-> {}, passed |-> {}, seen |-> FALSE, overlap |-> 0], all)
  IN IF a.cur = {} THEN a.outs ELSE Append(a.outs, a.cur)

(* Mutant: the numbers of the outputs are used again. *)
FinishReusesNumbers ==
  /\ comp # NoComp
  /\ LET outs == Outputs(comp)
         new == {[num |-> next + i - 1, ents |-> outs[i]] : i \in DOMAIN outs}
     IN /\ files' = [files EXCEPT ![comp.level] = @ \ comp.in0,
                                  ![comp.level + 1] = (@ \ comp.in1) \union new]
        /\ next' = next
  /\ comp' = NoComp
  /\ UNCHANGED <<opt, mem, imm, seq, snaps, pointer, hist>>

(* InstallCompactionResults: LogAndApply on the version current by then. *)
FinishCompaction ==
  /\ comp # NoComp
  /\ LET outs == Outputs(comp)
         new == {[num |-> next + i - 1, ents |-> outs[i]] : i \in DOMAIN outs}
     IN /\ files' = [files EXCEPT ![comp.level] = @ \ comp.in0,
                                  ![comp.level + 1] = (@ \ comp.in1) \union new]
        /\ next' = next + Len(outs)
  /\ comp' = NoComp
  /\ UNCHANGED <<opt, mem, imm, seq, snaps, pointer, hist>>

Next ==
  \/ \E k \in opt.Key, d \in opt.Types : Write(k, d)
  \/ GetSnapshot \/ ReleaseSnapshot \/ SwitchMemTable \/ CompactMemTable
  \/ SizeCompaction \/ SeekCompaction \/ ManualCompaction \/ FinishCompaction

Spec == Init /\ [][Next]_vars

-----------------------------------------------------------------------------
(* Type correctness. *)
TreeTypeOK ==
  /\ seq \in 0 .. opt.MaxSeq /\ next \in Nat /\ snaps \subseteq 1 .. seq
  /\ \A l \in Level : \A f \in files[l] : f.ents # {} /\ f.ents \subseteq hist /\ f.num < next
  /\ mem \subseteq hist /\ imm \subseteq hist
  /\ comp.level \in -1 .. opt.NumLevels - 2

(* Every Get, now and at every snapshot, answers the newest write that it  *)
(* may see, or nothing when that is a deletion.                            *)
Latest(k, s) == Newest(Visible(hist, k, s))
ReadsAgree ==
  \A k \in opt.Key : \A s \in snaps \union {seq} :
    LET got == Get(k, s)  want == Latest(k, s)
    IN IF want.del THEN got = NoEntry \/ got.del ELSE got = want

(* In every level above 0 the files are disjoint and in order: a Get looks *)
(* at one file only (Builder::SaveTo: "no overlap in levels > 0").         *)
LevelsDisjoint ==
  \A l \in Level \ {0} : \A f, g \in files[l] :
    f # g => Before(Largest(f), Smallest(g)) \/ Before(Largest(g), Smallest(f))

(* For a key, what is nearer to the memtable is newer: a search can stop   *)
(* at the first level that has the key (Version::Get: "entries never hop   *)
(* across levels").                                                        *)
NewerAbove ==
  LET place == <<{mem}, {imm}>> \o
        [i \in 1 .. Cardinality(files[0]) |-> {SetToSortSeq(files[0], LAMBDA f, g : f.num > g.num)[i].ents}]
        \o [l \in 1 .. opt.NumLevels - 1 |-> {f.ents : f \in files[l]}]
  IN \A i, j \in DOMAIN place : i < j =>
       \A e \in UNION place[i], d \in UNION place[j] : e.key = d.key => e.seq > d.seq

(* The levels a read relies on: disjoint files above level 0, and newer    *)
(* entries of a key nearer to the memtable.                                *)
TreeShape == TreeTypeOK /\ LevelsDisjoint /\ NewerAbove
=============================================================================

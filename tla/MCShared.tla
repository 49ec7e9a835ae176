------------------------------ MODULE MCShared ------------------------------
(***************************************************************************)
(* The structures of a process that threads share, on small instances: the *)
(* write queue, the cache, the skip list of a memtable, an iterator over a *)
(* memtable that is still written, the lock of the database directory (of  *)
(* three processes, and of three threads of one process) and the limits on *)
(* open files.  They share no state, so that each behaviour runs one of    *)
(* them and leaves the others as they were.                                *)
(***************************************************************************)
EXTENDS TLC, Integers, Sequences, FiniteSets

CONSTANTS
  Caller, NoCaller, Call, Size, Pieces, WriteBuffer, Trigger, Slowdown, Stop,
  SmallBatch, LargeGroup, Faults,   \* those of WriteQueue
  LockThread,   \* the threads that lock a database directory
  NoLock,       \* nobody holds the record lock
  FileThread, TableFile, MmapLimit, FdLimit   \* those of FileLimits

ASSUME QueueAssumption ==
  /\ IsFiniteSet(Caller) /\ NoCaller \notin Caller
  /\ Call \in [Caller -> {"write", "sync", "flush", "compact", "get"}]
  /\ Size \in [Caller -> Nat] /\ Pieces \in Nat
  /\ {WriteBuffer, Trigger, Slowdown, Stop, SmallBatch, LargeGroup} \subseteq Nat

ASSUME LocksAssumption == LockThread # {} /\ NoLock \notin LockThread

(* The limits are computed once, by MaxMmaps and MaxOpenFiles. *)
ASSUME LimitsAssumption ==
  /\ IsFiniteSet(FileThread) /\ IsFiniteSet(TableFile)
  /\ MmapLimit \in Nat /\ FdLimit \in Nat

VARIABLES
  part,                                            \* the part that runs
  pc, asleep, queue, status, room, last, log, seq, mem, imm, stored, l0, seek,
  err, sched, bg, manual, left, mdone, closing, came,  \* WriteQueue
  cache, cachePc, asked, held, made, deleted,                    \* LruCache
  link, height, ins, done, rd, seen,                             \* SkipList
  src, itSeq, snap, m, it, run, want,                          \* DbIterator
  lockPc, locks, kernel,                                        \* FileLocks
  allowed, filePc, kind, fds, maps                             \* FileLimits

(* Two plain writes, one of them too large for a group of small ones, a    *)
(* sync write and a manual compaction; everything may fail.                *)
CallMade == <<"write", "write", "sync", "compact">>
BatchSize == <<1, 3, 1, 1>>

Queue == INSTANCE WriteQueue WITH Thread <- Caller, Nobody <- NoCaller

(* Three keys, two of which share a bucket of the smallest hash table. *)
Cache == INSTANCE LruCache WITH
  Thread <- 1 .. 3, Key <- 1 .. 3, Hash <- <<0, 1, 2>>, Charge <- <<1, 1, 2>>,
  Capacity <- 3, MinLength <- 1, MaxHandles <- 4, pc <- cachePc, want <- asked

List == INSTANCE SkipList WITH Key <- 1 .. 3, MaxHeight <- 3, Reader <- {"r"}

Iter == INSTANCE DbIterator WITH
  Key <- {1, 2, 3}, N <- 2, Old <- 2, MaxSeq <- 4, seq <- itSeq

(* Processes of one thread each; the threads of one process. *)
Processes == INSTANCE FileLocks WITH
  Process <- LockThread, Thread <- LockThread, ProcessOf <- [t \in LockThread |-> t],
  NoProcess <- NoLock, pc <- lockPc

OneProcess == CHOOSE p \in LockThread : TRUE

Threads == INSTANCE FileLocks WITH
  Process <- {OneProcess}, Thread <- LockThread,
  ProcessOf <- [t \in LockThread |-> OneProcess], NoProcess <- NoLock, pc <- lockPc

Limits == INSTANCE FileLimits WITH Thread <- FileThread, File <- TableFile, pc <- filePc

queueVars == <<pc, asleep, queue, status, room, last, log, seq, mem, imm, stored,
               l0, seek, err, sched, bg, manual, left, mdone, closing, came>>
cacheVars == <<cache, cachePc, asked, held, made, deleted>>
listVars == <<link, height, ins, done, rd, seen>>
iterVars == <<src, itSeq, snap, m, it, run, want>>
lockVars == <<lockPc, locks, kernel>>
fileVars == <<allowed, filePc, kind, fds, maps>>
vars == <<part, queueVars, cacheVars, listVars, iterVars, lockVars, fileVars>>

NoCache ==
  cache = 0 /\ cachePc = 0 /\ asked = 0 /\ held = 0 /\ made = 0 /\ deleted = 0
NoIter ==
  src = 0 /\ itSeq = 0 /\ snap = 0 /\ m = 0 /\ it = 0 /\ run = 0 /\ want = 0

SharedPart ==
  {"queue", "cache", "list", "iterator", "processes", "threads", "limits"}

Start ==
  /\ Queue!Init /\ List!Init /\ Threads!Init /\ Limits!Init
  /\ IF part = "cache" THEN Cache!Init ELSE NoCache
  /\ IF part = "iterator" THEN Iter!Init ELSE NoIter

Init == part \in SharedPart /\ Start

Next ==
  \/ /\ part = "queue" /\ Queue!Next
     /\ UNCHANGED <<part, cacheVars, listVars, iterVars, lockVars, fileVars>>
  \/ /\ part = "cache" /\ Cache!Next
     /\ UNCHANGED <<part, queueVars, listVars, iterVars, lockVars, fileVars>>
  \/ /\ part = "list" /\ List!Next
     /\ UNCHANGED <<part, queueVars, cacheVars, iterVars, lockVars, fileVars>>
  \/ /\ part = "iterator" /\ Iter!Next
     /\ UNCHANGED <<part, queueVars, cacheVars, listVars, lockVars, fileVars>>
  \/ /\ \/ part = "processes" /\ Processes!Next
        \/ part = "threads" /\ Threads!Next
     /\ UNCHANGED <<part, queueVars, cacheVars, listVars, iterVars, fileVars>>
  \/ /\ part = "limits" /\ Limits!Next
     /\ UNCHANGED <<part, queueVars, cacheVars, listVars, iterVars, lockVars>>

Spec == Init /\ [][Next]_vars

-----------------------------------------------------------------------------
(* Properties *)

\* The write queue: at most one thread is past it, although the mutex is free
\* while a group is logged; a batch whose Write returned ok was logged once,
\* in order of arrival, with sequence numbers of its own, and is in a
\* memtable or a table; a sync write that returned ok was synced, also when
\* another thread logged it, and after a failed sync nothing is logged.
QueueSound ==
  part = "queue" =>
    /\ Queue!QueueTypeOK /\ Queue!OneLeader /\ Queue!AppliedOnceInOrder
    /\ Queue!SequencesDisjoint /\ Queue!SyncHonoured /\ Queue!NothingAfterFailedSync

\* A call of TEST_CompactRange that gives up cancels only a manual compaction
\* that the background thread is not working on.
ManualStays == part = "queue" => Queue!ManualStays

\* The cache: an entry lives as long as somebody holds it and its deleter
\* runs once; the items are in one of the two lists and never in both, and a
\* lookup finds exactly them; usage_ is their charge; an insertion evicts the
\* oldest unused entries first, and leaves too much in use only if nothing
\* can be evicted.
CacheSound ==
  /\ [](part = "cache" => /\ Cache!CacheTypeOK /\ Cache!RefsAreHolders
                          /\ Cache!ListsPartition /\ Cache!UsageIsCharge)
  /\ [][part = "cache" => Cache!InsertEvicts]_vars

\* A reader that takes no lock misses no key whose Insert had returned when
\* it began: every level of the skip list is in order and a part of the level
\* below, between any two stores of an Insert.
ListSound == part = "list" => List!ListTypeOK /\ List!LevelsNest /\ List!NothingMissed

\* However Seek, Next and Prev are mixed, and whatever is written meanwhile,
\* the iterator is where a cursor over its snapshot would be; in reverse,
\* nothing visible lies between the internal iterator and the current key.
CursorAgrees ==
  part = "iterator" => Iter!IterTypeOK /\ Iter!CursorAgrees /\ Iter!ReverseIsBefore

\* Two threads never hold the database at once, not those of one process and
\* not those of three, and the lock a process was given is one the kernel
\* still enforces.
LocksSound ==
  /\ part \in {"processes", "threads"} => Threads!Exclusive
  /\ part = "processes" => Processes!LocksTypeOK /\ Processes!HeldIsLocked
  /\ part = "threads" => Threads!LocksTypeOK

\* The places for mappings and descriptors left and in use are always the
\* limit together, also while threads race for the last one and when mmap
\* fails; the process never has more than its limits and one descriptor for
\* each thread that opens or reads a file.
LimitsSound == part = "limits" => Limits!Balanced /\ Limits!Bounded
=============================================================================

----------------------------- MODULE WriteQueue -----------------------------
(***************************************************************************)
(* The threads of an open leveldb database (db_impl.cc): writers that      *)
(* queue up and let the first of them log a group, MakeRoomForWrite,       *)
(* TEST_CompactMemTable and TEST_CompactRange, the background thread, and  *)
(* the destructor.  A step is what a thread does while it holds mutex_, or *)
(* one stretch of work without it.  asleep[t] says that t is in the Wait   *)
(* of a condition variable: its own (pc "queue") or bg_cv_ (all others);   *)
(* a thread only goes on after a signal has set it to FALSE.               *)
(***************************************************************************)
EXTENDS Naturals, Sequences, FiniteSets, SequencesExt

CONSTANTS
  Thread,       \* each makes one call
  Call,         \* [Thread -> {"write", "sync", "flush", "compact", "get"}]
  Size,         \* [Thread -> Nat]: bytes of the batch of a write
  Pieces,       \* compactions that one TEST_CompactRange needs
  Nobody,       \* no manual compaction
  WriteBuffer,  \* writes a memtable holds before it is full
  Trigger,      \* kL0_CompactionTrigger
  Slowdown,     \* kL0_SlowdownWritesTrigger
  Stop,         \* kL0_StopWritesTrigger
  SmallBatch,   \* 128 << 10
  LargeGroup,   \* 1 << 20
  Faults        \* what may fail: "append", "sync", "switch", "background"

VARIABLES
  pc,       \* where each call is
  asleep,   \* who waits for a signal
  queue,    \* writers_
  status,   \* result of each Write: "none", "ok", "error"
  room,     \* [allow, force]: the locals of the leader's MakeRoomForWrite
  last,     \* how many of the queue are in the leader's group
  log,      \* ghost: sequence of [ids, synced, seq]: the records logged
  seq,      \* versions_->LastSequence()
  mem,      \* the writes in mem_
  imm,      \* << >> or << the writes in imm_ >>
  stored,   \* ghost: writes in tables
  l0,       \* number of level-0 files
  seek,     \* a file used up its allowed_seeks
  err,      \* bg_error_ is set
  sched,    \* bg_compaction_scheduled_
  bg,       \* what the background thread does
  manual,   \* manual_compaction_
  left,     \* [Thread -> Nat]: pieces a manual compaction still has to do
  mdone,    \* [Thread -> BOOLEAN]: ManualCompaction::done
  closing,  \* the destructor: "open", "waiting", "asleep" (on bg_cv_), "closed"
  came      \* ghost: the writes in the order of their arrival

vars == <<pc, asleep, queue, status, room, last, log, seq, mem, imm, stored,
          l0, seek, err, sched, bg, manual, left, mdone, closing, came>>

IsBatch(t) == Call[t] \in {"write", "sync"}
Shutting == closing # "open"

Init ==
  /\ pc = [t \in Thread |-> "start"] /\ asleep = [t \in Thread |-> FALSE]
  /\ queue = << >> /\ status = [t \in Thread |-> "none"]
  /\ room = [allow |-> FALSE, force |-> FALSE] /\ last = 0
  /\ log = << >> /\ seq = 0 /\ mem = {} /\ imm = << >> /\ stored = {}
  /\ l0 = 0 /\ seek = FALSE /\ err = FALSE
  /\ sched = FALSE /\ bg = "none" /\ manual = Nobody
  /\ left = [t \in Thread |-> Pieces] /\ mdone = [t \in Thread |-> FALSE]
  /\ closing = "open" /\ came = << >>

-----------------------------------------------------------------------------
(* Condition variables *)

(* bg_cv_.SignalAll() *)
WakeBg(a) == [t \in Thread |-> IF pc[t] \in {"room", "imm", "man"} THEN FALSE ELSE a[t]]

WakeClose == IF closing = "asleep" THEN "waiting" ELSE closing

(* MaybeScheduleCompaction, given the values after this step. *)
Schedules(errN, immN, manualN, l0N, seekN) ==
  /\ ~Shutting /\ ~errN
  /\ immN # << >> \/ manualN # Nobody \/ l0N >= Trigger \/ seekN

MaybeScheduleCompaction(immN, manualN, l0N, seekN) ==
  IF ~sched /\ Schedules(err, immN, manualN, l0N, seekN)
  THEN sched' = TRUE /\ bg' = "queued"
  ELSE UNCHANGED <<sched, bg>>

-----------------------------------------------------------------------------
(* DBImpl::Write *)

(* What a call does after its Write returned st. *)
After(t, st) ==
  CASE IsBatch(t) -> "done"
    [] Call[t] = "flush" -> IF st = "ok" THEN "imm" ELSE "done"
    [] OTHER -> IF st = "ok" THEN "imm" ELSE "man"

(* Mutant: a writer does not wait for its turn. *)
EnqueueSkipsQueue(t) ==
  /\ pc[t] = "start" /\ Call[t] # "get" /\ closing = "open"
  /\ queue' = Append(queue, t)
  /\ came' = IF IsBatch(t) THEN Append(came, t) ELSE came
  /\ pc' = [pc EXCEPT ![t] = "room"]
  /\ room' = [allow |-> IsBatch(t), force |-> ~IsBatch(t)]
  /\ UNCHANGED asleep
  /\ UNCHANGED <<status, last, log, seq, mem, imm, stored, l0, seek, err, sched,
                 bg, manual, left, mdone, closing>>

Enqueue(t) ==
  /\ pc[t] = "start" /\ Call[t] # "get" /\ closing = "open"
  /\ queue' = Append(queue, t)
  /\ came' = IF IsBatch(t) THEN Append(came, t) ELSE came
  /\ IF queue = << >>
     THEN /\ pc' = [pc EXCEPT ![t] = "room"]
          /\ room' = [allow |-> IsBatch(t), force |-> ~IsBatch(t)]
          /\ UNCHANGED asleep
     ELSE /\ pc' = [pc EXCEPT ![t] = "queue"]
          /\ asleep' = [asleep EXCEPT ![t] = TRUE]
          /\ UNCHANGED room
  /\ UNCHANGED <<status, last, log, seq, mem, imm, stored, l0, seek, err, sched,
                 bg, manual, left, mdone, closing>>

(* Signalled: the write was done by another, or t is now the leader. *)
Await(t) ==
  /\ pc[t] = "queue" /\ ~asleep[t]
  /\ \/ /\ status[t] # "none"
        /\ pc' = [pc EXCEPT ![t] = After(t, status[t])]
        /\ UNCHANGED <<asleep, room>>
     \/ /\ status[t] = "none" /\ Head(queue) = t
        /\ pc' = [pc EXCEPT ![t] = "room"]
        /\ room' = [allow |-> IsBatch(t), force |-> ~IsBatch(t)]
        /\ UNCHANGED asleep
  /\ UNCHANGED <<queue, status, last, log, seq, mem, imm, stored, l0, seek, err,
                 sched, bg, manual, left, mdone, closing, came>>

(* Mutant: the new head of the queue is not notified. *)
LeaveNoNotify(t, n, st, wake) ==
  LET out == ToSet(SubSeq(queue, 1, n))
  IN /\ queue' = SubSeq(queue, n + 1, Len(queue))
     /\ status' = [u \in Thread |-> IF u \in out THEN st ELSE status[u]]
     /\ asleep' = [u \in Thread |-> IF u \in out \ {t} THEN FALSE ELSE wake[u]]
     /\ pc' = [pc EXCEPT ![t] = After(t, st)]
     /\ last' = 0

(* The end of Write: the group leaves the queue with st, its members and   *)
(* the new head are signalled; wake are the sleepers after other signals.  *)
Leave(t, n, st, wake) ==
  LET out == ToSet(SubSeq(queue, 1, n))
      rest == SubSeq(queue, n + 1, Len(queue))
      head == IF rest = << >> THEN {} ELSE {Head(rest)}
  IN /\ queue' = rest
     /\ status' = [u \in Thread |-> IF u \in out THEN st ELSE status[u]]
     /\ asleep' = [u \in Thread |-> IF u \in (out \ {t}) \union head THEN FALSE ELSE wake[u]]
     /\ pc' = [pc EXCEPT ![t] = After(t, st)]
     /\ last' = 0

Bytes(n) == FoldSeq(LAMBDA t, acc : acc + Size[t], 0,
                    SelectSeq(SubSeq(queue, 1, n), IsBatch))

MaxSize(first) == IF Size[first] <= SmallBatch THEN Size[first] + SmallBatch ELSE LargeGroup

(* Mutant: a sync write may ride on a group that is not synced. *)
GroupTakesSync ==
  LET Joins(n) == IsBatch(queue[n]) => Bytes(n) <= MaxSize(Head(queue))
  IN CHOOSE n \in 1 .. Len(queue) :
       /\ \A i \in 2 .. n : Joins(i)
       /\ n < Len(queue) => ~Joins(n + 1)

(* BuildBatchGroup: the writers that join the first one.  Writers without  *)
(* a batch join as well.                                                   *)
BuildBatchGroup ==
  LET Joins(n) == /\ Call[queue[n]] = "sync" => Call[Head(queue)] = "sync"
                  /\ IsBatch(queue[n]) => Bytes(n) <= MaxSize(Head(queue))
  IN CHOOSE n \in 1 .. Len(queue) :
       /\ \A i \in 2 .. n : Joins(i)
       /\ n < Len(queue) => ~Joins(n + 1)

(* The branches of the loop of MakeRoomForWrite, in their order. *)
InRoom(t) == pc[t] = "room" /\ ~asleep[t]
Delays == room.allow /\ l0 >= Slowdown
HasRoom == ~room.force /\ Cardinality(mem) <= WriteBuffer

(* Yield the background error: the write fails alone. *)
RoomError(t) ==
  /\ InRoom(t) /\ err
  /\ Leave(t, 1, "error", asleep)
  /\ UNCHANGED <<room, log, seq, mem, imm, stored, l0, seek, err, sched, bg,
                 manual, left, mdone, closing, came>>

RoomDelay(t) ==
  /\ InRoom(t) /\ ~err /\ Delays
  /\ pc' = [pc EXCEPT ![t] = "nap"]
  /\ UNCHANGED <<asleep, queue, status, room, last, log, seq, mem, imm, stored, l0,
                 seek, err, sched, bg, manual, left, mdone, closing, came>>

RoomNapEnds(t) ==
  /\ pc[t] = "nap"
  /\ pc' = [pc EXCEPT ![t] = "room"]
  /\ room' = [room EXCEPT !.allow = FALSE]
  /\ UNCHANGED <<asleep, queue, status, last, log, seq, mem, imm, stored, l0,
                 seek, err, sched, bg, manual, left, mdone, closing, came>>

(* There is room: a batch builds its group and unlocks, no batch is done. *)
RoomEnough(t) ==
  /\ InRoom(t) /\ ~err /\ ~Delays /\ HasRoom
  /\ IF IsBatch(t)
     THEN /\ pc' = [pc EXCEPT ![t] = "log"] /\ last' = BuildBatchGroup
          /\ UNCHANGED <<asleep, queue, status>>
     ELSE Leave(t, 1, "ok", asleep)
  /\ UNCHANGED <<room, log, seq, mem, imm, stored, l0, seek, err, sched, bg,
                 manual, left, mdone, closing, came>>

(* imm_ is still being compacted, or there are too many level-0 files. *)
RoomWait(t) ==
  /\ InRoom(t) /\ ~err /\ ~Delays /\ ~HasRoom
  /\ imm # << >> \/ l0 >= Stop
  /\ asleep' = [asleep EXCEPT ![t] = TRUE]
  /\ UNCHANGED <<pc, queue, status, room, last, log, seq, mem, imm, stored, l0,
                 seek, err, sched, bg, manual, left, mdone, closing, came>>

RoomFull(t) == InRoom(t) /\ ~err /\ ~Delays /\ ~HasRoom /\ imm = << >> /\ l0 < Stop

RoomSwitch(t) ==
  /\ RoomFull(t)
  /\ imm' = <<mem>> /\ mem' = {}
  /\ room' = [room EXCEPT !.force = FALSE]
  /\ MaybeScheduleCompaction(imm', manual, l0, seek)
  /\ UNCHANGED <<pc, asleep, queue, status, last, log, seq, stored, l0, seek, err,
                 manual, left, mdone, closing, came>>

(* NewWritableFile fails: this write fails, the database goes on. *)
RoomSwitchFails(t) ==
  /\ RoomFull(t) /\ "switch" \in Faults
  /\ Leave(t, 1, "error", asleep)
  /\ UNCHANGED <<room, log, seq, mem, imm, stored, l0, seek, err, sched, bg,
                 manual, left, mdone, closing, came>>

(* Mutant: the batches of the followers are not appended. *)
GroupLeaderOnly == [n \in {1} |-> Head(queue)]

(* The batches of the group, at their places in it. *)
Group == [n \in {i \in 1 .. last : IsBatch(queue[i])} |-> queue[n]]

(* Mutant: a group takes one sequence number. *)
LogGroupCountsOne(t) ==
  /\ pc[t] = "log"
  /\ log' = Append(log, [ids |-> Group, synced |-> Call[t] = "sync", seq |-> seq + 1])
  /\ mem' = mem \union Range(Group)
  /\ seq' = seq + 1
  /\ Leave(t, last, "ok", asleep)
  /\ UNCHANGED <<room, imm, stored, l0, seek, err, sched, bg, manual, left, mdone,
                 closing, came>>

(* AddRecord, Sync if the leader asks for it, InsertInto, SetLastSequence. *)
LogGroup(t) ==
  /\ pc[t] = "log"
  /\ log' = Append(log, [ids |-> Group, synced |-> Call[t] = "sync", seq |-> seq + 1])
  /\ mem' = mem \union Range(Group)
  /\ seq' = seq + Cardinality(DOMAIN Group)
  /\ Leave(t, last, "ok", asleep)
  /\ UNCHANGED <<room, imm, stored, l0, seek, err, sched, bg, manual, left, mdone,
                 closing, came>>

AddRecordFails(t) ==
  /\ pc[t] = "log" /\ "append" \in Faults
  /\ seq' = seq + Cardinality(DOMAIN Group)
  /\ Leave(t, last, "error", asleep)
  /\ UNCHANGED <<room, log, mem, imm, stored, l0, seek, err, sched, bg, manual,
                 left, mdone, closing, came>>

(* Mutant: a failed sync is reported but not remembered. *)
SyncFailsForgotten(t) ==
  /\ pc[t] = "log" /\ Call[t] = "sync" /\ "sync" \in Faults
  /\ log' = Append(log, [ids |-> Group, synced |-> FALSE, seq |-> seq + 1])
  /\ seq' = seq + Cardinality(DOMAIN Group)
  /\ Leave(t, last, "error", asleep)
  /\ UNCHANGED <<room, mem, imm, stored, l0, seek, err, sched, bg, manual, left,
                 mdone, closing, came>>

(* The record may or may not be in the log: all later writes must fail. *)
SyncFails(t) ==
  /\ pc[t] = "log" /\ Call[t] = "sync" /\ "sync" \in Faults
  /\ log' = Append(log, [ids |-> Group, synced |-> FALSE, seq |-> seq + 1])
  /\ seq' = seq + Cardinality(DOMAIN Group)
  /\ err' = TRUE
  /\ Leave(t, last, "error", WakeBg(asleep))
  /\ UNCHANGED <<room, mem, imm, stored, l0, seek, sched, bg, manual, left, mdone,
                 closing, came>>

-----------------------------------------------------------------------------
(* TEST_CompactMemTable after its Write, TEST_CompactRange, Get *)

ImmLoop(t) ==
  /\ pc[t] = "imm" /\ ~asleep[t]
  /\ IF imm # << >> /\ ~err
     THEN asleep' = [asleep EXCEPT ![t] = TRUE] /\ UNCHANGED pc
     ELSE /\ pc' = [pc EXCEPT ![t] = IF Call[t] = "flush" THEN "done" ELSE "man"]
          /\ UNCHANGED asleep
  /\ UNCHANGED <<queue, status, room, last, log, seq, mem, imm, stored, l0, seek,
                 err, sched, bg, manual, left, mdone, closing, came>>

ManualLoop(t) ==
  /\ pc[t] = "man" /\ ~asleep[t]
  /\ IF mdone[t] \/ err
     THEN /\ pc' = [pc EXCEPT ![t] = "done"]
          /\ manual' = IF manual = t THEN Nobody ELSE manual
          /\ UNCHANGED <<asleep, sched, bg>>
     ELSE IF manual = Nobody
     THEN /\ manual' = t
          /\ MaybeScheduleCompaction(imm, t, l0, seek)
          /\ UNCHANGED <<pc, asleep>>
     ELSE /\ asleep' = [asleep EXCEPT ![t] = TRUE]
          /\ UNCHANGED <<pc, manual, sched, bg>>
  /\ UNCHANGED <<queue, status, room, last, log, seq, mem, imm, stored, l0, seek,
                 err, left, mdone, closing, came>>

(* Get: UpdateStats may use up a file's allowed_seeks. *)
GetEnds(t) ==
  /\ pc[t] = "start" /\ Call[t] = "get" /\ closing = "open"
  /\ pc' = [pc EXCEPT ![t] = "done"]
  /\ seek' \in (IF l0 > 0 THEN {seek, TRUE} ELSE {seek})
  /\ IF seek' # seek THEN MaybeScheduleCompaction(imm, manual, l0, TRUE)
     ELSE UNCHANGED <<sched, bg>>
  /\ UNCHANGED <<asleep, queue, status, room, last, log, seq, mem, imm, stored, l0,
                 err, manual, left, mdone, closing, came>>

-----------------------------------------------------------------------------
(* The background thread: BGWork, BackgroundCall, BackgroundCompaction *)

(* Mutant: the end of the background call wakes nobody. *)
BgEndsSilent(errN, immN, manualN, l0N, seekN) ==
  /\ IF Schedules(errN, immN, manualN, l0N, seekN)
     THEN sched' = TRUE /\ bg' = "queued" ELSE sched' = FALSE /\ bg' = "none"
  /\ UNCHANGED <<asleep, closing>>

(* The end of BackgroundCall, given the values after this step. *)
BgEnds(errN, immN, manualN, l0N, seekN) ==
  /\ IF Schedules(errN, immN, manualN, l0N, seekN)
     THEN sched' = TRUE /\ bg' = "queued" ELSE sched' = FALSE /\ bg' = "none"
  /\ asleep' = WakeBg(asleep) /\ closing' = WakeClose

(* Mutant: a manual compaction that has nothing left to do goes on. *)
BackgroundCallNoEnd ==
  /\ bg = "queued"
  /\ IF Shutting \/ err
     THEN BgEnds(err, imm, manual, l0, seek) /\ UNCHANGED <<manual, mdone>>
     ELSE IF imm # << >>
     THEN bg' = "flush" /\ UNCHANGED <<sched, asleep, manual, mdone, closing>>
     ELSE IF manual # Nobody
     THEN bg' = "manual" /\ UNCHANGED <<sched, asleep, manual, mdone, closing>>
     ELSE IF l0 >= Trigger \/ seek
     THEN bg' = "auto" /\ UNCHANGED <<sched, asleep, manual, mdone, closing>>
     ELSE BgEnds(err, imm, manual, l0, seek) /\ UNCHANGED <<manual, mdone>>
  /\ UNCHANGED <<pc, queue, status, room, last, log, seq, mem, imm, stored, l0,
                 seek, err, left, came>>

BackgroundCall ==
  /\ bg = "queued"
  /\ IF Shutting \/ err
     THEN BgEnds(err, imm, manual, l0, seek) /\ UNCHANGED <<manual, mdone>>
     ELSE IF imm # << >>
     THEN bg' = "flush" /\ UNCHANGED <<sched, asleep, manual, mdone, closing>>
     ELSE IF manual # Nobody
     THEN IF left[manual] = 0
          THEN /\ mdone' = [mdone EXCEPT ![manual] = TRUE] /\ manual' = Nobody
               /\ BgEnds(err, imm, Nobody, l0, seek)
          ELSE bg' = "manual" /\ UNCHANGED <<sched, asleep, manual, mdone, closing>>
     ELSE IF l0 >= Trigger \/ seek
     THEN bg' = "auto" /\ UNCHANGED <<sched, asleep, manual, mdone, closing>>
     ELSE BgEnds(err, imm, manual, l0, seek) /\ UNCHANGED <<manual, mdone>>
  /\ UNCHANGED <<pc, queue, status, room, last, log, seq, mem, imm, stored, l0,
                 seek, err, left, came>>

(* CompactMemTable called by BackgroundCompaction ... *)
FlushEnds ==
  /\ bg = "flush"
  /\ \/ /\ ~Shutting
        /\ imm' = << >> /\ stored' = stored \union imm[1]
        /\ l0' \in {l0, l0 + 1} /\ (imm[1] = {} => l0' = l0)
        /\ seek' = FALSE /\ UNCHANGED err
     \/ /\ "background" \in Faults \/ Shutting
        /\ err' = TRUE /\ UNCHANGED <<imm, stored, l0, seek>>
  /\ BgEnds(err', imm', manual, l0', seek')
  /\ UNCHANGED <<pc, queue, status, room, last, log, seq, mem, manual, left, mdone,
                 came>>

(* ... and by DoCompactionWork, which then wakes the writers. *)
NestedFlush ==
  /\ bg \in {"manual", "auto"} /\ imm # << >> /\ ~Shutting
  /\ \/ /\ imm' = << >> /\ stored' = stored \union imm[1]
        /\ l0' \in {l0, l0 + 1} /\ (imm[1] = {} => l0' = l0)
        /\ seek' = FALSE /\ UNCHANGED err
     \/ /\ "background" \in Faults /\ err' = TRUE
        /\ UNCHANGED <<imm, stored, l0, seek>>
  /\ asleep' = WakeBg(asleep)
  /\ UNCHANGED <<pc, queue, status, room, last, log, seq, mem, sched, bg,
                 manual, left, mdone, closing, came>>

(* A compaction of level 0 or of a deeper level ends. *)
CompactionEnds ==
  /\ bg \in {"manual", "auto"} /\ (bg = "manual" => manual # Nobody)
  /\ LET ok == ~Shutting
     IN \/ /\ ok /\ l0' \in (IF bg = "auto" /\ l0 >= Trigger THEN 0 .. l0 - 1 ELSE 0 .. l0)
           /\ seek' = FALSE /\ UNCHANGED err
           /\ left' = IF bg = "manual" THEN [left EXCEPT ![manual] = @ - 1] ELSE left
           /\ UNCHANGED mdone
        \/ /\ "background" \in Faults \/ ~ok
           /\ err' = TRUE
           /\ mdone' = IF bg = "manual" THEN [mdone EXCEPT ![manual] = TRUE] ELSE mdone
           /\ UNCHANGED <<l0, seek, left>>
  /\ manual' = IF bg = "manual" THEN Nobody ELSE manual
  /\ BgEnds(err', imm, manual', l0', seek')
  /\ UNCHANGED <<pc, queue, status, room, last, log, seq, mem, imm, stored, came>>

(* The call that wanted this manual compaction gave it up meanwhile, after  *)
(* an error: BackgroundCompaction follows a null manual_compaction_, and    *)
(* the process ends.                                                        *)
ManualGone ==
  /\ bg = "manual" /\ manual = Nobody
  /\ bg' = "crashed"
  /\ UNCHANGED <<pc, asleep, queue, status, room, last, log, seq, mem, imm, stored,
                 l0, seek, err, sched, manual, left, mdone, closing, came>>

Alive == bg # "crashed"

-----------------------------------------------------------------------------
(* The destructor: no call may be running when it is called. *)
CloseBegins ==
  /\ Alive /\ closing = "open" /\ \A t \in Thread : pc[t] = "done"
  /\ closing' = "waiting"
  /\ UNCHANGED <<pc, asleep, queue, status, room, last, log, seq, mem, imm, stored,
                 l0, seek, err, sched, bg, manual, left, mdone, came>>

CloseWaits ==
  /\ Alive /\ closing = "waiting"
  /\ closing' = IF sched THEN "asleep" ELSE "closed"
  /\ UNCHANGED <<pc, asleep, queue, status, room, last, log, seq, mem, imm, stored,
                 l0, seek, err, sched, bg, manual, left, mdone, came>>

Terminated == ((closing = "closed" /\ bg = "none") \/ ~Alive) /\ UNCHANGED vars

Step(t) ==
  /\ Alive
  /\ \/ Enqueue(t) \/ Await(t)
     \/ RoomError(t) \/ RoomDelay(t) \/ RoomNapEnds(t) \/ RoomEnough(t)
     \/ RoomWait(t) \/ RoomSwitch(t) \/ RoomSwitchFails(t)
     \/ LogGroup(t) \/ AddRecordFails(t) \/ SyncFails(t)
     \/ ImmLoop(t) \/ ManualLoop(t) \/ GetEnds(t)

Background ==
  BackgroundCall \/ FlushEnds \/ NestedFlush \/ CompactionEnds \/ ManualGone

Next ==
  \/ \E t \in Thread : Step(t)
  \/ Background \/ CloseBegins \/ CloseWaits \/ Terminated

Spec == Init /\ [][Next]_vars

(* Every thread and the background thread keep running. *)
FairSpec ==
  /\ Spec
  /\ \A t \in Thread : WF_vars(Step(t))
  /\ WF_vars(Background) /\ WF_vars(CloseBegins) /\ WF_vars(CloseWaits)

-----------------------------------------------------------------------------
(* Type correctness, the ranges of the counters included. *)
QueueTypeOK ==
  /\ pc \in [Thread -> {"start", "queue", "room", "nap", "log", "imm", "man", "done"}]
  /\ asleep \in [Thread -> BOOLEAN] /\ status \in [Thread -> {"none", "ok", "error"}]
  /\ IsInjective(queue) /\ ToSet(queue) \subseteq Thread /\ last \in 0 .. Len(queue)
  /\ seq \in 0 .. Cardinality(Thread) /\ l0 \in 0 .. Cardinality(Thread)
  /\ Len(imm) <= 1 /\ manual \in Thread \union {Nobody}
  /\ left \in [Thread -> 0 .. Pieces] /\ bg \in {"none", "queued", "flush", "manual", "auto", "crashed"}
  /\ sched = (bg # "none")

(* At most one thread is past the queue, and it is the first writer: the   *)
(* log and the memtable never have two writers, although the mutex is free *)
(* while a group is logged.                                                *)
OneLeader ==
  \A t \in Thread : pc[t] \in {"room", "nap", "log"} =>
    /\ queue # << >> /\ Head(queue) = t
    /\ \A u \in Thread : pc[u] \in {"room", "nap", "log"} => u = t

(* Where a write is in the log: its record, and its place in the record. *)
Place == {p \in (DOMAIN log) \X (1 .. Cardinality(Thread)) : p[2] \in DOMAIN log[p[1]].ids}
IdAt(p) == log[p[1]].ids[p[2]]
Before(p, q) == p[1] < q[1] \/ (p[1] = q[1] /\ p[2] < q[2])

(* Each batch whose Write returned ok was logged exactly once, in order of *)
(* arrival, and is in a memtable or a table; one that failed is in none.   *)
AppliedOnceInOrder ==
  /\ \A p, q \in Place : Before(p, q) =>
       /\ IdAt(p) # IdAt(q)
       /\ \E a, b \in DOMAIN came : a < b /\ came[a] = IdAt(p) /\ came[b] = IdAt(q)
  /\ LET applied == mem \union stored \union (IF imm = << >> THEN {} ELSE imm[1])
     IN \A t \in Thread : IsBatch(t) /\ status[t] # "none" =>
          (status[t] = "ok") = (t \in applied)

(* A sync write that returned ok is in a record that was synced, also when *)
(* another thread logged it.                                               *)
SyncHonoured ==
  \A t \in Thread : Call[t] = "sync" /\ status[t] = "ok" =>
    \E i \in DOMAIN log : t \in Range(log[i].ids) /\ log[i].synced

Count(i) == Cardinality(DOMAIN log[i].ids)

(* The records take disjoint, increasing ranges of sequence numbers, which *)
(* end at LastSequence.                                                    *)
SequencesDisjoint ==
  /\ \A i, j \in DOMAIN log : i < j => log[i].seq + Count(i) <= log[j].seq
  /\ \A i \in DOMAIN log : log[i].seq + Count(i) - 1 <= seq

(* After a failed sync nothing more is logged ("we force the DB into a     *)
(* mode where all future writes fail").                                    *)
NothingAfterFailedSync ==
  \A i \in DOMAIN log : Call[log[i].ids[1]] = "sync" /\ ~log[i].synced => i = Len(log)

(* The background thread finds the manual compaction it works on where it  *)
(* left it: a call that returns early only cancels one that does not run   *)
(* ("Cancel my manual compaction since we aborted early for some reason"). *)
ManualStays == bg = "manual" => manual # Nobody

(* Every call returns, whatever fails, unless the process ends: no wakeup  *)
(* is lost and no two threads wait for each other.                         *)
CallsReturn == \A t \in Thread : pc[t] # "start" ~> pc[t] = "done" \/ ~Alive

(* The database can be closed once its calls have returned. *)
CloseReturns == closing # "open" ~> closing = "closed" \/ ~Alive
=============================================================================

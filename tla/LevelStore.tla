----------------------------- MODULE LevelStore -----------------------------
(***************************************************************************)
(* The files of a leveldb database and what survives a crash: log, table,  *)
(* MANIFEST and CURRENT files, Open/Recover, the write path, the flush of  *)
(* the immutable memtable, compactions and the deletion of obsolete files  *)
(* (db_impl.cc, version_set.cc, builder.cc, filename.cc).                  *)
(*                                                                         *)
(* Levels, keys and group commit are in other modules: here a write is one *)
(* record, every record has its own key, and a table is a set of records.  *)
(* Options are the defaults (reuse_logs and paranoid_checks are false).    *)
(*                                                                         *)
(* The file system (external): a file's contents survive a machine crash   *)
(* up to the part that was written back or synced; the directory is        *)
(* journaled: a crash leaves it as it was at some earlier moment, and a    *)
(* sync of any file first commits the directory.                           *)
(***************************************************************************)
EXTENDS Naturals, Sequences, FiniteSets, FiniteSetsExt

CONSTANTS
  MaxWrites,    \* bound on the calls of Write
  MaxCrashes,   \* bound on process and machine crashes together
  MaxNumber,    \* bound on file numbers
  MaxForced,    \* no switch of the memtable is forced at higher file numbers
  WriteBuffer,  \* records a memtable holds before it is full
  Faults        \* which I/O calls may fail: "append", "sync", "manifest"

ASSUME BoundsAssumption ==
  /\ MaxWrites \in Nat /\ MaxCrashes \in Nat
  /\ MaxNumber \in Nat \ {0, 1}   \* NewDB uses 1 and registers 2 as the next
  /\ MaxForced \in Nat /\ WriteBuffer \in Nat \ {0}
  /\ Faults \subseteq {"append", "sync", "manifest"}

VARIABLES
  dir,      \* [names, current]: the directory, CURRENT's manifest number (0: none)
  ddir,     \* the directory a machine crash leaves
  file,     \* [name -> [data, dur]]: the contents, and how many survive
  db,       \* the DBImpl and VersionSet of the running process
  bg,       \* the background thread: flush or installation of an edit
  comp,     \* a compaction in DoCompactionWork
  wr,       \* the write at the head of the queue
  writes,   \* ghost: number of writes begun
  crashes,  \* ghost: number of crashes
  owed,     \* ghost: acknowledged writes that no crash so far may have lost
  synced,   \* ghost: writes acknowledged with sync == true
  torn      \* ghost: a log has a torn record, or a MANIFEST went on behind one

vars == <<dir, ddir, file, db, bg, comp, wr, writes, crashes, owed, synced,
          torn>>

-----------------------------------------------------------------------------
Log(n) == <<"log", n>>
Table(n) == <<"table", n>>
Manifest(n) == <<"manifest", n>>

Torn == [id |-> 0, seq |-> 0]   \* the bytes a failed AddRecord leaves
TornEdit == [full |-> FALSE, log |-> 0, next |-> 0, seq |-> 0, add |-> {}, del |-> {}]
Snapshot(live) == [full |-> TRUE, log |-> 0, next |-> 0, seq |-> 0, add |-> live, del |-> {}]
NoEdit == TornEdit

(* A process that is not there; next = 0 marks fields that are not set. *)
Down == [st |-> "down", mem |-> {}, hasImm |-> FALSE, imm |-> {}, log |-> 0,
         minlog |-> 0, next |-> 2, seq |-> 0, manifest |-> 0, live |-> {},
         todo |-> {}, add |-> {}, err |-> FALSE, pins |-> {}]
IdleBg == [pc |-> "idle", out |-> 0, edit |-> NoEdit]
NoComp == [pc |-> "idle", in |-> {}, out |-> 0]
IdleWr == [pc |-> "idle", sync |-> FALSE, rec |-> Torn]

Init ==
  /\ dir = [names |-> {}, current |-> 0] /\ ddir = dir
  /\ file = << >>
  /\ db = Down /\ bg = IdleBg /\ comp = NoComp /\ wr = IdleWr
  /\ writes = 0 /\ crashes = 0 /\ owed = {} /\ synced = {}
  /\ torn = FALSE

-----------------------------------------------------------------------------
(* File operations: steps on f = [dir, ddir, file]. *)

Disk == [dir |-> dir, ddir |-> ddir, file |-> file]

SetDisk(d) ==
  /\ dir' = d.dir /\ ddir' = d.ddir
  /\ file' = [n \in d.dir.names \union d.ddir.names |-> d.file[n]]

(* NewWritableFile truncates; contents are appended to the OS buffer. *)
Create(d, name, contents) ==
  [d EXCEPT !.dir.names = @ \union {name},
            !.file = [n \in DOMAIN d.file \union {name} |->
                        IF n = name THEN [data |-> contents, dur |-> 0] ELSE d.file[n]]]

AddRecord(d, name, r) == [d EXCEPT !.file[name].data = Append(@, r)]

Sync(d, name) ==
  [d EXCEPT !.ddir = d.dir, !.file[name].dur = Len(d.file[name].data)]

SetCurrentFile(d, n) == [d EXCEPT !.ddir = d.dir, !.dir.current = n]

DeleteFile(d, name) == [d EXCEPT !.dir.names = @ \ {name}]

-----------------------------------------------------------------------------
(* Reading back *)

(* log::Reader drops what follows a torn record in its block. *)
ReadLog(f) ==
  LET cut == {i \in DOMAIN f.data : f.data[i] = Torn}
      upto == IF cut = {} THEN Len(f.data) ELSE Min(cut) - 1
  IN {f.data[i] : i \in 1 .. upto}

Full(es) == {i \in DOMAIN es : es[i].full /\ es[i].next # 0}

(* The edits of a manifest that VersionSet::Recover accepts: a torn record *)
(* at the very end is an incomplete write, one before it a corruption.     *)
Readable(es) ==
  /\ Full(es) # {}
  /\ \A i \in DOMAIN es : ~es[i].full => i = Len(es)

LiveOf(es) ==
  {t \in UNION {es[i].add : i \in DOMAIN es} :
     \E i \in DOMAIN es : t \in es[i].add /\ \A j \in i + 1 .. Len(es) : t \notin es[j].del}

LogsFrom(d, min) == {nm[2] : nm \in {x \in d.dir.names : x[1] = "log" /\ x[2] >= min}}

(* Any file with that number takes it off the list of expected files. *)
Missing(d, live) == {t \in live : \A nm \in d.dir.names : nm[2] # t}

Openable(d) ==
  /\ d.dir.current # 0
  /\ Manifest(d.dir.current) \in d.dir.names
  /\ LET es == d.file[Manifest(d.dir.current)].data
     IN Readable(es) /\ Missing(d, LiveOf(es)) = {}

(* What a database opened on directory d would show. *)
Replay(d) ==
  IF ~Openable(d) THEN {}
  ELSE LET es == d.file[Manifest(d.dir.current)].data
           live == {t \in LiveOf(es) : Table(t) \in d.dir.names}
       IN UNION ({UNION {d.file[Table(t)].data[i] : i \in DOMAIN d.file[Table(t)].data} : t \in live}
                 \union {ReadLog(d.file[Log(n)]) : n \in LogsFrom(d, es[Max(Full(es))].log)})

(* The disk after a machine crash. *)
AfterCrash(d) ==
  [d EXCEPT !.dir = d.ddir,
            !.file = [n \in DOMAIN d.file |->
               [d.file[n] EXCEPT !.data = SubSeq(@, 1, d.file[n].dur)]]]

Ids(recs) == {r.id : r \in recs}

Contents ==
  db.mem \union db.imm \union
  UNION {UNION {file[Table(t)].data[i] : i \in DOMAIN file[Table(t)].data} :
           t \in {u \in db.live : Table(u) \in dir.names}}

-----------------------------------------------------------------------------
(* Open: DB::Open, DBImpl::Recover, VersionSet::Recover *)

MaxOf(a, b) == IF a >= b THEN a ELSE b

(* NewDB: the first manifest is closed but not synced. *)
NewDB ==
  /\ db.st = "down" /\ dir.current = 0
  /\ SetDisk(Create(Disk, Manifest(1),
       <<[full |-> TRUE, log |-> 0, next |-> 2, seq |-> 0, add |-> {}, del |-> {}]>>))
  /\ db' = [db EXCEPT !.st = "newdb"]
  /\ UNCHANGED <<bg, comp, wr, writes, crashes, owed, synced, torn>>

NewDBCurrent ==
  /\ db.st = "newdb"
  /\ SetDisk(SetCurrentFile(Disk, 1))
  /\ db' = [db EXCEPT !.st = "recover"]
  /\ UNCHANGED <<bg, comp, wr, writes, crashes, owed, synced, torn>>

(* Mutant: the logs are those after the registered one. *)
RecoverSkipsLog ==
  /\ db.st = "recover" \/ (db.st = "down" /\ dir.current # 0)
  /\ LET es == file[Manifest(dir.current)].data
         e == es[Max(Full(es))]
     IN IF ~Openable(Disk) THEN db' = [db EXCEPT !.st = "corrupt"]
        ELSE db' = [db EXCEPT !.st = "logs", !.live = LiveOf(es),
                    !.manifest = e.next, !.next = e.next + 1, !.seq = e.seq,
                    !.minlog = e.log, !.todo = LogsFrom(Disk, e.log + 1)]
  /\ UNCHANGED <<dir, ddir, file, bg, comp, wr, writes, crashes, owed, synced, torn>>

(* VersionSet::Recover and the checks of DBImpl::Recover. *)
Recover ==
  /\ db.st = "recover" \/ (db.st = "down" /\ dir.current # 0)
  /\ IF ~Openable(Disk) THEN db' = [db EXCEPT !.st = "corrupt"]
     ELSE LET es == file[Manifest(dir.current)].data
              e == es[Max(Full(es))]
          IN db' = [db EXCEPT !.st = "logs", !.live = LiveOf(es),
                    !.manifest = e.next, !.next = e.next + 1, !.seq = e.seq,
                    !.minlog = e.log, !.todo = LogsFrom(Disk, e.log)]
  /\ UNCHANGED <<dir, ddir, file, bg, comp, wr, writes, crashes, owed, synced, torn>>

(* Mutant: the sequence number after the last record is taken. *)
RecoverLogFileOffByOne ==
  /\ db.st = "logs" /\ db.todo # {} /\ db.next < MaxNumber
  /\ LET n == Min(db.todo)
         recs == ReadLog(file[Log(n)])
         top == Max({r.seq : r \in recs} \union {db.seq})
     IN IF recs = {}
        THEN /\ db' = [db EXCEPT !.todo = @ \ {n}, !.next = MaxOf(@, n + 1)]
             /\ UNCHANGED <<dir, ddir, file>>
        ELSE /\ SetDisk(Sync(Create(Disk, Table(db.next), <<recs>>), Table(db.next)))
             /\ db' = [db EXCEPT !.todo = @ \ {n}, !.add = @ \union {db.next},
                       !.next = MaxOf(@ + 1, n + 1), !.seq = top + 1]
  /\ UNCHANGED <<bg, comp, wr, writes, crashes, owed, synced, torn>>

(* Mutant: the manifest's sequence number is kept. *)
RecoverLogFileOldSequence ==
  /\ db.st = "logs" /\ db.todo # {} /\ db.next < MaxNumber
  /\ LET n == Min(db.todo)
         recs == ReadLog(file[Log(n)])
     IN IF recs = {}
        THEN /\ db' = [db EXCEPT !.todo = @ \ {n}, !.next = MaxOf(@, n + 1)]
             /\ UNCHANGED <<dir, ddir, file>>
        ELSE /\ SetDisk(Sync(Create(Disk, Table(db.next), <<recs>>), Table(db.next)))
             /\ db' = [db EXCEPT !.todo = @ \ {n}, !.add = @ \union {db.next},
                       !.next = MaxOf(@ + 1, n + 1)]
  /\ UNCHANGED <<bg, comp, wr, writes, crashes, owed, synced, torn>>

(* RecoverLogFile: a log's records go to a level-0 table (WriteLevel0Table,*)
(* BuildTable), and MarkFileNumberUsed keeps its number from being reused. *)
RecoverLogFile ==
  /\ db.st = "logs" /\ db.todo # {} /\ db.next < MaxNumber
  /\ LET n == Min(db.todo)
         recs == ReadLog(file[Log(n)])
         top == Max({r.seq : r \in recs} \union {db.seq})
     IN IF recs = {}
        THEN /\ db' = [db EXCEPT !.todo = @ \ {n}, !.next = MaxOf(@, n + 1)]
             /\ UNCHANGED <<dir, ddir, file>>
        ELSE /\ SetDisk(Sync(Create(Disk, Table(db.next), <<recs>>), Table(db.next)))
             /\ db' = [db EXCEPT !.todo = @ \ {n}, !.add = @ \union {db.next},
                       !.next = MaxOf(@ + 1, n + 1), !.seq = top]
  /\ UNCHANGED <<bg, comp, wr, writes, crashes, owed, synced, torn>>

(* DB::Open: the new log. *)
OpenLog ==
  /\ db.st = "logs" /\ db.todo = {} /\ db.next < MaxNumber
  /\ SetDisk(Create(Disk, Log(db.next), << >>))
  /\ db' = [db EXCEPT !.st = "edit", !.log = db.next, !.next = @ + 1]
  /\ UNCHANGED <<bg, comp, wr, writes, crashes, owed, synced, torn>>

(* LogAndApply at open: a new manifest with a snapshot and the edit ... *)
OpenManifest ==
  /\ db.st = "edit"
  /\ SetDisk(Create(Disk, Manifest(db.manifest),
       << Snapshot(db.live),
          [full |-> TRUE, log |-> db.log, next |-> db.next, seq |-> db.seq,
           add |-> db.add, del |-> {}] >>))
  /\ db' = [db EXCEPT !.st = "sync"]
  /\ UNCHANGED <<bg, comp, wr, writes, crashes, owed, synced, torn>>

(* Mutant: CURRENT is switched before the manifest is synced. *)
OpenSyncLate ==
  /\ db.st = "sync"
  /\ UNCHANGED <<dir, ddir, file>>
  /\ db' = [db EXCEPT !.st = "current"]
  /\ UNCHANGED <<bg, comp, wr, writes, crashes, owed, synced, torn>>

(* ... is synced ... *)
OpenSync ==
  /\ db.st = "sync"
  /\ SetDisk(Sync(Disk, Manifest(db.manifest)))
  /\ db' = [db EXCEPT !.st = "current"]
  /\ UNCHANGED <<bg, comp, wr, writes, crashes, owed, synced, torn>>

(* ... and installed: CURRENT names it, the version becomes current. *)
OpenInstall ==
  /\ db.st = "current"
  /\ SetDisk(SetCurrentFile(Disk, db.manifest))
  /\ db' = [db EXCEPT !.st = "gc", !.live = @ \union db.add, !.add = {}, !.minlog = db.log]
  /\ UNCHANGED <<bg, comp, wr, writes, crashes, owed, synced, torn>>

-----------------------------------------------------------------------------
(* DeleteObsoleteFiles *)

Pending == IF comp.pc = "idle" THEN {} ELSE {comp.out}

(* Mutant: only the current version's files are kept. *)
ObsoleteCurrentOnly ==
  IF db.err THEN {}
  ELSE {nm \in dir.names :
          \/ nm[1] = "log" /\ nm[2] < db.minlog
          \/ nm[1] = "manifest" /\ nm[2] < db.manifest
          \/ nm[1] = "table" /\ nm[2] \notin db.live \union Pending}

Obsolete ==
  IF db.err THEN {}
  ELSE {nm \in dir.names :
          \/ nm[1] = "log" /\ nm[2] < db.minlog
          \/ nm[1] = "manifest" /\ nm[2] < db.manifest
          \/ nm[1] = "table" /\ nm[2] \notin db.live \union db.pins \union Pending}

Collecting == db.st = "gc" \/ bg.pc = "gc"

(* One file of the loop: a crash may fall between two of them. *)
DeleteObsoleteFile ==
  /\ Collecting
  /\ \E nm \in Obsolete : SetDisk(DeleteFile(Disk, nm))
  /\ UNCHANGED <<db, bg, comp, wr, writes, crashes, owed, synced, torn>>

CollectingEnds ==
  /\ Collecting /\ Obsolete = {}
  /\ db' = [db EXCEPT !.st = "open"]
  /\ bg' = IdleBg
  /\ UNCHANGED <<dir, ddir, file, comp, wr, writes, crashes, owed, synced, torn>>

(* The mutex is free: no thread holds it across this state. *)
Running == db.st = "open" /\ bg.pc # "gc"

-----------------------------------------------------------------------------
(* The write path: DBImpl::Write of the writer at the head of the queue *)

(* MakeRoomForWrite switches to a new log and memtable when the memtable   *)
(* is full, and when TEST_CompactMemTable forces it.                       *)
SwitchMemTable ==
  /\ Running /\ wr.pc = "idle" /\ ~db.err /\ ~db.hasImm /\ db.next < MaxNumber
  /\ Cardinality(db.mem) >= WriteBuffer \/ db.next <= MaxForced
  /\ SetDisk(Create(Disk, Log(db.next), << >>))
  /\ db' = [db EXCEPT !.log = db.next, !.next = @ + 1, !.imm = db.mem,
                      !.hasImm = TRUE, !.mem = {}]
  /\ UNCHANGED <<bg, comp, wr, writes, crashes, owed, synced, torn>>

CanWrite ==
  /\ Running /\ wr.pc = "idle" /\ ~db.err
  /\ Cardinality(db.mem) < WriteBuffer /\ writes < MaxWrites

(* log_->AddRecord *)
LogWrite(sync) ==
  /\ CanWrite
  /\ LET rec == [id |-> writes + 1, seq |-> db.seq + 1]
     IN /\ SetDisk(AddRecord(Disk, Log(db.log), rec))
        /\ wr' = [pc |-> IF sync THEN "sync" ELSE "insert", sync |-> sync, rec |-> rec]
  /\ writes' = writes + 1
  /\ UNCHANGED <<db, bg, comp, crashes, owed, synced, torn>>

(* AddRecord fails half way: the write returns an error, the database goes *)
(* on (only a failed Sync is recorded), and the sequence still advances.   *)
LogWriteFails ==
  /\ CanWrite /\ "append" \in Faults
  /\ SetDisk(AddRecord(Disk, Log(db.log), Torn))
  /\ db' = [db EXCEPT !.seq = @ + 1]
  /\ writes' = writes + 1
  /\ torn' = TRUE
  /\ UNCHANGED <<bg, comp, wr, crashes, owed, synced>>

(* logfile_->Sync *)
SyncLog ==
  /\ wr.pc = "sync" /\ db.st = "open"
  /\ SetDisk(Sync(Disk, Log(db.log)))
  /\ wr' = [wr EXCEPT !.pc = "insert"]
  /\ UNCHANGED <<db, bg, comp, writes, crashes, owed, synced, torn>>

SyncLogFails ==
  /\ wr.pc = "sync" /\ Running /\ "sync" \in Faults
  /\ db' = [db EXCEPT !.err = TRUE, !.seq = @ + 1]
  /\ wr' = IdleWr
  /\ UNCHANGED <<dir, ddir, file, bg, comp, writes, crashes, owed, synced, torn>>

(* InsertInto(mem_), SetLastSequence, and the caller is told. *)
InsertAndAcknowledge ==
  /\ wr.pc = "insert" /\ Running
  /\ db' = [db EXCEPT !.mem = @ \union {wr.rec}, !.seq = wr.rec.seq]
  /\ owed' = owed \union {wr.rec.id}
  /\ synced' = IF wr.sync THEN synced \union {wr.rec.id} ELSE synced
  /\ wr' = IdleWr
  /\ UNCHANGED <<dir, ddir, file, bg, comp, writes, crashes, torn>>

-----------------------------------------------------------------------------
(* The background thread *)

(* Mutant: the table is not synced before it is registered. *)
BuildTableUnsynced ==
  /\ Running /\ bg.pc = "idle" /\ db.hasImm /\ ~db.err
  /\ comp.pc \in {"idle", "open"} /\ db.next < MaxNumber
  /\ IF db.imm = {} THEN UNCHANGED <<dir, ddir, file>>
     ELSE SetDisk(Create(Disk, Table(db.next), <<db.imm>>))
  /\ db' = [db EXCEPT !.next = @ + 1]
  /\ bg' = [bg EXCEPT !.pc = "built", !.out = IF db.imm = {} THEN 0 ELSE db.next]
  /\ UNCHANGED <<comp, wr, writes, crashes, owed, synced, torn>>

(* CompactMemTable, WriteLevel0Table, BuildTable; it also runs inside      *)
(* DoCompactionWork, while a compaction's output is open.                  *)
BuildTable ==
  /\ Running /\ bg.pc = "idle" /\ db.hasImm /\ ~db.err
  /\ comp.pc \in {"idle", "open"} /\ db.next < MaxNumber
  /\ IF db.imm = {} THEN UNCHANGED <<dir, ddir, file>>
     ELSE SetDisk(Sync(Create(Disk, Table(db.next), <<db.imm>>), Table(db.next)))
  /\ db' = [db EXCEPT !.next = @ + 1]
  /\ bg' = [bg EXCEPT !.pc = "built", !.out = IF db.imm = {} THEN 0 ELSE db.next]
  /\ UNCHANGED <<comp, wr, writes, crashes, owed, synced, torn>>

(* DoCompactionWork opens an output for some of the live tables. *)
OpenCompactionOutputFile ==
  /\ Running /\ bg.pc = "idle" /\ comp.pc = "idle" /\ ~db.hasImm /\ ~db.err
  /\ Cardinality(db.live) >= 2 /\ db.next < MaxNumber
  /\ SetDisk(Create(Disk, Table(db.next), << >>))
  /\ comp' = [pc |-> "open", in |-> db.live, out |-> db.next]
  /\ db' = [db EXCEPT !.next = @ + 1]
  /\ UNCHANGED <<bg, wr, writes, crashes, owed, synced, torn>>

TableData(t) == UNION {file[Table(t)].data[i] : i \in DOMAIN file[Table(t)].data}

FinishCompactionOutputFile ==
  /\ Running /\ bg.pc = "idle" /\ comp.pc = "open"
  /\ SetDisk(Sync(AddRecord(Disk, Table(comp.out), UNION {TableData(t) : t \in comp.in}),
                  Table(comp.out)))
  /\ comp' = [comp EXCEPT !.pc = "done"]
  /\ UNCHANGED <<db, bg, wr, writes, crashes, owed, synced, torn>>

FlushEdit ==
  [full |-> TRUE, log |-> db.log, next |-> db.next, seq |-> db.seq,
   add |-> IF bg.out = 0 THEN {} ELSE {bg.out}, del |-> {}]

CompactionEdit ==
  [full |-> TRUE, log |-> db.minlog, next |-> db.next, seq |-> db.seq,
   add |-> {comp.out}, del |-> comp.in]

(* LogAndApply, once the database is open: the edit is appended ... *)
NextEdit == IF bg.pc = "built" THEN FlushEdit ELSE CompactionEdit
EditReady == bg.pc = "built" \/ (bg.pc = "idle" /\ comp.pc = "done")

ManifestTorn ==
  LET es == file[Manifest(db.manifest)].data IN \E i \in DOMAIN es : ~es[i].full

LogAndApply ==
  /\ Running /\ EditReady
  /\ SetDisk(AddRecord(Disk, Manifest(db.manifest), NextEdit))
  /\ bg' = [pc |-> "logged", out |-> bg.out, edit |-> NextEdit]
  /\ torn' = (torn \/ ManifestTorn)
  /\ UNCHANGED <<db, comp, wr, writes, crashes, owed, synced>>

(* ... synced ... *)
SyncManifest ==
  /\ db.st = "open" /\ bg.pc = "logged"
  /\ SetDisk(Sync(Disk, Manifest(db.manifest)))
  /\ bg' = [bg EXCEPT !.pc = "synced"]
  /\ UNCHANGED <<db, comp, wr, writes, crashes, owed, synced, torn>>

(* Mutant: the memtable is dropped, and the new table is not in the version. *)
InstallVersionForgets ==
  /\ Running /\ bg.pc = "synced"
  /\ LET flush == bg.edit.del = {}
     IN /\ db' = [db EXCEPT !.live = @ \ bg.edit.del, !.minlog = bg.edit.log,
                            !.hasImm = IF flush THEN FALSE ELSE @,
                            !.imm = IF flush THEN {} ELSE @]
        /\ comp' = IF flush THEN comp ELSE NoComp
  /\ bg' = [bg EXCEPT !.pc = "gc"]
  /\ UNCHANGED <<dir, ddir, file, wr, writes, crashes, owed, synced, torn>>

(* ... and installed; DeleteObsoleteFiles follows. *)
InstallVersion ==
  /\ Running /\ bg.pc = "synced"
  /\ LET flush == bg.edit.del = {}
     IN /\ db' = [db EXCEPT !.live = (@ \ bg.edit.del) \union bg.edit.add,
                            !.minlog = bg.edit.log,
                            !.hasImm = IF flush THEN FALSE ELSE @,
                            !.imm = IF flush THEN {} ELSE @]
        /\ comp' = IF flush THEN comp ELSE NoComp
  /\ bg' = [bg EXCEPT !.pc = "gc"]
  /\ UNCHANGED <<dir, ddir, file, wr, writes, crashes, owed, synced, torn>>

(* AddRecord on the manifest fails half way, or its Sync fails: the error  *)
(* is recorded, the memtable stays, and nothing is deleted any more.       *)
ManifestFails ==
  /\ Running /\ "manifest" \in Faults
  /\ \/ /\ EditReady
        /\ SetDisk(AddRecord(Disk, Manifest(db.manifest), TornEdit))
        /\ torn' = (torn \/ ManifestTorn)
     \/ /\ bg.pc = "logged"
        /\ UNCHANGED <<dir, ddir, file, torn>>
  /\ comp' = IF bg.pc = "built" \/ (bg.pc = "logged" /\ bg.edit.del = {}) THEN comp ELSE NoComp
  /\ db' = [db EXCEPT !.err = TRUE]
  /\ bg' = IdleBg
  /\ UNCHANGED <<wr, writes, crashes, owed, synced>>

(* An iterator keeps the version it was made on; ending it releases it. *)
NewIterator ==
  /\ Running /\ db.pins = {} /\ db.live # {}
  /\ db' = [db EXCEPT !.pins = db.live]
  /\ UNCHANGED <<dir, ddir, file, bg, comp, wr, writes, crashes, owed, synced, torn>>

CleanupIteratorState ==
  /\ Running /\ db.pins # {}
  /\ db' = [db EXCEPT !.pins = {}]
  /\ UNCHANGED <<dir, ddir, file, bg, comp, wr, writes, crashes, owed, synced, torn>>

-----------------------------------------------------------------------------
(* The environment *)

(* The kernel writes back the directory, or a file. *)
CommitDirectory ==
  /\ ddir # dir
  /\ SetDisk([Disk EXCEPT !.ddir = dir])
  /\ UNCHANGED <<db, bg, comp, wr, writes, crashes, owed, synced, torn>>

WriteBack ==
  /\ \E n \in dir.names :
       /\ file[n].dur < Len(file[n].data)
       /\ SetDisk([Disk EXCEPT !.file[n].dur = Len(file[n].data)])
  /\ UNCHANGED <<db, bg, comp, wr, writes, crashes, owed, synced, torn>>

MayCrash == db.st # "corrupt" /\ db # Down /\ crashes < MaxCrashes

(* The process ends anywhere, by Kill or by the destructor of DBImpl; a    *)
(* failed Open is one as well.                                             *)
ProcessEnds ==
  /\ MayCrash
  /\ db' = Down /\ bg' = IdleBg /\ comp' = NoComp /\ wr' = IdleWr
  /\ crashes' = crashes + 1
  /\ UNCHANGED <<dir, ddir, file, writes, owed, synced, torn>>

MachineCrashes ==
  /\ MayCrash
  /\ SetDisk(AfterCrash(Disk))
  /\ db' = Down /\ bg' = IdleBg /\ comp' = NoComp /\ wr' = IdleWr
  /\ owed' = synced
  /\ crashes' = crashes + 1
  /\ UNCHANGED <<writes, synced, torn>>

Next ==
  \/ NewDB \/ NewDBCurrent \/ Recover \/ RecoverLogFile \/ OpenLog
  \/ OpenManifest \/ OpenSync \/ OpenInstall
  \/ DeleteObsoleteFile \/ CollectingEnds
  \/ SwitchMemTable
  \/ (\E sync \in BOOLEAN : LogWrite(sync)) \/ LogWriteFails
  \/ SyncLog \/ SyncLogFails \/ InsertAndAcknowledge
  \/ BuildTable \/ OpenCompactionOutputFile \/ FinishCompactionOutputFile
  \/ LogAndApply \/ SyncManifest \/ InstallVersion \/ ManifestFails
  \/ NewIterator \/ CleanupIteratorState
  \/ CommitDirectory \/ WriteBack \/ ProcessEnds \/ MachineCrashes

Spec == Init /\ [][Next]_vars

-----------------------------------------------------------------------------
(* Type correctness: file numbers stay below the bound, CURRENT and the    *)
(* directory name files that have contents, at most one edit is in flight. *)
StoreTypeOK ==
  /\ dir.names \union ddir.names = DOMAIN file
  /\ \A n \in DOMAIN file :
       n[1] \in {"log", "table", "manifest"} /\ n[2] \in 1 .. MaxNumber
       /\ file[n].dur \in 0 .. Len(file[n].data)
  /\ db.next \in 2 .. MaxNumber + 1 /\ db.seq \in 0 .. MaxWrites
  /\ bg.pc \in {"idle", "built", "logged", "synced", "gc"}
  /\ comp.pc \in {"idle", "open", "done"} /\ torn \in BOOLEAN
  /\ owed \subseteq 1 .. MaxWrites /\ synced \subseteq owed

(* No acknowledged write is lost: whatever the process or the machine does *)
(* next, the files of the directory hold every write that is still owed,   *)
(* and the files a machine crash would leave hold every synced one         *)
(* (options.h: WriteOptions::sync), unless something was appended behind a *)
(* torn record of a log or a MANIFEST.                                     *)
OwedIsOnDisk ==
  ~torn => /\ owed \subseteq Ids(Replay(Disk))
           /\ synced \subseteq Ids(Replay(AfterCrash(Disk)))

(* An open database shows exactly what it would show if it were reopened,  *)
(* except a write whose call has not returned or whose sync failed (torn   *)
(* files as above).                                                        *)
OpenMatchesDisk ==
  db.st = "open" /\ ~torn =>
    /\ Contents \subseteq Replay(Disk)
    /\ ~db.err => Replay(Disk) \ Contents \subseteq {wr.rec}

(* A sequence number is given to one write only, of those the database     *)
(* holds, and the next write takes a higher one (SetLastSequence after     *)
(* recovery; a record in a log may be newer than the manifest's number).   *)
SequencesDiffer ==
  /\ \A r, s \in Replay(Disk) : r.seq = s.seq => r = s
  /\ db.st = "open" => \A r \in Contents : r.seq <= db.seq

(* What an open database shows is what is on disk, each write under a      *)
(* sequence number of its own.                                             *)
OpenSound == OpenMatchesDisk /\ SequencesDiffer

(* Recovery finds a readable manifest and all its tables, except after a   *)
(* machine crash that leaves CURRENT naming the first manifest: NewDB does *)
(* not sync that one, and nothing has been synced since (torn files as     *)
(* above: after a failed flush inside DoCompactionWork the compaction's    *)
(* own edit still goes to the MANIFEST, behind the torn record).           *)
CorruptOnlyWhenNew ==
  db.st = "corrupt" /\ ~torn => dir.current = 1 /\ owed = {}

(* No file that the current version, an iterator's version or a running    *)
(* compaction needs is ever deleted.                                       *)
NeededFilesStay ==
  db.st \in {"gc", "open"} =>
    /\ \A t \in db.live \union db.pins \union comp.in \union Pending : Table(t) \in dir.names
    /\ Log(db.log) \in dir.names /\ Manifest(db.manifest) \in dir.names

(* The files have their type, and those that are needed are there.         *)
FilesSound == StoreTypeOK /\ NeededFilesStay

(* The files implement the abstract store: recovery, flush, compaction,    *)
(* deletion and process crashes do not change what a reopened database     *)
(* shows; only a write adds to it, and only a machine crash takes from it  *)
(* (torn files as above).                                                  *)
Store == INSTANCE DurableStore WITH
  WriteId <- 1 .. MaxWrites, data <- Ids(Replay(Disk)), safe <- synced

StoreSpec ==
  /\ Store!Init
  /\ [][~torn' => \/ (\E w \in 1 .. MaxWrites : Store!Put(w) \/ Store!Synced(w))
                 \/ (MachineCrashes /\ Store!MachineCrash)]_<<Ids(Replay(Disk)), synced>>
=============================================================================

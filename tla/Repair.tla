------------------------------- MODULE Repair -------------------------------
(***************************************************************************)
(* RepairDB (db/repair.cc): logs become tables, every table is scanned, a  *)
(* damaged one is copied as far as it can be read, and a new descriptor    *)
(* with all tables at level 0 replaces the old ones.                       *)
(*                                                                         *)
(* A database first runs for a while: it logs writes, writes the log's     *)
(* entries into a table and merges neighbouring tables, whose old files    *)
(* may still be there.  Then it stops, some of its files are damaged and   *)
(* RepairDB runs, once or, after the process ended in it, again.  Every    *)
(* file operation is a step.                                               *)
(***************************************************************************)
EXTENDS Integers, Sequences, FiniteSets, FiniteSetsExt

CONSTANTS
  Key,
  MaxWrites,    \* bound: writes, and so sequence numbers
  MaxFile,      \* bound: file numbers of the running database
  MaxDamage,    \* bound: damaged files
  MaxFaults,    \* bound: failing file operations of RepairDB
  MaxCrashes,   \* bound: ends of the process in RepairDB
  Flips         \* a damaged log record keeps its framing but not its bytes

VARIABLES
  phase,    \* "running", "stopped", "repaired", "failed"
  tables,   \* table files by number: the entries, the readable ones
  logs,     \* log files by number: the entries, the undamaged ones
  order,    \* the running database's tables, older data first
  seq,      \* its last sequence number
  next,     \* its next file number
  desc,     \* the descriptor that CURRENT names: Old, None while it is gone, or
            \* the Repairer's: its tables and numbers
  lost,     \* the files of the directory lost/ by name: their readable entries
  owed,     \* the entries that could be read when RepairDB was first called
  fixer,    \* the Repairer, None if no process runs it
  budget    \* damage, faults and crashes so far

vars == <<phase, tables, logs, order, seq, next, desc, lost,
          owed, fixer, budget>>
dbVars == <<order, seq, owed>>

None == [none |-> TRUE]
Old == [old |-> TRUE]     \* the descriptor of the running database

Entry(k, s) == [key |-> k, seq |-> s]
Garbage(e) == [key |-> e.key, seq |-> MaxWrites + 1]

Extended(f, n, v) == [m \in DOMAIN f \union {n} |-> IF m = n THEN v ELSE f[m]]
Without(f, n) == [m \in DOMAIN f \ {n} |-> f[m]]

Whole(es) == [all |-> es, read |-> es]
Torn == [all |-> {}, read |-> {}, torn |-> TRUE]
IsWhole(t) == "torn" \notin DOMAIN t /\ t.read = t.all

Newest(es, k) ==
  LET of == {e.seq : e \in {x \in es : x.key = k}}
  IN  IF of = {} THEN 0 ELSE Max(of)

Init ==
  /\ phase = "running"
  /\ tables = <<>> /\ order = <<>>
  /\ logs = [n \in {1} |-> Whole({})]
  /\ seq = 0 /\ next = 2
  /\ desc = Old /\ lost = <<>> /\ owed = {} /\ fixer = None
  /\ budget = [damage |-> 0, faults |-> 0, crashes |-> 0]

-----------------------------------------------------------------------------
(* The running database *)

CurrentLog == Max(DOMAIN logs)

Write(k) ==
  /\ phase = "running" /\ seq < MaxWrites
  /\ seq' = seq + 1
  /\ logs' = [logs EXCEPT ![CurrentLog] = Whole(@.all \union {Entry(k, seq + 1)})]
  /\ UNCHANGED <<phase, tables, order, next, desc, lost, owed, fixer, budget>>

(* CompactMemTable, which also starts a new log and deletes the old one. *)
Flush ==
  /\ phase = "running" /\ logs[CurrentLog].all # {} /\ next + 1 <= MaxFile
  /\ tables' = Extended(tables, next, Whole(logs[CurrentLog].all))
  /\ order' = Append(order, next)
  /\ logs' = [n \in {next + 1} |-> Whole({})]
  /\ next' = next + 2
  /\ UNCHANGED <<phase, seq, desc, lost, owed, fixer, budget>>

(* DoCompactionWork on tables of neighbouring levels (the first flush of a
   key goes to level 2, the next to level 1, later ones to level 0); the
   entries an input hides are dropped, and the inputs may not be deleted
   yet. *)
Compact(i) ==
  LET in   == {order[i], order[i + 1]}
      both == tables[order[i]].all \union tables[order[i + 1]].all
      out  == {e \in both : e.seq = Newest(both, e.key)}
  IN  /\ phase = "running" /\ next <= MaxFile
      /\ order' = SubSeq(order, 1, i - 1) \o <<next>>
                    \o SubSeq(order, i + 2, Len(order))
      /\ \E stay \in BOOLEAN :
           tables' = Extended([n \in IF stay THEN DOMAIN tables
                                     ELSE DOMAIN tables \ in |-> tables[n]],
                              next, Whole(out))
      /\ next' = next + 1
      /\ UNCHANGED <<phase, logs, seq, desc, lost, owed, fixer, budget>>

StopDB ==
  /\ phase = "running" /\ seq > 0
  /\ phase' = "stopped"
  /\ UNCHANGED <<tables, logs, dbVars, next, desc, lost, fixer, budget>>

(* Some entries of a table or of a log can no longer be read. *)
Damage ==
  /\ phase = "stopped" /\ fixer = None /\ budget.crashes = 0
  /\ budget.damage < MaxDamage
  /\ budget' = [budget EXCEPT !.damage = @ + 1]
  /\ \/ \E n \in DOMAIN tables :
          /\ \E left \in SUBSET tables[n].read \ {tables[n].read} :
               tables' = [tables EXCEPT ![n].read = left]
          /\ UNCHANGED logs
     \/ \E n \in DOMAIN logs :
          /\ \E left \in SUBSET logs[n].read \ {logs[n].read} :
               logs' = [logs EXCEPT ![n].read = left]
          /\ UNCHANGED tables
  /\ UNCHANGED <<phase, dbVars, next, desc, lost, fixer>>

-----------------------------------------------------------------------------
(* The Repairer *)

Fails == {f \in BOOLEAN : f => budget.faults < MaxFaults}
Charge(f) == budget' = [budget EXCEPT !.faults = IF f THEN @ + 1 ELSE @]
Step(at) == fixer # None /\ fixer.at = at
RepairVars == <<phase, dbVars, next, desc>>

Readable(fs) == UNION {fs[n].read : n \in DOMAIN fs}

Start(number) ==
  /\ phase = "stopped" /\ fixer = None
  /\ fixer' = [at |-> "log", logs |-> DOMAIN logs, scan |-> DOMAIN tables,
               infos |-> {}, last |-> 0, copy |-> 0, found |-> {},
               failed |-> FALSE, next |-> number]
  /\ owed' = IF budget.crashes = 0 THEN Readable(tables) \union Readable(logs)
             ELSE owed
  /\ UNCHANGED <<phase, tables, logs, order, seq, next, desc, lost, budget>>

FindFilesOffByOne == Start(Max(DOMAIN logs \union DOMAIN tables \union {1}))

(* FindFiles: next_file_number_ passes every number found. *)
FindFiles == Start(Max(DOMAIN logs \union DOMAIN tables \union {0}) + 1)

(* The entries ReadRecord gives: checksums are off, so a record whose bytes
   changed is read all the same. *)
ReadLog(log) ==
  IF Flips THEN log.read \union {Garbage(e) : e \in log.all \ log.read}
  ELSE log.read

ConvertLogUnlisted(n) ==
  /\ Step("log") /\ n \in fixer.logs
  /\ LET es == ReadLog(logs[n])
     IN  tables' = IF es # {} THEN Extended(tables, fixer.next, Whole(es))
                   ELSE tables
  /\ fixer' = [fixer EXCEPT !.at = "archive log", !.copy = n, !.next = @ + 1]
  /\ UNCHANGED <<RepairVars, logs, lost, budget>>

(* ConvertLogToTable: the table of the log's entries, unless there are none
   or BuildTable failed and deleted it. *)
ConvertLogToTable(n) ==
  /\ Step("log") /\ n \in fixer.logs
  /\ \E f \in Fails :
       LET es == ReadLog(logs[n])
           ok == ~f /\ es # {}
       IN  /\ tables' = IF ok THEN Extended(tables, fixer.next, Whole(es))
                        ELSE tables
           /\ fixer' = [fixer EXCEPT
                          !.at = "archive log", !.copy = n, !.next = @ + 1,
                          !.failed = @ \/ f,
                          !.scan = IF ok THEN @ \union {fixer.next} ELSE @]
           /\ Charge(f)
  /\ UNCHANGED <<RepairVars, logs, lost>>

(* ArchiveFile(logname), whatever became of the conversion; a rename that
   fails is ignored. *)
ArchiveLog ==
  /\ Step("archive log")
  /\ fixer' = [fixer EXCEPT !.at = "log", !.logs = @ \ {fixer.copy}]
  /\ \E f \in Fails :
       /\ logs' = IF f THEN logs ELSE Without(logs, fixer.copy)
       /\ lost' = IF f THEN lost ELSE Extended(lost, <<"log", fixer.copy>>, logs[fixer.copy].read)
       /\ Charge(f)
  /\ UNCHANGED <<RepairVars, tables>>

(* ExtractMetaData runs when the logs are done. *)
Scanning == (Step("log") /\ fixer.logs = {}) \/ Step("scan")

Info(n, es) ==
  [fixer EXCEPT !.at = "scan", !.scan = @ \ {n}, !.infos = @ \union {n},
                !.last = Max({@} \union {e.seq : e \in es})]

ScanForgetsSequence(n) ==
  /\ Scanning /\ n \in fixer.scan
  /\ fixer' = IF IsWhole(tables[n]) THEN Info(n, {})
              ELSE [fixer EXCEPT !.at = "copy", !.copy = n]
  /\ UNCHANGED <<RepairVars, tables, logs, lost, budget>>

(* ScanTable: a table that reads without an error is kept as it is. *)
ScanTable(n) ==
  /\ Scanning /\ n \in fixer.scan
  /\ fixer' = IF IsWhole(tables[n]) THEN Info(n, tables[n].read)
              ELSE [fixer EXCEPT !.at = "copy", !.copy = n]
  /\ UNCHANGED <<RepairVars, tables, logs, lost, budget>>

(* RepairTable: a new file for the copy ... *)
NewCopy ==
  /\ Step("copy")
  /\ \E f \in Fails :
       /\ fixer' = [fixer EXCEPT !.next = @ + 1, !.failed = @ \/ f,
                                 !.scan = IF f THEN @ \ {fixer.copy} ELSE @,
                                 !.at = IF f THEN "scan" ELSE "archive table"]
       /\ tables' = IF f THEN tables ELSE Extended(tables, fixer.next, Torn)
       /\ Charge(f)
  /\ UNCHANGED <<RepairVars, logs, lost>>

(* ... the source moves to lost/, or stays if that fails ... *)
ArchiveTable ==
  /\ Step("archive table")
  /\ fixer' = [fixer EXCEPT !.at = "finish", !.found = tables[fixer.copy].read]
  /\ \E f \in Fails :
       /\ tables' = IF f THEN tables ELSE Without(tables, fixer.copy)
       /\ lost' = IF f THEN lost
                  ELSE Extended(lost, <<"table", fixer.copy>>, tables[fixer.copy].read)
       /\ Charge(f)
  /\ UNCHANGED <<RepairVars, logs>>

Copy == fixer.next - 1

FinishCopyAgain ==
  /\ Step("finish")
  /\ fixer' = [fixer EXCEPT !.at = IF fixer.found = {} THEN "scan" ELSE "rename"]
  /\ tables' = IF fixer.found = {} THEN tables
               ELSE [tables EXCEPT ![Copy] = Whole(fixer.found)]
  /\ UNCHANGED <<RepairVars, logs, lost, budget>>

(* ... Finish and Close; a copy without entries is left as it is, one with
   an error is deleted ... *)
FinishCopy ==
  /\ Step("finish")
  /\ \E f \in Fails :
       /\ fixer' = [fixer EXCEPT !.failed = @ \/ f,
                      !.at = IF f \/ fixer.found = {} THEN "scan" ELSE "rename",
                      !.scan = IF f \/ fixer.found = {} THEN @ \ {fixer.copy} ELSE @]
       /\ tables' = IF f THEN Without(tables, Copy)
                    ELSE IF fixer.found = {} THEN tables
                    ELSE [tables EXCEPT ![Copy] = Whole(fixer.found)]
       /\ Charge(f)
  /\ UNCHANGED <<RepairVars, logs, lost>>

(* ... and takes the name of the source. *)
RenameCopy ==
  /\ Step("rename")
  /\ \E f \in Fails :
       /\ fixer' = IF f THEN [fixer EXCEPT !.at = "scan", !.failed = TRUE,
                                           !.scan = @ \ {fixer.copy}]
                   ELSE Info(fixer.copy, tables[Copy].read)
       /\ tables' = IF f THEN Without(tables, Copy)
                    ELSE Extended(Without(tables, Copy), fixer.copy, tables[Copy])
       /\ Charge(f)
  /\ UNCHANGED <<RepairVars, logs, lost>>

Quit(ok) == phase' = (IF ok THEN "repaired" ELSE "failed")

(* WriteDescriptor: the new descriptor in a temporary file, and the old
   manifests to lost/ ... *)
WriteDescriptor ==
  /\ Scanning /\ fixer.scan = {}
  /\ \E f \in Fails :
       /\ IF f THEN phase' = "failed" /\ UNCHANGED <<fixer, desc>>
          ELSE /\ fixer' = [fixer EXCEPT !.at = "install"]
               /\ desc' = None
               /\ UNCHANGED phase
       /\ Charge(f)
  /\ UNCHANGED <<tables, logs, dbVars, next, lost>>

(* ... and its new name, with CURRENT. *)
Install ==
  /\ Step("install")
  /\ \E f \in Fails :
       /\ Quit(~f)
       /\ desc' = IF f THEN None
                  ELSE [tables |-> fixer.infos, last |-> fixer.last,
                        next |-> fixer.next]
       /\ Charge(f)
  /\ UNCHANGED <<tables, logs, dbVars, next, lost, fixer>>

(* The process ends in RepairDB; RepairDB may be called again. *)
Crash ==
  /\ phase = "stopped" /\ fixer # None /\ budget.crashes < MaxCrashes
  /\ fixer' = None
  /\ budget' = [budget EXCEPT !.crashes = @ + 1]
  /\ UNCHANGED <<phase, tables, logs, dbVars, next, desc, lost>>

Repairing ==
  \/ FindFiles \/ ArchiveLog \/ NewCopy \/ ArchiveTable \/ FinishCopy
  \/ RenameCopy \/ WriteDescriptor \/ Install \/ Crash
  \/ \E n \in DOMAIN logs : ConvertLogToTable(n)
  \/ \E n \in DOMAIN tables : ScanTable(n)

Next ==
  \/ \E k \in Key : Write(k)
  \/ Flush \/ StopDB \/ Damage
  \/ \E i \in 1 .. Len(order) - 1 : Compact(i)
  \/ phase = "stopped" /\ Repairing

Spec == Init /\ [][Next]_vars

FairSpec == Spec /\ WF_vars(phase = "stopped" /\ Repairing)

-----------------------------------------------------------------------------
(* Properties *)

Live == IF "tables" \in DOMAIN desc THEN desc.tables \intersect DOMAIN tables ELSE {}
LiveEntries == UNION {tables[n].read : n \in Live}

\* RepairDB destroys nothing: what could be read when it was first called is
\* in the directory or in lost/ at every moment, whatever fails, also when
\* the process ends anywhere and RepairDB is called again.
NothingDestroyed ==
  owed \subseteq Readable(tables) \union Readable(logs)
                 \union UNION {lost[n] : n \in DOMAIN lost}

\* A run of RepairDB that met no failing operation makes a database with
\* everything that could be read (include/leveldb/db.h:155-156, "resurrect
\* as much of the contents of the database as possible").
KeepsReadable ==
  phase = "repaired" /\ ~fixer.failed /\ budget.crashes = 0
    => owed \subseteq LiveEntries

\* The new descriptor's numbers are past everything it lists, so that later
\* writes are newer than all entries and new files overwrite none.
NumbersCover ==
  phase = "repaired" =>
    /\ desc.tables \subseteq DOMAIN tables
    /\ \A e \in LiveEntries : e.seq <= desc.last
    /\ \A n \in DOMAIN tables : n < desc.next

\* RepairDB comes to an end once its process is left alone.
RepairEnds == phase = "stopped" ~> phase \in {"repaired", "failed"}

=============================================================================

----------------------------- MODULE MCLevelDB -----------------------------
(***************************************************************************)
(* leveldb's components one by one, on small instances: the shared ones of *)
(* MCShared, and what is read back from files: a log that is cut by a      *)
(* crash, damaged, torn by a failing append or read from an offset; a      *)
(* table of several blocks whose reads may fail and one of several restart *)
(* points; and RepairDB.  Each behaviour runs one part and leaves the      *)
(* others as they were.                                                    *)
(***************************************************************************)
EXTENDS MCShared

VARIABLES
  phase, file, boff, cur, written, flipped, offset, logRd, out, reports, \* LogFormat
  state, rep, added, table, cursor, call, faults,            \* SortedTable
  fixPhase, tables, logs, order, fixSeq, next, desc, lost, owed, fixer,
  budget                                                           \* Repair

(* Records that fill a block, leave a trailer or need three fragments. *)
Lengths == {0, 1, 3, 4, 9}

Cut == INSTANCE LogFormat WITH BlockSize <- 7, HeaderSize <- 3,
  Lengths <- Lengths, MaxRecords <- 3, MaxOffset <- 0, Faults <- {"crash"},
  rd <- logRd
Flipped == INSTANCE LogFormat WITH BlockSize <- 7, HeaderSize <- 3,
  Lengths <- Lengths, MaxRecords <- 3, MaxOffset <- 0, Faults <- {"flip"},
  rd <- logRd
Torn == INSTANCE LogFormat WITH BlockSize <- 7, HeaderSize <- 3,
  Lengths <- {0, 1, 9}, MaxRecords <- 3, MaxOffset <- 0, Faults <- {"append"},
  rd <- logRd
Offset == INSTANCE LogFormat WITH BlockSize <- 7, HeaderSize <- 3,
  Lengths <- {0, 1, 4, 9}, MaxRecords <- 3, MaxOffset <- 21, Faults <- {},
  rd <- logRd

(* Keys that share prefixes, that leave room for a shorter separator, and  *)
(* one that starts with the largest byte.                                  *)
Keys == {<<0, 1>>, <<0, 3>>, <<2>>, <<3, 3>>}

(* Two bits of a small filter per key; some keys collide. *)
Bits == [k \in Keys |-> {Len(k), 3 + k[1]}]

Blocks == INSTANCE SortedTable WITH
  Key <- Keys \ {<<2>>}, MaxByte <- 3, MaxSeq <- 2,
  RestartInterval <- 2, BlockSize <- 2, FilterBase <- 4, HasFilter <- TRUE,
  Probes <- Bits, MaxEntries <- 3, MaxFaults <- 1, phase <- state, file <- table
Restarts == INSTANCE SortedTable WITH
  Key <- Keys \ {<<3, 3>>}, MaxByte <- 3, MaxSeq <- 2,
  RestartInterval <- 2, BlockSize <- 4, FilterBase <- 8, HasFilter <- TRUE,
  Probes <- Bits, MaxEntries <- 4, MaxFaults <- 0, phase <- state, file <- table

(* One file is damaged, one operation fails, the process ends once. *)
Fix == INSTANCE Repair WITH Key <- {"a", "b"}, MaxWrites <- 3, MaxFile <- 7,
  MaxDamage <- 1, MaxFaults <- 1, MaxCrashes <- 1, Flips <- FALSE,
  phase <- fixPhase, seq <- fixSeq

logVars == <<phase, file, boff, cur, written, flipped, offset, logRd, out, reports>>
tableVars == <<state, rep, added, table, cursor, call, faults>>
fixVars == <<fixPhase, tables, logs, order, fixSeq, next, desc, lost,
             owed, fixer, budget>>
diskVars == <<logVars, tableVars, fixVars>>
allVars == <<vars, diskVars>>

Log == {"cut log", "flipped log", "torn log", "log with offset"}
Table == {"blocks", "restarts"}

AllInit ==
  /\ part \in SharedPart \union Log \union Table \union {"repair"}
  /\ Start /\ Cut!Init /\ Blocks!Init /\ Fix!Init

Disk ==
  \/ /\ \/ part = "cut log" /\ Cut!Next
        \/ part = "flipped log" /\ Flipped!Next
        \/ part = "torn log" /\ Torn!Next
        \/ part = "log with offset" /\ Offset!Next
     /\ UNCHANGED <<tableVars, fixVars>>
  \/ /\ \/ part = "blocks" /\ Blocks!Next
        \/ part = "restarts" /\ Restarts!Next
     /\ UNCHANGED <<logVars, fixVars>>
  \/ part = "repair" /\ Fix!Next /\ UNCHANGED <<logVars, tableVars>>

AllNext ==
  \/ Next /\ UNCHANGED diskVars
  \/ UNCHANGED vars /\ Disk

AllSpec == AllInit /\ [][AllNext]_allVars

-----------------------------------------------------------------------------
(* Properties *)

\* What log::Reader returns: only records that were written, whole, in order
\* and once, whatever was torn or damaged; of a log that a crash has cut
\* exactly those complete in it; no record is lost to a damaged byte outside
\* its blocks, nor to a failed append behind it; from an initial offset
\* exactly those that start at or after it.
LogSound ==
  /\ part \in Log => Cut!LogTypeOK /\ Cut!RecordsWhole
  /\ part = "cut log" => Cut!CutLogIsPrefix
  /\ part = "flipped log" => Flipped!DamageStaysInBlock
  /\ part = "torn log" => Torn!LostOnlyAfterFailure
  /\ part = "log with offset" => Offset!StartsAtOffset

\* What a table answers: the shortened keys of the index separate its blocks,
\* a table that BuildTable keeps is whole, an iterator moves as over a sorted
\* list in both directions and reports a block it had to skip, and neither
\* the filter nor the index sends a point read to the wrong block.
TableSound ==
  /\ part \in Table => /\ Blocks!IndexSeparates /\ Blocks!KeptIsWhole
                       /\ Blocks!GetAgrees
  /\ part = "blocks" => /\ Blocks!TableTypeOK /\ Blocks!CursorAgrees
                        /\ Blocks!SkipIsReported
  /\ part = "restarts" => Restarts!TableTypeOK /\ Restarts!CursorAgrees

\* RepairDB destroys nothing: what could be read when it was first called is
\* in the directory or in lost/ at every moment, whatever fails and wherever
\* the process ends; without a failing operation the repaired database has
\* all of it, and the numbers of the new descriptor are past what it lists.
RepairSound ==
  part = "repair" => Fix!NothingDestroyed /\ Fix!KeepsReadable /\ Fix!NumbersCover
=============================================================================

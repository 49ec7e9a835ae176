---------------------------- MODULE MCLevelStore ----------------------------
(***************************************************************************)
(* A small instance of LevelStore: two writes, two crashes (the second may *)
(* fall into the recovery from the first), a memtable that is full after   *)
(* one record, so that every write flushes, tables are compacted, and      *)
(* every kind of I/O call may fail.                                        *)
(***************************************************************************)
EXTENDS LevelStore

AllFaults == {"append", "sync", "manifest"}
=============================================================================

---------------------------- MODULE DurableStore ----------------------------
(***************************************************************************)
(* What leveldb promises about a crash, with no files in it                *)
(* (include/leveldb/options.h, the comment of WriteOptions::sync): a write *)
(* takes effect once and for all unless the machine crashes; a machine     *)
(* crash may lose writes, but never one that was synced.                   *)
(***************************************************************************)
CONSTANT WriteId

VARIABLES
  data,   \* the writes a (re)opened database shows
  safe    \* the writes that were acknowledged with sync == true

storeVars == <<data, safe>>

Init == data = {} /\ safe = {}

Put(w) == w \notin data /\ data' = data \union {w} /\ safe' = safe

Synced(w) == w \in data /\ safe' = safe \union {w} /\ data' = data

(* The machine crashes: any unsynced writes are lost. *)
MachineCrash == data' \in SUBSET data /\ safe \subseteq data' /\ safe' = safe

Next == (\E w \in WriteId : Put(w) \/ Synced(w)) \/ MachineCrash

Spec == Init /\ [][Next]_storeVars
=============================================================================

---------------------------- MODULE MCLevelTree ----------------------------
(***************************************************************************)
(* Small instances of LevelTree.  Each behaviour runs under one of four    *)
(* settings: a snapshot held while files are compacted, three keys with    *)
(* deletions over four levels, level-0 files that only together may move   *)
(* down, and manual compactions of a range.                                *)
(***************************************************************************)
EXTENDS LevelTree

(* Outputs are large enough that the versions of a key stay in one file.   *)
WithSnapshots ==
  [Key |-> {1, 2}, NumLevels |-> 4, MaxMemLevel |-> 2, L0Trigger |-> 2,
   MaxOutput |-> 9, Manual |-> FALSE, Types |-> BOOLEAN,
   MaxSeq |-> 3, MaxSnapshots |-> 1, MaxMem |-> 2]

Plain ==
  [WithSnapshots EXCEPT !.Key = {1, 2, 3}, !.MaxOutput = 1, !.MaxSeq = 4,
                        !.MaxSnapshots = 0]

Level0 ==
  [Plain EXCEPT !.NumLevels = 3, !.MaxMemLevel = 0, !.L0Trigger = 3,
                !.Types = {FALSE}, !.MaxSeq = 5]

Ranges ==
  [Plain EXCEPT !.NumLevels = 2, !.MaxMemLevel = 0, !.Manual = TRUE,
                !.Types = {FALSE}]

Settings == {WithSnapshots, Plain, Level0, Ranges}

(* The versions of a key may be divided between two files of a level. *)
Divided == {[WithSnapshots EXCEPT !.MaxOutput = 1, !.MaxSeq = 4]}
=============================================================================

------------------------------ MODULE SkipList ------------------------------
(***************************************************************************)
(* The skip list of a memtable (db/skiplist.h): one writer at a time, and  *)
(* readers that take no lock.  A step is one load or store of a link.      *)
(* Links are stored with release and loaded with acquire, so a reader that *)
(* reaches a node sees what was stored in it before; max_height_ has no    *)
(* barrier, so a reader may see any earlier value of it.                   *)
(***************************************************************************)
EXTENDS Integers, FiniteSets, FiniteSetsExt

CONSTANTS
  Key,         \* keys, positive integers
  MaxHeight,   \* kMaxHeight
  Reader

VARIABLES
  link,      \* [node -> [level -> node]]: next_
  height,    \* max_height_
  ins,       \* the writer's Insert: [pc, key, height, level, prev]
  done,      \* ghost: the keys whose Insert has returned
  rd,        \* [Reader -> its last call: [pc, call, target, x, level, got]]
  seen       \* ghost: [Reader -> done when the call began]

vars == <<link, height, ins, done, rd, seen>>

Head == 0
NIL == -1
Unset == -2         \* a link of a new node that has not been stored yet
Level == 0 .. MaxHeight - 1
Node == {Head} \union Key

NoInsert == [pc |-> "idle", key |-> NIL, height |-> 0, level |-> 0,
             prev |-> [l \in Level |-> Head]]
NoRead == [pc |-> "idle", call |-> "none", target |-> NIL, x |-> Head, level |-> 0, got |-> NIL]

Init ==
  /\ link = [n \in Node |-> [l \in Level |-> IF n = Head THEN NIL ELSE Unset]]
  /\ height = 1 /\ ins = NoInsert /\ done = {}
  /\ rd = [r \in Reader |-> NoRead] /\ seen = [r \in Reader |-> {}]

-----------------------------------------------------------------------------
(* KeyIsAfterNode: NIL is infinite. *)
KeyIsAfterNode(k, n) == n # NIL /\ n < k

(* FindGreaterOrEqual of the writer, which no other writer disturbs: the   *)
(* last node before k of every level.                                      *)
Chain(l) == {n \in Key : \E p \in Node : link[p][l] = n}

(* Mutant: the search stops one node early. *)
PrevTooEarly(k) == [l \in Level |->
  IF l < height THEN Max({Head} \union {n \in Chain(l) : n < k - 1}) ELSE Head]

Prev(k) == [l \in Level |->
  IF l < height THEN Max({Head} \union {n \in Chain(l) : n < k}) ELSE Head]

(* Insert: find the place, draw the height. *)
InsertBegins ==
  /\ ins.pc = "idle"
  /\ \E k \in Key \ done, h \in 1 .. MaxHeight :
       ins' = [pc |-> IF h > height THEN "height" ELSE "set",
               key |-> k, height |-> h, level |-> 0, prev |-> Prev(k)]
  /\ UNCHANGED <<link, height, done, rd, seen>>

(* max_height_ is raised before the node is linked. *)
InsertHeight ==
  /\ ins.pc = "height"
  /\ height' = ins.height
  /\ ins' = [ins EXCEPT !.pc = "set"]
  /\ UNCHANGED <<link, done, rd, seen>>

(* NoBarrier_SetNext of the new node at this level. *)
InsertSet ==
  /\ ins.pc = "set"
  /\ link' = [link EXCEPT ![ins.key][ins.level] = link[ins.prev[ins.level]][ins.level]]
  /\ ins' = [ins EXCEPT !.pc = "publish"]
  /\ UNCHANGED <<height, done, rd, seen>>

(* SetNext of the node before it: published at this level. *)
InsertPublish ==
  /\ ins.pc = "publish"
  /\ link' = [link EXCEPT ![ins.prev[ins.level]][ins.level] = ins.key]
  /\ IF ins.level + 1 < ins.height
     THEN /\ ins' = [ins EXCEPT !.pc = "set", !.level = @ + 1] /\ UNCHANGED done
     ELSE /\ ins' = NoInsert /\ done' = done \union {ins.key}
  /\ UNCHANGED <<height, rd, seen>>

-----------------------------------------------------------------------------
(* Readers: Seek (FindGreaterOrEqual), Prev (FindLessThan), SeekToLast     *)
(* (FindLast) and Next.                                                    *)
At(r) == rd[r].pc = "at" /\ rd[r].got # NIL

(* A search starts at the head, at a height that may be an old one. *)
Search(r, call, target) ==
  /\ \E h \in 1 .. height : rd' = [rd EXCEPT ![r] =
       [pc |-> "run", call |-> call, target |-> target, x |-> Head, level |-> h - 1, got |-> NIL]]
  /\ seen' = [seen EXCEPT ![r] = done]
  /\ UNCHANGED <<link, height, ins, done>>

Seek(r) == rd[r].pc # "run" /\ \E k \in Key : Search(r, "seek", k)
SeekToLast(r) == rd[r].pc # "run" /\ Search(r, "last", NIL)
PrevBegins(r) == At(r) /\ Search(r, "less", rd[r].got)

(* One load: Iterator::Next. *)
NextLoads(r) ==
  /\ At(r)
  /\ rd' = [rd EXCEPT ![r].call = "next", ![r].target = rd[r].got,
                         ![r].got = link[rd[r].got][0]]
  /\ seen' = [seen EXCEPT ![r] = done]
  /\ UNCHANGED <<link, height, ins, done>>

(* Mutant: the search for the node before k passes k itself. *)
OnwardTooFar(q, n) == n # NIL /\ (q.call = "last" \/ n <= q.target)

(* Whether the search goes on along the level. *)
Onward(q, n) == IF q.call = "last" THEN n # NIL ELSE KeyIsAfterNode(q.target, n)

(* One round of the loop of a search. *)
ReadStep(r) ==
  LET q == rd[r]
      n == link[q.x][q.level]
  IN /\ q.pc = "run"
     /\ rd' = [rd EXCEPT ![r] =
          IF Onward(q, n) THEN [q EXCEPT !.x = n]
          ELSE IF q.level > 0 THEN [q EXCEPT !.level = @ - 1]
          ELSE [q EXCEPT !.pc = "at",
                  !.got = IF q.call = "seek" THEN n ELSE IF q.x = Head THEN NIL ELSE q.x]]
     /\ UNCHANGED <<link, height, ins, done, seen>>

Next ==
  \/ InsertBegins \/ InsertHeight \/ InsertSet \/ InsertPublish
  \/ \E r \in Reader : \/ Seek(r) \/ SeekToLast(r) \/ PrevBegins(r)
                       \/ NextLoads(r) \/ ReadStep(r)

Spec == Init /\ [][Next]_vars

-----------------------------------------------------------------------------
(* Type correctness: no reader stands on a link that was never stored. *)
ListTypeOK ==
  /\ height \in 1 .. MaxHeight /\ done \subseteq Key
  /\ link \in [Node -> [Level -> Key \union {NIL, Unset}]]
  /\ \A r \in Reader : rd[r].x \in Node /\ rd[r].got \in Key \union {NIL} /\ rd[r].level \in Level

(* Every level is in order and a part of the level below, and the lowest   *)
(* one has every key whose Insert returned, between any two stores.        *)
LevelsNest ==
  /\ \A n \in Node, l \in Level : link[n][l] \in Key => link[n][l] > n
  /\ \A l \in Level \ {0} : Chain(l) \subseteq Chain(l - 1)
  /\ done \subseteq Chain(0)
  /\ \A n \in {Head} \union done : n = Max({Head} \union done) \/ link[n][0] \in Key

(* A reader that takes no lock misses no key whose Insert had returned     *)
(* when it began: nothing of that lies between where it looked and what it *)
(* found, on the side it looked at.                                        *)
NothingMissed ==
  \A r \in Reader : rd[r].pc = "at" =>
    LET q == rd[r]
        between(lo, hi) == {k \in seen[r] : lo < k /\ k < hi}
        top == Max(Key) + 1
        low(n) == IF n = NIL THEN 0 ELSE n
        high(n) == IF n = NIL THEN top ELSE n
    IN /\ q.call = "seek" => high(q.got) >= q.target /\ between(q.target - 1, high(q.got)) = {}
       /\ q.call = "next" => high(q.got) > q.target /\ between(q.target, high(q.got)) = {}
       /\ q.call = "less" => low(q.got) < q.target /\ between(low(q.got), q.target) = {}
       /\ q.call = "last" => between(low(q.got), top) = {}
=============================================================================

------------------------------ MODULE LruCache ------------------------------
(***************************************************************************)
(* leveldb's reference-counted cache (one shard of util/cache.cc: entries, *)
(* the hash table with its buckets, the lru_ and in_use_ lists) under the  *)
(* threads that use it the way TableCache::FindTable and                   *)
(* Table::BlockReader do: look up, on a miss read the file without any     *)
(* lock, insert, use, release.  Every method holds mutex_; the read        *)
(* between Lookup and Insert does not.                                     *)
(***************************************************************************)
EXTENDS Integers, Sequences, FiniteSets, SequencesExt

CONSTANTS
  Thread,
  Key,
  Hash,          \* [Key -> Nat]
  Charge,        \* [Key -> Nat]: 1 for a table, the size for a block
  Capacity,      \* capacity_
  MinLength,     \* buckets of an empty hash table (4)
  MaxHandles     \* bound on the entries ever made

VARIABLES
  cache,    \* the LRUCache
  pc,       \* [Thread -> "idle" | "reading" | "using"]
  want,     \* [Thread -> Key]
  held,     \* [Thread -> handle, 0: none]
  made,     \* number of entries made so far
  deleted   \* ghost: [handle -> how often its deleter ran]

vars == <<cache, pc, want, held, made, deleted>>

Handle == 1 .. MaxHandles

(* ent: entry of every handle that is allocated; list_: the buckets. *)
EmptyCache ==
  [ent |-> << >>, list |-> [b \in 0 .. MinLength - 1 |-> << >>],
   lru |-> << >>, inUse |-> {}, usage |-> 0]

Init ==
  /\ cache = EmptyCache
  /\ pc = [t \in Thread |-> "idle"] /\ held = [t \in Thread |-> 0]
  /\ want \in [Thread -> Key]
  /\ made = 0 /\ deleted = [h \in Handle |-> 0]

-----------------------------------------------------------------------------
(* HandleTable *)

Length(c) == Cardinality(DOMAIN c.list)
Elems(c) == FoldFunction(LAMBDA s, n : Len(s) + n, 0, c.list)
Bucket(c, k) == Hash[k] % Length(c)

(* FindPointer *)
Found(c, k) == {h \in ToSet(c.list[Bucket(c, k)]) : c.ent[h].key = k}

(* Mutant: the entries of the upper half of the buckets are forgotten. *)
ResizeHalf(c, len) ==
  LET all == FlattenSeq([b \in 1 .. (Length(c) + 1) \div 2 |-> c.list[b - 1]])
  IN [c EXCEPT !.list = [b \in 0 .. len - 1 |->
        Reverse(SelectSeq(all, LAMBDA h : Hash[c.ent[h].key] % len = b))]]

(* Resize relinks every entry at the front of its new bucket. *)
Resize(c, len) ==
  LET all == FlattenSeq([b \in 1 .. Length(c) |-> c.list[b - 1]])
  IN [c EXCEPT !.list = [b \in 0 .. len - 1 |->
        Reverse(SelectSeq(all, LAMBDA h : Hash[c.ent[h].key] % len = b))]]

(* The smallest power of two times MinLength that is not below n. *)
NewLength(n) ==
  CHOOSE len \in {MinLength * 2 ^ i : i \in 0 .. n} :
    /\ len >= n
    /\ \A other \in {MinLength * 2 ^ i : i \in 0 .. n} : other >= n => len <= other

(* HandleTable::Insert: in the place of an entry with the same key, or at  *)
(* the end of the bucket.                                                  *)
TableInsert(c, h) ==
  LET k == c.ent[h].key
      b == Bucket(c, k)
      old == Found(c, k)
      put == [c EXCEPT !.list[b] = IF old = {} THEN Append(@, h)
                ELSE [i \in DOMAIN @ |-> IF @[i] \in old THEN h ELSE @[i]]]
  IN IF old = {} /\ Elems(put) > Length(put) THEN Resize(put, NewLength(Elems(put))) ELSE put

TableRemove(c, h) ==
  [c EXCEPT !.list[Bucket(c, c.ent[h].key)] = SelectSeq(@, LAMBDA g : g # h)]

-----------------------------------------------------------------------------
(* LRUCache: every operator takes the cache and yields the cache *)

(* Ref: an entry on lru_ moves to in_use_. *)
Ref(c, h) ==
  LET e == c.ent[h]
      moves == e.refs = 1 /\ e.inCache
  IN [c EXCEPT !.ent[h].refs = @ + 1,
               !.lru = IF moves THEN SelectSeq(@, LAMBDA g : g # h) ELSE @,
               !.inUse = IF moves THEN @ \union {h} ELSE @]

Freed(c, h) == [c EXCEPT !.ent = [g \in DOMAIN c.ent \ {h} |-> c.ent[g]]]

(* Mutant: the last reference but one frees the entry. *)
UnrefEarly(c, h) ==
  LET e == c.ent[h]
      moves == e.inCache /\ e.refs = 2
  IN IF e.refs = 1 \/ (e.refs = 2 /\ ~e.inCache) THEN Freed(c, h)
     ELSE [c EXCEPT !.ent[h].refs = @ - 1,
                    !.lru = IF moves THEN Append(@, h) ELSE @,
                    !.inUse = IF moves THEN @ \ {h} ELSE @]

(* Unref: free the entry, or move it to the new end of lru_. *)
Unref(c, h) ==
  LET e == c.ent[h]
      moves == e.inCache /\ e.refs = 2
  IN IF e.refs = 1 THEN Freed(c, h)
     ELSE [c EXCEPT !.ent[h].refs = @ - 1,
                    !.lru = IF moves THEN Append(@, h) ELSE @,
                    !.inUse = IF moves THEN @ \ {h} ELSE @]

(* Mutant: the charge is not given back. *)
FinishEraseKeepsCharge(c, h) ==
  Unref([c EXCEPT !.ent[h].inCache = FALSE,
                  !.lru = SelectSeq(@, LAMBDA g : g # h),
                  !.inUse = @ \ {h}], h)

FinishErase(c, h) ==
  Unref([c EXCEPT !.ent[h].inCache = FALSE,
                  !.lru = SelectSeq(@, LAMBDA g : g # h),
                  !.inUse = @ \ {h},
                  !.usage = @ - c.ent[h].charge], h)

(* Table and cache forget the handles of s, in order. *)
EraseAll(c, s) == FoldLeft(LAMBDA d, h : FinishErase(TableRemove(d, h), h), c, s)

(* Mutant: the newest entries are evicted. *)
EvictNewest(c) ==
  LET order == Reverse(c.lru)
      after(n) == EraseAll(c, SubSeq(order, 1, n))
      n == CHOOSE n \in 0 .. Len(order) :
             /\ n = Len(order) \/ after(n).usage <= Capacity
             /\ \A m \in 0 .. n - 1 : after(m).usage > Capacity
  IN after(n)

(* The loop of Insert: the oldest of lru_ go while too much is used. *)
EvictOldest(c) ==
  LET after(n) == EraseAll(c, SubSeq(c.lru, 1, n))
      n == CHOOSE n \in 0 .. Len(c.lru) :
             /\ n = Len(c.lru) \/ after(n).usage <= Capacity
             /\ \A m \in 0 .. n - 1 : after(m).usage > Capacity
  IN after(n)

Insert(c, h, k) ==
  LET e == [key |-> k, charge |-> Charge[k], inCache |-> Capacity > 0,
            refs |-> IF Capacity > 0 THEN 2 ELSE 1]
      old == Found(c, k)
      new == [c EXCEPT !.ent = [g \in DOMAIN c.ent \union {h} |-> IF g = h THEN e ELSE c.ent[g]]]
      listed == TableInsert([new EXCEPT !.inUse = @ \union {h}, !.usage = @ + Charge[k]], h)
  IN EvictOldest(IF Capacity = 0 THEN new
                 ELSE IF old = {} THEN listed
                 ELSE FinishErase(listed, CHOOSE o \in old : TRUE))

-----------------------------------------------------------------------------
(* The threads *)

(* The deleter runs for every entry that is freed. *)
SetCache(c) ==
  /\ cache' = c
  /\ deleted' = [h \in Handle |->
       IF h \in DOMAIN cache.ent \ DOMAIN c.ent THEN deleted[h] + 1 ELSE deleted[h]]

(* FindTable, BlockReader: Lookup. *)
Lookup(t) ==
  /\ pc[t] = "idle"
  /\ \E k \in Key :
       /\ want' = [want EXCEPT ![t] = k]
       /\ IF Found(cache, k) = {}
          THEN /\ pc' = [pc EXCEPT ![t] = "reading"] /\ SetCache(cache) /\ UNCHANGED held
          ELSE LET h == CHOOSE f \in Found(cache, k) : TRUE
               IN /\ pc' = [pc EXCEPT ![t] = "using"] /\ SetCache(Ref(cache, h))
                  /\ held' = [held EXCEPT ![t] = h]
  /\ UNCHANGED made

(* The file was read: Insert. *)
ReadAndInsert(t) ==
  /\ pc[t] = "reading" /\ made < MaxHandles
  /\ made' = made + 1
  /\ SetCache(Insert(cache, made + 1, want[t]))
  /\ pc' = [pc EXCEPT ![t] = "using"] /\ held' = [held EXCEPT ![t] = made + 1]
  /\ UNCHANGED want

(* It could not be read: errors are not cached. *)
ReadFails(t) ==
  /\ pc[t] = "reading"
  /\ pc' = [pc EXCEPT ![t] = "idle"]
  /\ UNCHANGED <<cache, want, held, made, deleted>>

(* UnrefEntry, ReleaseBlock, the end of TableCache::Get. *)
Release(t) ==
  /\ pc[t] = "using"
  /\ SetCache(Unref(cache, held[t]))
  /\ pc' = [pc EXCEPT ![t] = "idle"] /\ held' = [held EXCEPT ![t] = 0]
  /\ UNCHANGED <<want, made>>

(* TableCache::Evict: the file is being deleted. *)
Evict(k) ==
  /\ Found(cache, k) # {}
  /\ LET h == CHOOSE f \in Found(cache, k) : TRUE
     IN SetCache(FinishErase(TableRemove(cache, h), h))
  /\ UNCHANGED <<pc, want, held, made>>

(* Cache::Prune *)
Prune ==
  /\ cache.lru # << >>
  /\ SetCache(EraseAll(cache, cache.lru))
  /\ UNCHANGED <<pc, want, held, made>>

Next ==
  \/ \E t \in Thread : Lookup(t) \/ ReadAndInsert(t) \/ ReadFails(t) \/ Release(t)
  \/ (\E k \in Key : Evict(k)) \/ Prune

Spec == Init /\ [][Next]_vars

-----------------------------------------------------------------------------
InCache == {h \in DOMAIN cache.ent : cache.ent[h].inCache}
Holders(h) == {t \in Thread : held[t] = h}

(* Type correctness. *)
CacheTypeOK ==
  /\ DOMAIN cache.ent \subseteq 1 .. made /\ cache.usage \in Nat
  /\ \A h \in DOMAIN cache.ent : cache.ent[h].key \in Key /\ cache.ent[h].refs \in Nat \ {0}
  /\ pc \in [Thread -> {"idle", "reading", "using"}] /\ held \in [Thread -> 0 .. made]
  /\ \A t \in Thread : (held[t] # 0) = (pc[t] = "using")

(* Nobody uses freed memory and nothing leaks: an entry has one reference  *)
(* per thread that holds it and one for the cache, what a thread holds is  *)
(* allocated and is what it asked for, and the deleter runs exactly once,  *)
(* when the last reference goes.                                           *)
RefsAreHolders ==
  /\ \A h \in DOMAIN cache.ent :
       cache.ent[h].refs = Cardinality(Holders(h)) + (IF cache.ent[h].inCache THEN 1 ELSE 0)
  /\ \A t \in Thread : held[t] # 0 =>
       held[t] \in DOMAIN cache.ent /\ cache.ent[held[t]].key = want[t]
  /\ \A h \in 1 .. made : deleted[h] = IF h \in DOMAIN cache.ent THEN 0 ELSE 1

(* "All items in the cache are in one list or the other, and never both":  *)
(* lru_ has those that no client holds, in_use_ the others, and a lookup   *)
(* finds exactly the items in the cache, one per key.                      *)
ListsPartition ==
  /\ IsInjective(cache.lru)
  /\ ToSet(cache.lru) = {h \in InCache : Holders(h) = {}}
  /\ cache.inUse = {h \in InCache : Holders(h) # {}}
  /\ InCache = UNION {Found(cache, k) : k \in Key}
  /\ \A k \in Key : Cardinality(Found(cache, k)) <= 1

(* usage_ is the charge of what is in the cache. *)
UsageIsCharge ==
  cache.usage = FoldFunctionOnSet(LAMBDA e, n : e.charge + n, 0, cache.ent, InCache)

(* An insertion leaves too much in use only if nothing can be evicted, and *)
(* evicts the oldest unused entries first.                                 *)
InsertEvicts ==
  made' # made =>
    /\ cache'.usage <= Capacity \/ cache'.lru = << >>
    /\ IsSuffix(cache'.lru, SelectSeq(cache.lru, LAMBDA h : cache.ent[h].key # cache'.ent[made'].key))

EvictsInOrder == [][InsertEvicts]_vars
=============================================================================

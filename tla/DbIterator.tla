----------------------------- MODULE DbIterator -----------------------------
(***************************************************************************)
(* What a caller of DB::NewIterator sees: DBIter (db/db_iter.cc) over a    *)
(* MergingIterator (table/merger.cc) over the memtable, which another      *)
(* thread goes on writing to, and over sources that do not change (the     *)
(* immutable memtable, table files).  A step is one round of a loop of     *)
(* DBIter; the change of direction in MergingIterator::Prev, which asks    *)
(* the memtable twice, is two steps.                                       *)
(*                                                                         *)
(* An entry is a user key, a sequence number and a type; a value is named  *)
(* by the sequence number of its write.                                    *)
(***************************************************************************)
EXTENDS Integers, Sequences, FiniteSets, FiniteSetsExt

CONSTANTS
  Key,       \* user keys, positive integers
  N,         \* number of children of the MergingIterator
  Old,       \* writes before the iterator was made
  MaxSeq     \* bound on all writes

VARIABLES
  src,    \* [1 .. N -> set of entries]: child 1 is the live memtable
  seq,    \* the last sequence number
  snap,   \* sequence_
  m,      \* the MergingIterator: [pos, cur, dir]
  it,     \* the DBIter: [valid, dir, key, value]: key and value are the saved ones
  run,    \* the call that is running: [pc, skipping, del]
  want    \* ghost: the entry the caller should be at

vars == <<src, seq, snap, m, it, run, want>>

None == [key |-> 0, seq |-> 0, del |-> TRUE]
Child == 1 .. N
Idle == [pc |-> "idle", skipping |-> FALSE, del |-> TRUE]

Entry(s) == [key : Key, seq : {s}, del : BOOLEAN]
Base == UNION {src[i] : i \in Child}

Init ==
  /\ \E w \in [1 .. Old -> Key \X BOOLEAN \X Child] :
       src = [i \in Child |-> {[key |-> w[s][1], seq |-> s, del |-> w[s][2]] :
                                 s \in {x \in 1 .. Old : w[x][3] = i}}]
  /\ seq = Old /\ snap \in {Old - 1, Old}
  /\ m = [pos |-> [i \in Child |-> None], cur |-> 0, dir |-> "forward"]
  /\ it = [valid |-> FALSE, dir |-> "forward", key |-> 0, value |-> 0]
  /\ run = Idle /\ want = None

-----------------------------------------------------------------------------
(* Children *)

Before(a, b) == a.key < b.key \/ (a.key = b.key /\ a.seq > b.seq)

First(S) == IF S = {} THEN None ELSE CHOOSE e \in S : \A d \in S : d = e \/ Before(e, d)
Last(S) == IF S = {} THEN None ELSE CHOOSE e \in S : \A d \in S : d = e \/ Before(d, e)
NotBefore(S, e) == {d \in S : ~Before(d, e)}
Above(S, e) == {d \in S : Before(e, d)}
Below(S, e) == {d \in S : Before(d, e)}

(* FindSmallest, FindLargest: the first child wins a tie, there are none. *)
FindSmallest(p) ==
  LET valid == {i \in Child : p[i] # None}
  IN IF valid = {} THEN 0
     ELSE CHOOSE i \in valid : \A j \in valid : j = i \/ Before(p[i], p[j])
FindLargest(p) ==
  LET valid == {i \in Child : p[i] # None}
  IN IF valid = {} THEN 0
     ELSE CHOOSE i \in valid : \A j \in valid : j = i \/ Before(p[j], p[i])

Forward(p) == [pos |-> p, cur |-> FindSmallest(p), dir |-> "forward"]
Backward(p) == [pos |-> p, cur |-> FindLargest(p), dir |-> "reverse"]

-----------------------------------------------------------------------------
(* MergingIterator *)

Valid == m.cur # 0
Cur == m.pos[m.cur]

MSeekToFirst == Forward([i \in Child |-> First(src[i])])
MSeekToLast == Backward([i \in Child |-> Last(src[i])])
MSeek(e) == Forward([i \in Child |-> First(NotBefore(src[i], e))])

(* Next: after a change of direction the others go to the first entry      *)
(* after key().                                                            *)
MNext ==
  LET others == IF m.dir = "forward" THEN m.pos
                ELSE [i \in Child |-> First(Above(src[i], Cur))]
  IN Forward([others EXCEPT ![m.cur] = First(Above(src[m.cur], Cur))])

(* Prev without a change of direction. *)
MPrevSame == Backward([m.pos EXCEPT ![m.cur] = Last(Below(src[m.cur], Cur))])

(* Prev, change of direction, first half: the other children Seek(key()). *)
MPrevSeeks ==
  [m EXCEPT !.pos = [i \in Child |->
     IF i = m.cur THEN m.pos[i] ELSE First(NotBefore(src[i], Cur))]]

(* Mutant: a child without an entry at or after key() stays invalid. *)
MPrevFollowsNoLast ==
  Backward([i \in Child |->
    IF i # m.cur /\ m.pos[i] = None THEN None ELSE Last(Below(src[i], m.pos[i]))])

(* Second half: they step back, or go to their last entry when there was   *)
(* none at or after key().                                                 *)
MPrevFollows ==
  Backward([i \in Child |->
    IF i # m.cur /\ m.pos[i] = None THEN Last(src[i]) ELSE Last(Below(src[i], m.pos[i]))])

-----------------------------------------------------------------------------
(* The snapshot *)

Seen(k) == {e \in Base : e.key = k /\ e.seq <= snap}
Newest(k) == CHOOSE e \in Seen(k) : \A d \in Seen(k) : d.seq <= e.seq
View == {Newest(k) : k \in {x \in Key : Seen(x) # {}}} \ {e \in Base : e.del}

-----------------------------------------------------------------------------
(* The writer: WriteBatchInternal::InsertInto(mem_). *)
Write ==
  /\ seq < MaxSeq
  /\ \E e \in Entry(seq + 1) : src' = [src EXCEPT ![1] = @ \union {e}]
  /\ seq' = seq + 1
  /\ UNCHANGED <<snap, m, it, run, want>>

(* Positions m, and starts FindNextUserEntry if there is an entry. *)
StartForward(mN, itN, skipping) ==
  /\ m' = mN
  /\ IF mN.cur = 0
     THEN it' = [itN EXCEPT !.valid = FALSE] /\ run' = Idle
     ELSE it' = itN /\ run' = [pc |-> "forward", skipping |-> skipping, del |-> TRUE]

Called == run.pc = "idle"

Seek ==
  /\ Called
  /\ \E k \in Key :
       /\ StartForward(MSeek([key |-> k, seq |-> snap, del |-> FALSE]),
                       [it EXCEPT !.dir = "forward", !.key = k, !.value = 0], FALSE)
       /\ want' = First({e \in View : e.key >= k})
  /\ UNCHANGED <<src, seq, snap>>

SeekToFirst ==
  /\ Called
  /\ StartForward(MSeekToFirst, [it EXCEPT !.dir = "forward", !.value = 0], FALSE)
  /\ want' = First(View)
  /\ UNCHANGED <<src, seq, snap>>

SeekToLast ==
  /\ Called
  /\ m' = MSeekToLast /\ it' = [it EXCEPT !.dir = "reverse", !.value = 0]
  /\ run' = [pc |-> "reverse", skipping |-> FALSE, del |-> TRUE]
  /\ want' = Last(View)
  /\ UNCHANGED <<src, seq, snap>>

(* Next after Prev: the internal iterator is just before the entries of    *)
(* key(), or nowhere.                                                      *)
NextFromReverse ==
  LET mN == IF Valid THEN MNext ELSE MSeekToFirst
  IN StartForward(mN, [it EXCEPT !.dir = "forward", !.key = IF mN.cur = 0 THEN 0 ELSE @], TRUE)

NextCalled ==
  /\ Called /\ it.valid
  /\ \/ it.dir = "reverse" /\ NextFromReverse
     \/ it.dir = "forward" /\ StartForward(m, [it EXCEPT !.key = Cur.key], TRUE)
  /\ want' = First(Above(View, want))
  /\ UNCHANGED <<src, seq, snap>>

(* One round of FindNextUserEntry. *)
FindNextUserEntry ==
  /\ run.pc = "forward"
  /\ LET e == Cur
         visible == e.seq <= snap
         hides == visible /\ e.del
         hidden == run.skipping /\ e.key <= it.key
     IN IF visible /\ ~e.del /\ ~hidden
        THEN it' = [it EXCEPT !.valid = TRUE, !.key = 0] /\ run' = Idle /\ UNCHANGED m
        ELSE /\ m' = MNext
             /\ IF MNext.cur = 0
                THEN it' = [it EXCEPT !.valid = FALSE, !.key = 0] /\ run' = Idle
                ELSE /\ it' = [it EXCEPT !.key = IF hides THEN e.key ELSE @]
                     /\ run' = [run EXCEPT !.skipping = @ \/ hides]
  /\ UNCHANGED <<src, seq, snap, want>>

(* Prev *)
PrevCalled ==
  /\ Called /\ it.valid
  /\ IF it.dir = "forward"
     THEN /\ it' = [it EXCEPT !.key = Cur.key]
          /\ run' = [pc |-> "back", skipping |-> FALSE, del |-> TRUE]
     ELSE /\ run' = [pc |-> "reverse", skipping |-> FALSE, del |-> TRUE]
          /\ UNCHANGED it
  /\ want' = Last(Below(View, want))
  /\ UNCHANGED <<src, seq, snap, m>>

(* One round of the loop of Prev: back to before the entries of key(). *)
BackTo(mN) ==
  /\ m' = mN
  /\ IF mN.cur = 0
     THEN it' = [it EXCEPT !.valid = FALSE, !.key = 0, !.value = 0] /\ run' = Idle
     ELSE IF mN.pos[mN.cur].key < it.key
     THEN it' = [it EXCEPT !.dir = "reverse"] /\ run' = [run EXCEPT !.pc = "reverse"]
     ELSE UNCHANGED it /\ run' = [run EXCEPT !.pc = "back"]
  /\ UNCHANGED <<src, seq, snap, want>>

ScanBack == run.pc = "back" /\ m.dir = "reverse" /\ BackTo(MPrevSame)

ScanBackSeeks ==
  /\ run.pc = "back" /\ m.dir = "forward"
  /\ m' = MPrevSeeks /\ run' = [run EXCEPT !.pc = "turning"]
  /\ UNCHANGED <<src, seq, snap, it, want>>

ScanBackFollows == run.pc = "turning" /\ BackTo(MPrevFollows)

(* A value was found and this entry is of another key. *)
Stops(e) == ~run.del /\ e.key < it.key

(* Mutant: an entry that is not visible is not stepped over. *)
FindPrevUserEntrySticks ==
  /\ run.pc = "reverse" /\ Valid /\ ~(Cur.seq <= snap /\ Stops(Cur))
  /\ LET e == Cur
     IN IF e.seq > snap THEN UNCHANGED <<it, run, m>>
        ELSE /\ run' = [run EXCEPT !.del = e.del]
             /\ it' = [it EXCEPT !.key = IF e.del THEN 0 ELSE e.key,
                                 !.value = IF e.del THEN 0 ELSE e.seq]
             /\ m' = MPrevSame
  /\ UNCHANGED <<src, seq, snap, want>>

(* One round of FindPrevUserEntry. *)
FindPrevUserEntry ==
  /\ run.pc = "reverse" /\ Valid /\ ~(Cur.seq <= snap /\ Stops(Cur))
  /\ LET e == Cur
     IN IF e.seq > snap THEN UNCHANGED <<it, run>>
        ELSE /\ run' = [run EXCEPT !.del = e.del]
             /\ it' = [it EXCEPT !.key = IF e.del THEN 0 ELSE e.key,
                                 !.value = IF e.del THEN 0 ELSE e.seq]
  /\ m' = MPrevSame
  /\ UNCHANGED <<src, seq, snap, want>>

(* Mutant: one entry of the next key is passed. *)
FindPrevUserEntryEndsPast ==
  /\ run.pc = "reverse" /\ (Valid => Cur.seq <= snap /\ Stops(Cur))
  /\ it' = IF run.del
           THEN [it EXCEPT !.valid = FALSE, !.key = 0, !.value = 0, !.dir = "forward"]
           ELSE [it EXCEPT !.valid = TRUE]
  /\ run' = Idle
  /\ m' = IF Valid THEN MPrevSame ELSE m
  /\ UNCHANGED <<src, seq, snap, want>>

FindPrevUserEntryEnds ==
  /\ run.pc = "reverse" /\ (Valid => Cur.seq <= snap /\ Stops(Cur))
  /\ it' = IF run.del
           THEN [it EXCEPT !.valid = FALSE, !.key = 0, !.value = 0, !.dir = "forward"]
           ELSE [it EXCEPT !.valid = TRUE]
  /\ run' = Idle
  /\ UNCHANGED <<src, seq, snap, m, want>>

Loop ==
  \/ FindNextUserEntry \/ ScanBack \/ ScanBackSeeks \/ ScanBackFollows
  \/ FindPrevUserEntry \/ FindPrevUserEntryEnds

Next ==
  \/ Write \/ Seek \/ SeekToFirst \/ SeekToLast \/ NextCalled \/ PrevCalled \/ Loop

Spec == Init /\ [][Next]_vars
FairSpec == Spec /\ WF_vars(Loop)

-----------------------------------------------------------------------------
(* Type correctness: a valid forward iterator stands on an entry. *)
IterTypeOK ==
  /\ m.cur \in 0 .. N /\ m.dir \in {"forward", "reverse"} /\ it.dir \in {"forward", "reverse"}
  /\ \A i \in Child : m.pos[i] \in src[i] \union {None}
  /\ run.pc \in {"idle", "forward", "back", "turning", "reverse"}
  /\ (Called /\ it.valid /\ it.dir = "forward") \/ run.pc \in {"forward", "turning"} => Valid

(* However the caller mixes Seek, Next and Prev, and whatever is written   *)
(* meanwhile, the iterator is where a cursor over the snapshot taken when  *)
(* it was made would be: no key is skipped, repeated, shown deleted or     *)
(* shown with another value.                                               *)
CursorAgrees ==
  Called =>
    /\ it.valid = (want # None)
    /\ it.valid /\ it.dir = "forward" => Cur = want
    /\ it.valid /\ it.dir = "reverse" => it.key = want.key /\ it.value = want.seq

(* What DBIter's loops rely on ("positioned just before all entries whose  *)
(* user key == this->key()"): in reverse, nothing visible lies between the *)
(* internal iterator and the entries of the current key.                   *)
ReverseIsBefore ==
  Called /\ it.valid /\ it.dir = "reverse" =>
    \A e \in Base : e.seq <= snap /\ (Valid => Before(Cur, e)) => e.key >= it.key

(* Every call returns. *)
CallsEnd == run.pc # "idle" ~> run.pc = "idle"
=============================================================================

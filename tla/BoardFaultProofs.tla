-------------------------- MODULE BoardFaultProofs --------------------------
(***************************************************************************)
(* The run-time checks of the app that fail, and why, for every set of     *)
(* clients, jobs, applications and titles, every list of fields, every     *)
(* enumeration order of dictionaries and every bound.                      *)
(***************************************************************************)
EXTENDS BoardScreensProofs

-----------------------------------------------------------------------------
(* What one step does to the screens of one client.                        *)

\* A callback that waited before the step; it may have got the snapshot v.
Same(x, r, v) ==
    x.kind = r.kind /\ x.vc = r.vc /\ x.row = r.row /\ (x.snap = r.snap \/ x.snap = v)

\* Why a step of c asks for a new read.
Asked(c, kind, vc, row) ==
    \/ /\ kind = "SetNewJobs" /\ c \in Searcher
       /\ stack[c] = <<>> /\ Len(reads'[c]) = 1
    \/ /\ kind \in {"SetMyPostedJobs", "SetApplicants"}
       /\ vc = Len(stack[c]) + 1 /\ Len(reads[c]) < MaxReads
    \/ /\ kind = "SetMyPostedJobs" /\ reads[c] /= <<>> /\ Head(reads[c]).kind = "RemoveJob"
       /\ vc = Head(reads[c]).vc /\ stack'[c][vc].list = <<>>
       /\ Len(reads'[c]) <= Len(reads[c])
    \/ /\ kind \in {"ApplyToJob", "RemoveJob"} /\ popover[c] /= NoPopover
       /\ row = popover[c].row /\ vc = Len(stack[c]) /\ Len(reads[c]) < MaxReads
    \/ /\ kind = "DeclineApplicant" /\ Len(reads[c]) < MaxReads
       /\ \E n \in 1..Len(stack[c]) : stack[c][n].list /= <<>>
    \/ /\ kind \in {"RemoveApplication", "RemoveApplication2"} /\ reads[c] /= <<>>
       /\ Head(reads[c]).kind \in {"DeclineApplicant", "RemoveApplication"}

\* The callbacks of c after a step that ran d of them: new ones come last.
Moved(c, d) ==
    \A i \in 1..Len(reads'[c]) :
        LET x == reads'[c][i]
            v == Sync!View(server', puts'[c])
        IN  \/ i + d \in 1..Len(reads[c]) /\ Same(x, reads[c][i + d], v)
            \/ Asked(c, x.kind, x.vc, x.row) /\ x.snap \in {NoSnap, v}

\* Rows that a callback of this kind reads from a snapshot.
Loaded(kind, db, rows) ==
    /\ \A i \in 1..Len(rows) : /\ rows[i].job \in Keys(db)
                               /\ rows[i].data = Fields(db, rows[i].job)
    /\ kind \in {"SetNewJobs", "SetMyPostedJobs"} =>
          \A i, k \in 1..Len(rows) : rows[i].job = rows[k].job => i = k

\* The callback whose turn it is puts rows into the list of its screen.
LoadedLevel(c, n) ==
    /\ reads[c] /= <<>> /\ n = Head(reads[c]).vc /\ Head(reads[c]).snap /= NoSnap
    /\ Head(reads[c]).kind \in {"SetNewJobs", "SetMyPostedJobs", "SetApplicants"}
    /\ stack'[c][n].screen = stack[c][n].screen
    /\ Moved(c, 1)
    /\ \E rows \in Seq(Row) :
          /\ stack'[c][n].list = stack[c][n].list \o rows
          /\ Loaded(Head(reads[c]).kind, Head(reads[c]).snap, rows)

\* The levels of the tower of c.
TowerMoved(c) ==
    \A n \in 1..Len(stack'[c]) :
        \/ n \in 1..Len(stack[c]) /\ stack'[c][n] = stack[c][n]
        \/ /\ n = Len(stack[c]) + 1 /\ stack'[c][n].list = <<>>
           /\ stack'[c][n].screen = "ExploreVC" => c \in Searcher /\ stack[c] = <<>>
           /\ c \in Searcher => stack[c] = <<>> /\ stack'[c][n].screen = "ExploreVC"
        \/ /\ n \in 1..Len(stack[c]) /\ stack'[c][n].screen = stack[c][n].screen
           /\ stack'[c][n].list = <<>> /\ stack[c][n].screen = "PostedJobsVC"
        \/ n \in 1..Len(stack[c]) /\ LoadedLevel(c, n)

\* A job of which a field is missing.
Torn(db) == \E j \in Keys(db) : ~Complete(db, j)

Later == {"RemoveJob", "DeclineApplicant", "RemoveApplication", "RemoveApplication2"}

\* A force cast of c fails: on a row, on a job of a snapshot, or because the
\* snapshot of a later read is empty.
CastFails(c) ==
    \/ \E n \in 1..Len(stack'[c]) : \E i \in 1..Len(stack'[c][n].list) : \E f \in Field :
          stack'[c][n].list[i].data[f] = Null
    \/ /\ reads[c] /= <<>> /\ Head(reads[c]).snap /= NoSnap
       /\ \/ Torn(Head(reads[c]).snap)
          \/ Head(reads[c]).kind \in Later /\ Keys(Head(reads[c]).snap) = {}

\* The index of ApplyToJob is out of range.
IndexFails(c) ==
    /\ reads[c] /= <<>> /\ Head(reads[c]).snap /= NoSnap
    /\ Head(reads[c]).kind = "ApplyToJob"
    /\ Head(reads[c]).row \notin DOMAIN Enum(Keys(Head(reads[c]).snap))

FaultMoved(c) ==
    \/ fault'[c] \in {fault[c], "none"}
    \/ fault'[c] = "cast" /\ CastFails(c)
    \/ fault'[c] = "index" /\ IndexFails(c)

PopoverMoved(c) ==
    \/ popover'[c] \in {popover[c], NoPopover}
    \/ /\ stack[c] /= <<>> /\ stack' = stack
       /\ popover'[c].row \in 1..Len(stack[c][Len(stack[c])].list)

\* A step that runs no callback asks for one read at most, within the bound.
Tapped(c) ==
    \/ Len(reads'[c]) <= Len(reads[c])
    \/ /\ Len(reads'[c]) = Len(reads[c]) + 1
       /\ Len(reads[c]) < MaxReads \/ reads[c] = <<>>

Evolves(c) ==
    /\ (Moved(c, 0) /\ Tapped(c)) \/ (reads[c] /= <<>> /\ Moved(c, 1))
    /\ TowerMoved(c) /\ FaultMoved(c) /\ PopoverMoved(c)

-----------------------------------------------------------------------------
(* The parts of a step.                                                    *)

LEMMA SameRefl == \A r, v : Same(r, r, v)
  BY DEF Same

\* The queue after a step that ran d callbacks and asks for nothing.
LEMMA MovedRest ==
    ASSUME Screens, NEW c \in Client, NEW d \in Nat, NEW q \in Seq(ReadType),
           reads'[c] = q, Len(q) + d = Len(reads[c]),
           \A i \in 1..Len(q) : /\ q[i].kind = reads[c][i + d].kind
                                /\ q[i].vc = reads[c][i + d].vc
                                /\ q[i].row = reads[c][i + d].row
                                /\ q[i].snap = reads[c][i + d].snap
    PROVE  Moved(c, d)
<1>1. Len(reads[c]) \in Nat /\ Len(q) \in Nat
  BY ClientFacts
<1>2. \A i \in 1..Len(q) : i + d \in 1..Len(reads[c])
  BY <1>1
<1> QED
  BY <1>2 DEF Moved, Same

\* The queue after a step that ran d callbacks and asks for the reads p.
LEMMA MovedObserve ==
    ASSUME Screens, NEW c \in Client, NEW d \in Nat, NEW q \in Seq(ReadType),
           Len(q) + d = Len(reads[c]),
           \A i \in 1..Len(q) : /\ q[i].kind = reads[c][i + d].kind
                                /\ q[i].vc = reads[c][i + d].vc
                                /\ q[i].row = reads[c][i + d].row
                                /\ q[i].snap = reads[c][i + d].snap,
           NEW p \in Seq(ReadType), NEW v \in Sync!DB, v = Sync!View(server', puts'[c]),
           \A i \in 1..Len(p) : Asked(c, p[i].kind, p[i].vc, p[i].row) /\ p[i].snap = NoSnap,
           reads'[c] = Observe(q, p, v)
    PROVE  Moved(c, d)
<1>1. Len(reads[c]) \in Nat /\ Len(q) \in Nat
  BY ClientFacts
<1>2. PICK p2 \in Seq(ReadType) :
         /\ reads'[c] = q \o p2 /\ Len(p2) = Len(p)
         /\ \A i \in 1..Len(p) : p2[i] = p[i] \/ p2[i] = [p[i] EXCEPT !.snap = v]
  <2>1. /\ Answered(p, v) \in Seq(ReadType) /\ Len(Answered(p, v)) = Len(p)
        /\ \A i \in 1..Len(p) : Answered(p, v)[i] = [p[i] EXCEPT !.snap = v]
    BY QueueAnswered
  <2>2. reads'[c] = q \o p \/ reads'[c] = q \o Answered(p, v)
    BY DEF Observe, Answered
  <2> QED
    BY <2>1, <2>2
<1>3. \A i \in 1..Len(p2) : /\ Asked(c, p2[i].kind, p2[i].vc, p2[i].row)
                            /\ p2[i].snap \in {NoSnap, v}
  <2> SUFFICES ASSUME NEW i \in 1..Len(p2)
               PROVE  /\ Asked(c, p2[i].kind, p2[i].vc, p2[i].row)
                      /\ p2[i].snap \in {NoSnap, v}
    OBVIOUS
  <2>0. i \in 1..Len(p) /\ p[i] \in ReadType
    BY <1>2
  <2>1. CASE p2[i] = p[i]
    BY <2>0, <2>1
  <2>2. CASE p2[i] = [p[i] EXCEPT !.snap = v]
    <3>1. /\ p2[i].kind = p[i].kind /\ p2[i].vc = p[i].vc /\ p2[i].row = p[i].row
          /\ p2[i].snap = v
      BY <2>0, <2>2 DEF ReadType
    <3> QED
      BY <2>0, <3>1
  <2> QED
    BY <1>2, <2>0, <2>1, <2>2
<1>4. ASSUME NEW i \in 1..Len(reads'[c])
      PROVE  \/ /\ i + d \in 1..Len(reads[c])
                /\ Same(reads'[c][i], reads[c][i + d], v)
             \/ /\ Asked(c, reads'[c][i].kind, reads'[c][i].vc, reads'[c][i].row)
                /\ reads'[c][i].snap \in {NoSnap, v}
  <2>0. /\ Len(reads'[c]) = Len(q) + Len(p2) /\ Len(p2) \in Nat
        /\ reads'[c][i] = IF i <= Len(q) THEN q[i] ELSE p2[i - Len(q)]
    <3>1. PICK o : o = q \o p2
      OBVIOUS
    <3>2. /\ Len(o) = Len(q) + Len(p2)
          /\ \A k \in 1..Len(o) : o[k] = IF k <= Len(q) THEN q[k] ELSE p2[k - Len(q)]
      BY <3>1, ConcatProperties
    <3>3. reads'[c] = o
      BY <1>2, <3>1
    <3>4. Len(p2) \in Nat
      OBVIOUS
    <3> QED
      BY <3>2, <3>3, <3>4
  <2>1. CASE i <= Len(q)
    <3>1. i \in 1..Len(q) /\ i + d \in 1..Len(reads[c]) /\ reads'[c][i] = q[i]
      BY <1>1, <2>0, <2>1
    <3> QED
      BY <3>1 DEF Same
  <2>2. CASE ~(i <= Len(q))
    <3>1. i - Len(q) \in 1..Len(p2) /\ reads'[c][i] = p2[i - Len(q)]
      BY <1>1, <2>0, <2>2
    <3> QED
      BY <1>3, <3>1
  <2> QED
    BY <2>1, <2>2
<1> QED
  BY <1>4 DEF Moved

\* The rest of the queue once the first callback has run.
LEMMA RestFacts ==
    ASSUME Screens, NEW c \in Client, reads[c] /= <<>>, NEW q,
           q = Tail(reads[c]) \/ q = Closed(Tail(reads[c]))
    PROVE  /\ q \in Seq(ReadType) /\ Len(q) \in Nat /\ Len(q) + 1 = Len(reads[c])
           /\ \A i \in 1..Len(q) : /\ q[i].kind = reads[c][i + 1].kind
                                   /\ q[i].vc = reads[c][i + 1].vc
                                   /\ q[i].row = reads[c][i + 1].row
                                   /\ q[i].snap = reads[c][i + 1].snap
<1>0. reads[c] \in Seq(ReadType) /\ Uniform(reads[c])
  BY ClientFacts DEF QueueFits
<1> DEFINE t == Tail(reads[c])
<1>1. /\ t \in Seq(ReadType) /\ Uniform(t) /\ Len(t) = Len(reads[c]) - 1
      /\ \A i \in 1..Len(t) : i + 1 \in 1..Len(reads[c]) /\ t[i] = reads[c][i + 1]
  BY <1>0, QueueTail
<1>2. Len(t) \in Nat /\ Len(reads[c]) \in Nat
  BY <1>0, <1>1
<1> HIDE DEF t
<1>3. CASE q = t
  BY <1>1, <1>2, <1>3
<1>4. CASE q = Closed(t)
  <2>1. /\ q \in Seq(ReadType) /\ Len(q) = Len(t)
        /\ \A i \in 1..Len(t) : q[i] = [t[i] EXCEPT !.over = FALSE]
    BY <1>1, <1>4, QueueClosed
  <2>2. \A i \in 1..Len(t) : t[i] \in ReadType
    BY <1>1
  <2>3. \A i \in 1..Len(t) : /\ q[i].kind = t[i].kind /\ q[i].vc = t[i].vc
                             /\ q[i].row = t[i].row /\ q[i].snap = t[i].snap
    BY <2>1, <2>2 DEF ReadType
  <2> QED
    BY <1>1, <1>2, <2>1, <2>3
<1> QED
  BY <1>3, <1>4 DEF t

\* The queue with no callback run.
LEMMA WholeFacts ==
    ASSUME Screens, NEW c \in Client
    PROVE  /\ reads[c] \in Seq(ReadType) /\ Len(reads[c]) \in Nat
           /\ Len(reads[c]) + 0 = Len(reads[c])
           /\ \A i \in 1..Len(reads[c]) : reads[c][i + 0] = reads[c][i]
<1>1. reads[c] \in Seq(ReadType) /\ Len(reads[c]) \in Nat
  BY ClientFacts
<1>2. Len(reads[c]) + 0 = Len(reads[c]) /\ \A i \in 1..Len(reads[c]) : i + 0 = i
  BY <1>1
<1> QED
  BY <1>1, <1>2


LEMMA TowerSame ==
    ASSUME NEW c, stack'[c] = stack[c]
    PROVE  TowerMoved(c)
  BY DEF TowerMoved

LEMMA MovedSame ==
    ASSUME Screens, NEW c \in Client, reads'[c] = reads[c]
    PROVE  Moved(c, 0)
  BY WholeFacts, MovedRest

\* What the reads of a client see after a step.
LEMMA SeenNext ==
    ASSUME ScreenInv', NEW c \in Client
    PROVE  Sync!View(server', puts'[c]) \in Sync!DB
<1>1. (BoardInv /\ Trees)'
  BY DEF ScreenInv, Inv
<1> QED
  BY <1>1, ViewsTrueNext

\* How long a queue is after new reads.
LEMMA ObserveLen ==
    ASSUME NEW q \in Seq(ReadType), NEW p \in Seq(ReadType), NEW v \in Sync!DB
    PROVE  Len(Observe(q, p, v)) = Len(q) + Len(p)
<1>1. Answered(p, v) \in Seq(ReadType) /\ Len(Answered(p, v)) = Len(p)
  BY QueueAnswered
<1>2. Observe(q, p, v) = q \o p \/ Observe(q, p, v) = q \o Answered(p, v)
  BY DEF Observe, Answered
<1>3. \A x \in Seq(ReadType) : Len(q \o x) = Len(q) + Len(x)
  BY ConcatProperties
<1> QED
  BY <1>1, <1>2, <1>3

\* A queue that has not grown.
LEMMA TappedSame ==
    ASSUME Screens, NEW c \in Client, Len(reads'[c]) = Len(reads[c])
    PROVE  Tapped(c)
<1>1. Len(reads[c]) \in Nat
  BY ClientFacts
<1> QED
  BY <1>1 DEF Tapped

\* A queue that a tap or a new screen has added a read to.
LEMMA TappedObserve ==
    ASSUME Screens, NEW c \in Client, NEW p \in Seq(ReadType), Len(p) = 1, NEW v \in Sync!DB,
           reads'[c] = Observe(reads[c], p, v), Len(reads[c]) < MaxReads \/ reads[c] = <<>>
    PROVE  Tapped(c)
<1>1. reads[c] \in Seq(ReadType)
  BY ClientFacts
<1> QED
  BY <1>1, ObserveLen DEF Tapped

\* A step that leaves the screens of c alone.
LEMMA ClientStill ==
    ASSUME Screens, NEW c \in Client, stack'[c] = stack[c], popover'[c] = popover[c],
           reads'[c] = reads[c], fault'[c] = fault[c]
    PROVE  Evolves(c)
<1>1. Moved(c, 0)
  BY MovedSame
<1>2. Tapped(c)
  BY TappedSame
<1> QED
  BY <1>1, <1>2, TowerSame DEF Evolves, FaultMoved, PopoverMoved

\* Launch and Present.
LEMMA PushEvolves ==
    ASSUME Screens, ScreenInv', NEW c \in Client, NEW screen \in Screen, Push(c, screen),
           popover' = popover, fault' = fault, server' = server, puts' = puts,
           screen = "ExploreVC" => c \in Searcher,
           c \in Searcher => stack[c] = <<>> /\ screen = "ExploreVC",
           screen = "ExploreVC" => stack[c] = <<>>,
           screen \notin {"ExploreVC", "CreateJobVC"} => Len(reads[c]) < MaxReads
    PROVE  Evolves(c)
<1> DEFINE n == Len(stack[c])
           p == LoadOf(screen, n + 1)
           v == Sync!View(server, puts[c])
<1>0. /\ stack[c] \in Seq(VCType) /\ n \in Nat /\ reads[c] \in Seq(ReadType)
      /\ Len(reads[c]) \in Nat
      /\ QueueFits(stack[c], popover[c], declined, posted, request, reads[c])
      /\ stack \in [Client -> Seq(VCType)] /\ reads \in [Client -> Seq(ReadType)]
  BY ClientFacts DEF Screens, ScreenTypeOK
<1>1. /\ stack'[c] = Append(stack[c], VC(screen))
      /\ reads'[c] = Observe(reads[c], p, v)
  BY <1>0 DEF Push, Level
<1>v. v = Sync!View(server', puts'[c]) /\ v \in Sync!DB
  BY SeenNext
<1>3. VC(screen) \in VCType /\ VC(screen).screen = screen /\ VC(screen).list = <<>>
  BY DEF VC, VCType
<1>4. /\ Len(stack'[c]) = n + 1 /\ stack'[c][n + 1] = VC(screen)
      /\ \A m \in 1..n : stack'[c][m] = stack[c][m]
  BY <1>0, <1>1, <1>3, TowerAppend
<1>5. TowerMoved(c)
  <2> SUFFICES ASSUME NEW m \in 1..Len(stack'[c])
               PROVE  \/ m \in 1..n /\ stack'[c][m] = stack[c][m]
                      \/ /\ m = n + 1 /\ stack'[c][m].list = <<>>
                         /\ stack'[c][m].screen = "ExploreVC" => c \in Searcher /\ stack[c] = <<>>
                         /\ c \in Searcher => stack[c] = <<>> /\ stack'[c][m].screen = "ExploreVC"
    BY DEF TowerMoved
  <2> QED
    BY <1>0, <1>3, <1>4
<1>6. stack[c] = <<>> => reads[c] = <<>>
  <2> SUFFICES ASSUME stack[c] = <<>>, reads[c] /= <<>> PROVE FALSE
    OBVIOUS
  <2>1. 1 \in 1..Len(reads[c])
    BY <1>0
  <2>2. reads[c][1].vc \in 1..Len(stack[c])
    BY <1>0, <2>1 DEF QueueFits, ReadFits, Fits
  <2> QED
    BY <2>2
<1> HIDE DEF v
<1>7. ASSUME NEW kind \in {"SetNewJobs", "SetMyPostedJobs", "SetApplicants"},
             p = <<Read(kind, n + 1)>>, kind = "SetNewJobs" <=> screen = "ExploreVC",
             screen /= "CreateJobVC"
      PROVE  Moved(c, 0) /\ Tapped(c)
  <2>1. kind \in Kind /\ n + 1 \in Nat
    BY <1>0 DEF Kind
  <2>2. PICK r \in ReadType : /\ r = Read(kind, n + 1) /\ r.kind = kind
                              /\ r.vc = n + 1 /\ r.over = FALSE /\ r.snap = NoSnap
    BY ONLY <2>1, NewRead
  <2>3. p \in Seq(ReadType) /\ Len(p) = 1 /\ p[1] = r
    BY <1>7, <2>2, OneRead
  <2>4. Asked(c, r.kind, r.vc, r.row)
    <3>1. CASE kind = "SetNewJobs"
      <4>1. c \in Searcher /\ stack[c] = <<>> /\ reads[c] = <<>>
        BY <1>6, <1>7, <3>1
      <4>2. Observe(reads[c], p, v) = <<>> \o p
        BY <4>1 DEF Observe
      <4>3. <<>> \o p = p
        BY <2>3, ConcatEmptySeq
      <4>4. Len(reads'[c]) = 1
        BY <1>1, <2>3, <4>2, <4>3
      <4> QED
        BY <2>2, <3>1, <4>1, <4>4 DEF Asked
    <3>2. CASE kind /= "SetNewJobs"
      BY <1>7, <2>2, <3>2 DEF Asked
    <3> QED
      BY <3>1, <3>2
  <2>5. \A i \in 1..Len(p) : Asked(c, p[i].kind, p[i].vc, p[i].row) /\ p[i].snap = NoSnap
    BY <2>2, <2>3, <2>4
  <2> HIDE DEF p
  <2>6. Len(reads[c]) < MaxReads \/ reads[c] = <<>>
    BY <1>6, <1>7
  <2>7. Tapped(c)
    BY <1>1, <1>v, <2>3, <2>6, TappedObserve
  <2> QED
    BY <1>1, <1>v, <2>3, <2>5, <2>7, WholeFacts, MovedObserve
<1>8. Moved(c, 0) /\ Tapped(c)
  <2>1. CASE screen = "CreateJobVC"
    <3>1. p = <<>>
      BY <2>1 DEF LoadOf
    <3>2. <<>> \in Seq(ReadType) /\ \A i \in 1..Len(<<>>) : FALSE
      OBVIOUS
    <3>3. PICK e \in Seq(ReadType) : e = p /\ \A i \in 1..Len(e) : FALSE
      BY <3>1, <3>2
    <3> HIDE DEF p
    <3>4. Len(e) = 0
      BY <3>3
    <3>5. Len(reads'[c]) = Len(reads[c])
      <4>1. Len(Observe(reads[c], e, v)) = Len(reads[c]) + Len(e)
        BY <1>0, <1>v, ObserveLen
      <4> QED
        BY <1>0, <1>1, <3>3, <3>4, <4>1
    <3> QED
      BY <1>1, <1>v, <3>3, <3>5, WholeFacts, MovedObserve, TappedSame
  <2>3. CASE screen = "ExploreVC"
    BY <1>7, <2>3 DEF LoadOf
  <2>4. CASE screen = "PostedJobsVC"
    BY <1>7, <2>4 DEF LoadOf
  <2>5. CASE screen = "ShowApplicantsVC"
    BY <1>7, <2>5 DEF LoadOf
  <2> QED
    BY <2>1, <2>3, <2>4, <2>5 DEF Screen
<1> QED
  BY <1>5, <1>8 DEF Evolves, FaultMoved, PopoverMoved

\* A tap that asks for a read.
LEMMA TapEvolves ==
    ASSUME Screens, ScreenInv', NEW c \in Client, NEW r \in ReadType, Tap(c, r), r.snap = NoSnap,
           Asked(c, r.kind, r.vc, r.row)
    PROVE  Evolves(c)
<1> DEFINE v == Sync!View(server, puts[c])
<1>0. reads \in [Client -> Seq(ReadType)]
  BY DEF Screens, ScreenTypeOK
<1>1. /\ stack' = stack /\ popover' = popover /\ fault' = fault
      /\ reads'[c] = Observe(reads[c], <<r>>, v) /\ server' = server /\ puts' = puts
  BY <1>0 DEF Tap, syncVars
<1>v. v = Sync!View(server', puts'[c]) /\ v \in Sync!DB
  BY <1>1, SeenNext
<1> HIDE DEF v
<1>2. PICK p \in Seq(ReadType) : p = <<r>> /\ Len(p) = 1 /\ p[1] = r
  BY OneRead
<1>3. Moved(c, 0)
  <2>1. \A i \in 1..Len(p) : Asked(c, p[i].kind, p[i].vc, p[i].row) /\ p[i].snap = NoSnap
    BY <1>2
  <2>2. reads'[c] = Observe(reads[c], p, v)
    BY <1>1, <1>2
  <2> QED
    BY <1>v, <2>1, <2>2, WholeFacts, MovedObserve
<1>4. Tapped(c)
  <2>1. Len(reads[c]) < MaxReads
    BY DEF Tap
  <2> QED
    BY <1>1, <1>2, <1>v, <2>1, TappedObserve
<1> QED
  BY <1>1, <1>3, <1>4, TowerSame DEF Evolves, FaultMoved, PopoverMoved

LEMMA PopoverTapEvolves ==
    ASSUME Screens, ScreenInv', NEW c \in Client, NEW kind \in {"ApplyToJob", "RemoveJob"},
           Running(c), popover[c] /= NoPopover, Visible(c).screen = ScreenOf(kind),
           Tap(c, PopoverRead(c, kind))
    PROVE  Evolves(c)
<1>1. PICK r \in ReadType : r = PopoverRead(c, kind) /\ r.snap = NoSnap
  BY PopoverReadFits
<1>2. r.kind = kind /\ r.vc = Len(stack[c]) /\ r.row = popover[c].row
  BY <1>1 DEF PopoverRead, Read, Level
<1>3. Len(reads[c]) < MaxReads
  BY DEF Tap
<1>4. Asked(c, r.kind, r.vc, r.row)
  BY <1>2, <1>3 DEF Asked
<1> QED
  BY <1>1, <1>4, TapEvolves

LEMMA TapDeclineEvolves ==
    ASSUME Screens, ScreenInv', NEW c \in Client, NEW r, TapDecline(c, r)
    PROVE  Evolves(c)
<1> DEFINE n == Len(stack[c])
           x == [Read("DeclineApplicant", Level(c)) EXCEPT !.row = r]
<1>1. /\ Running(c) /\ r \in DOMAIN stack[c][n].list /\ Tap(c, x)
  BY DEF TapDecline, Active, Visible, Level
<1>2. stack[c] \in Seq(VCType) /\ stack[c] /= <<>> /\ n \in Nat
  BY <1>1, ClientFacts DEF Running
<1>3. n \in 1..n /\ stack[c][n] \in VCType
  BY <1>2
<1>4. r \in Nat /\ r \in 1..Len(stack[c][n].list)
  BY <1>1, <1>3 DEF VCType
<1>5. x \in ReadType /\ x.kind = "DeclineApplicant" /\ x.snap = NoSnap
  BY <1>2, <1>4 DEF Read, ReadType, Kind, Level
<1> HIDE DEF x
<1>6. Asked(c, x.kind, x.vc, x.row)
  <2>1. stack[c][n].list /= <<>> /\ Len(reads[c]) < MaxReads
    BY <1>1, <1>4 DEF Tap
  <2> QED
    BY <1>3, <1>5, <2>1 DEF Asked
<1> QED
  BY <1>1, <1>5, <1>6, TapEvolves

LEMMA DeliverEvolves ==
    ASSUME Screens, ScreenInv', NEW c \in Client, Deliver(c)
    PROVE  Evolves(c)
<1> DEFINE v == Sync!View(server, puts[c])
<1>0. reads \in [Client -> Seq(ReadType)] /\ reads[c] \in Seq(ReadType) /\ Len(reads[c]) \in Nat
  BY ClientFacts DEF Screens, ScreenTypeOK
<1>1. /\ stack' = stack /\ popover' = popover /\ fault' = fault
      /\ reads'[c] = Answered(reads[c], v) /\ server' = server /\ puts' = puts
  BY <1>0 DEF Deliver, Answered, syncVars
<1>v. v = Sync!View(server', puts'[c]) /\ v \in Sync!DB
  BY <1>1, SeenNext
<1> HIDE DEF v
<1>2. /\ Len(reads'[c]) = Len(reads[c])
      /\ \A i \in 1..Len(reads[c]) : reads'[c][i] = [reads[c][i] EXCEPT !.snap = v]
  BY <1>0, <1>1, <1>v, QueueAnswered
<1>3. ASSUME NEW i \in 1..Len(reads[c])
      PROVE  i + 0 \in 1..Len(reads[c]) /\ Same(reads'[c][i], reads[c][i + 0], v)
  <2>1. reads[c][i] \in ReadType /\ i + 0 = i
    BY <1>0
  <2>2. PICK x : x = reads'[c][i]
    OBVIOUS
  <2>3. /\ x.kind = reads[c][i].kind /\ x.vc = reads[c][i].vc /\ x.row = reads[c][i].row
        /\ x.snap = v
    BY <1>2, <2>1, <2>2 DEF ReadType
  <2> QED
    BY <2>1, <2>2, <2>3 DEF Same
<1>4. Moved(c, 0)
  BY <1>2, <1>3, <1>v DEF Moved
<1> QED
  BY <1>1, <1>2, <1>4, TowerSame, TappedSame DEF Evolves, FaultMoved, PopoverMoved


\* A row is selected: the popover opens or a cast fails.
LEMMA SelectEvolves ==
    ASSUME RowsOrdered, Screens, NEW c \in Client, NEW r, Select(c, r)
    PROVE  Evolves(c)
<1> DEFINE n == Len(stack[c])
           list == stack[c][n].list
           row == RowAt(list, r)
<1>1. /\ stack[c] /= <<>> /\ r \in DOMAIN list /\ stack' = stack /\ reads' = reads
      /\ \/ popover' = [popover EXCEPT ![c] = [row |-> r, job |-> row.job]] /\ fault' = fault
         \/ /\ fault' = [fault EXCEPT ![c] = "cast"] /\ popover' = popover
            /\ \E f \in SelectFields(stack[c][n].screen) : row.data[f] = Null
  BY DEF Select, Active, Running, Visible, Level
<1>2. stack[c] \in Seq(VCType) /\ n \in Nat
      /\ popover \in [Client -> [row : Nat, job : Job \cup {Null}]]
      /\ fault \in [Client -> {"none", "cast", "index"}]
  BY ClientFacts DEF Screens, ScreenTypeOK
<1>3. n \in 1..n /\ stack[c][n] \in VCType
  BY <1>1, <1>2
<1>4. list \in Seq(Row) /\ r \in 1..Len(list)
  BY <1>1, <1>3 DEF VCType
<1>5. \E i \in 1..Len(list) : row = list[i]
  BY <1>4, RowAtFacts
<1> HIDE DEF row
<1>6. Moved(c, 0) /\ Tapped(c)
  <2>1. reads'[c] = reads[c]
    BY <1>1
  <2> QED
    BY <2>1, MovedSame, TappedSame
<1>7. CASE popover' = [popover EXCEPT ![c] = [row |-> r, job |-> row.job]] /\ fault' = fault
  <2>1. popover'[c].row = r
    BY <1>2, <1>7
  <2> QED
    BY <1>1, <1>4, <1>6, <1>7, <2>1, TowerSame DEF Evolves, FaultMoved, PopoverMoved
<1>8. CASE /\ fault' = [fault EXCEPT ![c] = "cast"] /\ popover' = popover
           /\ \E f \in SelectFields(stack[c][n].screen) : row.data[f] = Null
  <2>1. fault'[c] = "cast" /\ \E f \in Field : row.data[f] = Null
    BY <1>2, <1>8 DEF SelectFields
  <2>2. CastFails(c)
    BY <1>1, <1>3, <1>5, <2>1 DEF CastFails
  <2> QED
    BY <1>1, <1>6, <1>8, <2>1, <2>2, TowerSame DEF Evolves, FaultMoved, PopoverMoved
<1> QED
  BY <1>1, <1>7, <1>8

LEMMA DismissEvolves ==
    ASSUME Screens, NEW c \in Client, Dismiss(c)
    PROVE  Evolves(c)
<1>0. /\ popover \in [Client -> [row : Nat, job : Job \cup {Null}]]
      /\ reads \in [Client -> Seq(ReadType)] /\ reads[c] \in Seq(ReadType)
      /\ Uniform(reads[c]) /\ Len(reads[c]) \in Nat
  BY ClientFacts DEF Screens, ScreenTypeOK, QueueFits
<1>1. /\ stack' = stack /\ fault' = fault /\ popover'[c] = NoPopover
      /\ reads'[c] = Closed(reads[c])
  BY <1>0 DEF Dismiss, Close
<1>2. /\ Closed(reads[c]) \in Seq(ReadType) /\ Len(Closed(reads[c])) = Len(reads[c])
      /\ \A i \in 1..Len(reads[c]) : Closed(reads[c])[i] = [reads[c][i] EXCEPT !.over = FALSE]
  BY <1>0, QueueClosed
<1>3. \A i \in 1..Len(reads[c]) : reads[c][i] \in ReadType /\ i + 0 = i
  BY <1>0
<1>4. PICK q \in Seq(ReadType) : q = Closed(reads[c])
  BY <1>2
<1>5. ASSUME NEW i \in 1..Len(q)
      PROVE  /\ q[i].kind = reads[c][i + 0].kind /\ q[i].vc = reads[c][i + 0].vc
             /\ q[i].row = reads[c][i + 0].row /\ q[i].snap = reads[c][i + 0].snap
  <2>1. PICK x \in ReadType : x = reads[c][i + 0] /\ q[i] = [x EXCEPT !.over = FALSE]
    BY <1>2, <1>3, <1>4
  <2>2. PICK y : y = q[i]
    OBVIOUS
  <2>3. y.kind = x.kind /\ y.vc = x.vc /\ y.row = x.row /\ y.snap = x.snap
    BY <2>1, <2>2 DEF ReadType
  <2> QED
    BY <2>1, <2>2, <2>3
<1>6. Moved(c, 0)
  <2>1. reads'[c] = q /\ Len(q) + 0 = Len(reads[c])
    BY <1>0, <1>1, <1>2, <1>4
  <2> QED
    BY <1>5, <2>1, MovedRest
<1> QED
  BY <1>1, <1>2, <1>6, TowerSame, TappedSame DEF Evolves, FaultMoved, PopoverMoved

LEMMA KillEvolves ==
    ASSUME Screens, NEW c \in Client, Kill(c)
    PROVE  Evolves(c)
<1>1. /\ stack'[c] = <<>> /\ popover'[c] = NoPopover /\ reads'[c] = <<>> /\ fault'[c] = "none"
  BY DEF Screens, ScreenTypeOK, Kill
<1>2. Moved(c, 0)
  BY <1>1 DEF Moved
<1>3. TowerMoved(c)
  BY <1>1 DEF TowerMoved
<1>4. Tapped(c)
  <2>1. Len(reads[c]) \in Nat
    BY ClientFacts
  <2> QED
    BY <1>1, <2>1 DEF Tapped
<1> QED
  BY <1>1, <1>2, <1>3, <1>4 DEF Evolves, FaultMoved, PopoverMoved

\* A callback runs, perhaps into a fault, and leaves the screens alone.
LEMMA DoneEvolves ==
    ASSUME Screens, NEW c \in Client, reads[c] /= <<>>, Done(c), stack' = stack,
           popover' = popover, FaultMoved(c)
    PROVE  Evolves(c)
<1>0. reads \in [Client -> Seq(ReadType)]
  BY DEF Screens, ScreenTypeOK
<1>1. reads'[c] = Tail(reads[c])
  BY <1>0 DEF Done
<1>2. PICK q : q = Tail(reads[c])
  OBVIOUS
<1>3. Moved(c, 1)
  BY <1>1, <1>2, RestFacts, MovedRest
<1> QED
  BY <1>3, TowerSame DEF Evolves, PopoverMoved

LEMMA TrapEvolves ==
    ASSUME Screens, NEW c \in Client, reads[c] /= <<>>, NEW f, Trap(c, f),
           \/ f = "cast" /\ CastFails(c)
           \/ f = "index" /\ IndexFails(c)
    PROVE  Evolves(c)
<1>1. fault'[c] = f
  BY DEF Trap, Screens, ScreenTypeOK
<1>2. Done(c) /\ stack' = stack /\ popover' = popover
  BY DEF Trap
<1>3. FaultMoved(c)
  BY <1>1 DEF FaultMoved
<1> QED
  BY <1>2, <1>3, DoneEvolves

\* Rows join a list.
LEMMA LoadEvolves ==
    ASSUME Screens, NEW c \in Client, reads[c] /= <<>>, Head(reads[c]).snap /= NoSnap,
           Head(reads[c]).kind \in {"SetNewJobs", "SetMyPostedJobs", "SetApplicants"},
           NEW rows \in Seq(Row), Load(c, rows),
           Loaded(Head(reads[c]).kind, Head(reads[c]).snap, rows)
    PROVE  Evolves(c)
<1> DEFINE vc == Head(reads[c]).vc
           stk == stack[c]
           list == stk[vc].list \o rows
           stk2 == WithList(stk, vc, list)
<1>0. /\ stk \in Seq(VCType) /\ Len(stk) \in Nat
      /\ stack \in [Client -> Seq(VCType)] /\ reads \in [Client -> Seq(ReadType)]
      /\ fault \in [Client -> {"none", "cast", "index"}]
  BY ClientFacts DEF Screens, ScreenTypeOK
<1>1. vc \in 1..Len(stk)
  BY HeadFits DEF ReadFits, Fits
<1>2. stk[vc] \in VCType
  BY <1>0, <1>1
<1>3. stk[vc].list \in Seq(Row)
  BY <1>2 DEF VCType
<1>4. /\ stack'[c] = stk2 /\ popover' = popover /\ reads'[c] = Tail(reads[c])
      /\ \/ fault'[c] = fault[c]
         \/ fault'[c] = "cast" /\ ~Drawable(stk[vc].screen, list)
  BY <1>0 DEF Load, Done, WithList, Level
<1>5. list \in Seq(Row)
  BY <1>3, ConcatProperties
<1> HIDE DEF vc, stk
<1>6. /\ Len(stk2) = Len(stk)
      /\ stk2[vc].screen = stk[vc].screen /\ stk2[vc].list = list
      /\ \A m \in 1..Len(stk) : m /= vc => stk2[m] = stk[m]
  BY <1>0, <1>1, <1>5, TowerUpdate
<1> HIDE DEF stk2
<1>q. PICK q : q = Tail(reads[c])
  OBVIOUS
<1>7. Moved(c, 1)
  BY <1>4, <1>q, RestFacts, MovedRest
<1>8. LoadedLevel(c, vc)
  BY <1>4, <1>6, <1>7 DEF LoadedLevel, vc, stk
<1>9. TowerMoved(c)
  BY <1>4, <1>6, <1>8 DEF TowerMoved, stk
<1>10. ASSUME ~Drawable(stk[vc].screen, list)
       PROVE  CastFails(c)
  <2>1. PICK i \in DOMAIN list : \E f \in CellFields(stk[vc].screen) : list[i].data[f] = Null
    BY <1>10 DEF Drawable
  <2>2. \A s : CellFields(s) \subseteq Field
    BY PathFacts DEF CellFields
  <2>3. i \in 1..Len(list)
    <3> HIDE DEF list
    <3> QED
      BY <1>5
  <2> HIDE DEF list
  <2>4. PICK f \in Field : list[i].data[f] = Null
    BY <2>1, <2>2
  <2>5. /\ vc \in 1..Len(stack'[c]) /\ i \in 1..Len(stack'[c][vc].list)
        /\ stack'[c][vc].list[i].data[f] = Null
    BY <1>1, <1>4, <1>6, <2>3, <2>4
  <2> QED
    BY <2>5 DEF CastFails
<1>11. FaultMoved(c)
  BY <1>4, <1>10 DEF FaultMoved
<1> QED
  BY <1>4, <1>7, <1>9, <1>11 DEF Evolves, PopoverMoved


-----------------------------------------------------------------------------
(* The callbacks.                                                          *)

\* What is chosen from a list without repetitions has none.
LEMMA ChosenOnce ==
    ASSUME NEW T, NEW q \in Seq(T), NEW S, \A i, k \in DOMAIN q : q[i] = q[k] => i = k
    PROVE  \A k, l \in DOMAIN Chosen(q, S) : Chosen(q, S)[k] = Chosen(q, S)[l] => k = l
  BY ChosenPick

\* The rows of jobs that are enumerated without repetitions.
RowsAt(db, at, n) == [i \in 1..n |-> JobRow(db, at[i])]

LEMMA RowsOfJobs ==
    ASSUME SharedTypeOK, NEW db \in Sync!DB, TreeTrue(db, posted, request),
           NEW n \in Nat, NEW at, \A i \in 1..n : at[i] \in Keys(db),
           \A i, k \in 1..n : at[i] = at[k] => i = k,
           NEW rows, rows = RowsAt(db, at, n), NEW kind
    PROVE  rows \in Seq(Row) /\ Loaded(kind, db, rows)
<1>1. \A i \in 1..n : at[i] \in Job
  BY DEF Keys
<1>2. ASSUME NEW i \in 1..n
      PROVE  /\ rows[i] \in Row /\ rows[i].job = at[i] /\ rows[i].data = Fields(db, at[i])
  <2>1. rows[i] = JobRow(db, at[i]) /\ at[i] \in Job
    BY <1>1 DEF RowsAt
  <2> QED
    BY <2>1, JobRowFits
<1>3. rows \in [1..n -> Row]
  BY <1>2 DEF RowsAt
<1>4. rows \in Seq(Row) /\ Len(rows) = n
  BY <1>3
<1> QED
  BY <1>2, <1>4 DEF Loaded

LEMMA NewJobsEvolves ==
    ASSUME SharedTypeOK, Screens, NEW c \in Client, SetNewJobs(c)
    PROVE  Evolves(c)
<1> DEFINE db == Head(reads[c]).snap
           ord == Enum(Keys(db))
           rows == [i \in DOMAIN ord |-> JobRow(db, ord[Len(ord) + 1 - i])]
<1>1. Load(c, rows) /\ Runs(c, "SetNewJobs")
  BY DEF SetNewJobs
<1>2. /\ reads[c] /= <<>> /\ db \in Sync!DB /\ TreeTrue(db, posted, request)
      /\ Head(reads[c]).snap /= NoSnap
  BY <1>1, RunsFacts DEF Runs
<1>3. IsEnumeration(ord, Keys(db))
  BY EnumAssumption DEF Keys
<1> HIDE DEF db, ord
<1>n. PICK n \in Nat : n = Len(ord) /\ DOMAIN ord = 1..n
  BY <1>3, EnumerationCount
<1>4. \A i \in 1..n : ord[i] \in Keys(db)
  BY <1>3, <1>n, EnumerationCount
<1> DEFINE rev == [i \in 1..n |-> ord[n + 1 - i]]
<1>5. \A i \in 1..n : rev[i] = ord[n + 1 - i] /\ n + 1 - i \in 1..n
  OBVIOUS
<1>6. ASSUME NEW i \in 1..n, NEW k \in 1..n, rev[i] = rev[k]
      PROVE  i = k
  <2>1. n + 1 - i = n + 1 - k
    BY <1>3, <1>5, <1>6, <1>n DEF IsEnumeration
  <2> QED
    BY <2>1
<1>7. rows = RowsAt(db, rev, n) /\ \A i \in 1..n : rev[i] \in Keys(db)
  BY <1>4, <1>5, <1>n DEF RowsAt
<1> HIDE DEF rev, rows
<1>8. rows \in Seq(Row) /\ \A kind : Loaded(kind, db, rows)
  <2>1. \A i, k \in 1..n : rev[i] = rev[k] => i = k
    BY <1>6
  <2> QED
    BY <1>2, <1>7, <2>1, RowsOfJobs
<1> QED
  BY <1>1, <1>2, <1>8, LoadEvolves DEF db, Runs

LEMMA PosterTorn ==
    ASSUME NEW c \in Client, NEW kind, Runs(c, kind),
           \E j \in Keys(Head(reads[c]).snap) :
              Head(reads[c]).snap[<<j, "jobPoster">>] = Null
           \/ Head(reads[c]).snap[<<j, "title">>] = Null
    PROVE  CastFails(c)
  BY PathFacts DEF CastFails, Torn, Complete, Runs

LEMMA MyJobsEvolves ==
    ASSUME SharedTypeOK, Screens, NEW c \in Client, SetMyPostedJobs(c)
    PROVE  Evolves(c)
<1> DEFINE db == Head(reads[c]).snap
           all == Enum(Keys(db))
           mine == {j \in Job : db[<<j, "jobPoster">>] = c}
           ord == Chosen(all, mine)
           rows == [i \in DOMAIN ord |-> JobRow(db, ord[i])]
<1>1. /\ Runs(c, "SetMyPostedJobs")
      /\ \/ Trap(c, "cast") /\ \E j \in Keys(db) : db[<<j, "jobPoster">>] = Null
         \/ Load(c, rows)
  BY DEF SetMyPostedJobs
<1>2. /\ reads[c] /= <<>> /\ db \in Sync!DB /\ TreeTrue(db, posted, request)
      /\ Head(reads[c]).snap /= NoSnap
  BY <1>1, RunsFacts DEF Runs
<1>3. IsEnumeration(all, Keys(db))
  BY EnumAssumption DEF Keys
<1>10. CASE Trap(c, "cast") /\ \E j \in Keys(db) : db[<<j, "jobPoster">>] = Null
  <2>1. CastFails(c)
    BY <1>1, <1>10, PosterTorn
  <2> QED
    BY <1>2, <1>10, <2>1, TrapEvolves
<1> HIDE DEF db, all, mine
<1>4. all \in Seq(Keys(db)) /\ \A i, k \in DOMAIN all : all[i] = all[k] => i = k
  BY <1>3 DEF IsEnumeration
<1>5. /\ ord \in Seq(mine \cap Keys(db))
      /\ \A i \in DOMAIN ord : ord[i] \in mine \cap Keys(db)
      /\ \A i, k \in DOMAIN ord : ord[i] = ord[k] => i = k
  BY <1>4, ChosenFacts, ChosenOnce
<1> HIDE DEF ord
<1>n. PICK n \in Nat : n = Len(ord) /\ DOMAIN ord = 1..n
  BY <1>5
<1>7. rows = RowsAt(db, ord, n)
  BY <1>n DEF RowsAt
<1> HIDE DEF rows
<1>8. rows \in Seq(Row) /\ \A kind : Loaded(kind, db, rows)
  BY <1>2, <1>5, <1>7, <1>n, RowsOfJobs
<1>11. CASE Load(c, rows)
  BY <1>1, <1>2, <1>8, <1>11, LoadEvolves DEF db, Runs
<1> QED
  BY <1>1, <1>10, <1>11

LEMMA ApplicantsEvolves ==
    ASSUME SharedTypeOK, Screens, NEW c \in Client, SetApplicants(c)
    PROVE  Evolves(c)
<1> DEFINE db == Head(reads[c]).snap
           all == {q \in Job \X App : db[q] /= Null}
           ord == Chosen(Enum(all), {q \in Job \X App : db[<<q[1], "jobPoster">>] = c})
           row(q) == [JobRow(db, q[1]) EXCEPT !.email = db[q]]
           rows == [i \in DOMAIN ord |-> row(ord[i])]
<1>1. /\ Runs(c, "SetApplicants")
      /\ \/ Trap(c, "cast") /\ \E j \in Keys(db) : db[<<j, "jobPoster">>] = Null
         \/ Load(c, rows)
  BY DEF SetApplicants
<1>2. /\ reads[c] /= <<>> /\ db \in Sync!DB /\ TreeTrue(db, posted, request)
      /\ Head(reads[c]).snap /= NoSnap /\ Head(reads[c]).kind = "SetApplicants"
  BY <1>1, RunsFacts DEF Runs
<1>10. CASE Trap(c, "cast") /\ \E j \in Keys(db) : db[<<j, "jobPoster">>] = Null
  <2>1. CastFails(c)
    BY <1>1, <1>10, PosterTorn
  <2> QED
    BY <1>2, <1>10, <2>1, TrapEvolves
<1>3. ord \in Seq(all)
  <2>1. Enum(all) \in Seq(all)
    <3>1. all \in SUBSET (Job \X App)
      OBVIOUS
    <3> HIDE DEF all
    <3> QED
      BY <3>1, EnumAssumption DEF IsEnumeration
  <2>2. ord \in Seq({q \in Job \X App : db[<<q[1], "jobPoster">>] = c} \cap all)
    BY <2>1, ChosenFacts
  <2> HIDE DEF ord, all
  <2> QED
    BY <2>2, SeqMono
<1> HIDE DEF db, ord
<1>n. PICK n \in Nat : n = Len(ord) /\ DOMAIN ord = 1..n
  BY <1>3
<1>4. \A i \in 1..n : ord[i] \in all
  <2> HIDE DEF all
  <2> QED
    BY <1>3, <1>n
<1>5. ASSUME NEW i \in 1..n
      PROVE  /\ row(ord[i]) \in Row /\ row(ord[i]).job \in Keys(db)
             /\ row(ord[i]).data = Fields(db, row(ord[i]).job)
  <2>1. PICK j \in Job, a \in App : ord[i] = <<j, a>> /\ db[<<j, a>>] /= Null
    BY <1>4
  <2>2. db[<<j, a>>] \in Client /\ j \in Keys(db)
    BY <1>2, <2>1, TrueTypes DEF Keys, Leaf
  <2>3. /\ JobRow(db, j) \in Row /\ JobRow(db, j).job = j
        /\ JobRow(db, j).data = Fields(db, j)
    BY <1>2, JobRowFits
  <2>4. PICK x : x = JobRow(db, j)
    OBVIOUS
  <2>5. row(ord[i]) = [x EXCEPT !.email = db[<<j, a>>]]
    BY <2>1, <2>4
  <2> HIDE DEF row
  <2> QED
    BY <2>2, <2>3, <2>4, <2>5 DEF Row
<1>6. rows = [i \in 1..n |-> row(ord[i])]
  BY <1>n
<1> HIDE DEF rows, row
<1>7. rows \in [1..n -> Row]
  BY <1>5, <1>6
<1>8. rows \in Seq(Row) /\ Len(rows) = n
  BY <1>7
<1>9. Loaded("SetApplicants", db, rows)
  BY <1>5, <1>6, <1>8 DEF Loaded
<1>11. CASE Load(c, rows)
  BY <1>1, <1>2, <1>8, <1>9, <1>11, LoadEvolves DEF db, Runs
<1> QED
  BY <1>1, <1>10, <1>11


\* The rest of the queue after a callback that may close its popover.
LEMMA ClosedEvolves ==
    ASSUME Screens, NEW c \in Client, reads[c] /= <<>>, CloseOwn(c)
    PROVE  popover'[c] \in {popover[c], NoPopover}
  BY DEF CloseOwn, Close, Screens, ScreenTypeOK

LEMMA NoKeys ==
    ASSUME NEW db
    PROVE  /\ Enum(Keys(db)) = <<>> => Keys(db) = {}
           /\ \A i \in DOMAIN Enum(Keys(db)) : Enum(Keys(db))[i] \in Keys(db)
<1>1. IsEnumeration(Enum(Keys(db)), Keys(db))
  BY EnumAssumption DEF Keys
<1>2. PICK ord : ord = Enum(Keys(db))
  OBVIOUS
<1>3. \A i \in DOMAIN ord : ord[i] \in Keys(db)
  BY <1>1, <1>2, EnumerationCount
<1>4. ord = <<>> => Keys(db) = {}
  BY <1>1, <1>2 DEF IsEnumeration
<1> QED
  BY <1>2, <1>3, <1>4

LEMMA ApplyEvolves ==
    ASSUME Screens, NEW c \in Client, ApplyToJob(c)
    PROVE  Evolves(c)
<1> DEFINE r == Head(reads[c])
<1>0. /\ Runs(c, "ApplyToJob") /\ stack' = stack /\ reads[c] /= <<>>
      /\ r.snap /= NoSnap /\ r.kind = "ApplyToJob"
      /\ reads \in [Client -> Seq(ReadType)]
  BY DEF ApplyToJob, Runs, Screens, ScreenTypeOK
<1>1. \/ Done(c) /\ popover' = popover /\ fault' = fault
      \/ Trap(c, "index") /\ r.row \notin DOMAIN Enum(Keys(r.snap))
      \/ /\ CloseOwn(c) /\ fault' = fault
         /\ reads' = [reads EXCEPT ![c] = IF r.over THEN Closed(Tail(reads[c]))
                                          ELSE Tail(reads[c])]
  BY DEF ApplyToJob
<1>2. CASE Done(c) /\ popover' = popover /\ fault' = fault
  BY <1>0, <1>2, DoneEvolves DEF FaultMoved
<1>3. CASE Trap(c, "index") /\ r.row \notin DOMAIN Enum(Keys(r.snap))
  <2>1. IndexFails(c)
    BY <1>0, <1>3 DEF IndexFails
  <2> QED
    BY <1>0, <1>3, <2>1, TrapEvolves
<1>4. CASE /\ CloseOwn(c) /\ fault' = fault
           /\ reads' = [reads EXCEPT ![c] = IF r.over THEN Closed(Tail(reads[c]))
                                            ELSE Tail(reads[c])]
  <2>1. PICK q : /\ q = Tail(reads[c]) \/ q = Closed(Tail(reads[c]))
                 /\ reads'[c] = q
    BY <1>0, <1>4
  <2>2. Moved(c, 1)
    BY <1>0, <2>1, RestFacts, MovedRest
  <2> QED
    BY <1>0, <1>4, <2>2, TowerSame, ClosedEvolves DEF Evolves, FaultMoved, PopoverMoved
<1> QED
  BY <1>1, <1>2, <1>3, <1>4

LEMMA RemoveEvolves ==
    ASSUME Screens, ScreenInv', NEW c \in Client, RemoveJob(c)
    PROVE  Evolves(c)
<1> DEFINE r == Head(reads[c])
           v == Sync!View(server, puts'[c])
           p == <<Read("SetMyPostedJobs", r.vc)>>
<1>0. /\ Runs(c, "RemoveJob") /\ reads[c] /= <<>> /\ r.snap /= NoSnap /\ r.kind = "RemoveJob"
      /\ reads \in [Client -> Seq(ReadType)] /\ stack \in [Client -> Seq(VCType)]
  BY DEF RemoveJob, Runs, Screens, ScreenTypeOK
<1>1. \/ Trap(c, "cast") /\ Enum(Keys(r.snap)) = <<>>
      \/ Done(c) /\ stack' = stack /\ popover' = popover /\ fault' = fault
      \/ /\ server' = server /\ CloseOwn(c) /\ fault' = fault
         /\ stack' = [stack EXCEPT ![c][r.vc].list = <<>>]
         /\ reads' = [reads EXCEPT ![c] =
               Observe(IF r.over THEN Closed(Tail(reads[c])) ELSE Tail(reads[c]), p, v)]
  BY DEF RemoveJob, Sync!Issue
<1>2. CASE Trap(c, "cast") /\ Enum(Keys(r.snap)) = <<>>
  <2>1. CastFails(c)
    BY <1>0, <1>2, NoKeys DEF CastFails, Later
  <2> QED
    BY <1>0, <1>2, <2>1, TrapEvolves
<1>3. CASE Done(c) /\ stack' = stack /\ popover' = popover /\ fault' = fault
  BY <1>0, <1>3, DoneEvolves DEF FaultMoved
<1>4. CASE /\ server' = server /\ CloseOwn(c) /\ fault' = fault
           /\ stack' = [stack EXCEPT ![c][r.vc].list = <<>>]
           /\ reads' = [reads EXCEPT ![c] =
                 Observe(IF r.over THEN Closed(Tail(reads[c])) ELSE Tail(reads[c]), p, v)]
  <2>1. PICK q : /\ q = Tail(reads[c]) \/ q = Closed(Tail(reads[c]))
                 /\ reads'[c] = Observe(q, p, v)
    BY <1>0, <1>4
  <2>2. stack[c] \in Seq(VCType) /\ Len(stack[c]) \in Nat /\ Len(reads[c]) \in Nat
    BY ClientFacts
  <2>3. PICK n \in 1..Len(stack[c]) : n = r.vc /\ stack[c][n].screen = "PostedJobsVC" /\ n \in Nat
    <3>1. Fits(stack[c], popover[c], declined, r) /\ r.kind = "RemoveJob"
      BY <1>0, RunsFacts
    <3> QED
      BY <2>2, <3>1 DEF Fits, ScreenOf
  <2>4. PICK e \in Seq(Row) : e = <<>>
    <3>1. <<>> \in Seq(Row)
      OBVIOUS
    <3> QED
      BY <3>1
  <2>5. stack'[c] = WithList(stack[c], n, e)
    BY <1>0, <1>4, <2>3, <2>4 DEF WithList
  <2>6. /\ Len(stack'[c]) = Len(stack[c])
        /\ stack'[c][n].screen = stack[c][n].screen /\ stack'[c][n].list = e
        /\ \A m \in 1..Len(stack[c]) : m /= n => stack'[c][m] = stack[c][m]
    <3>1. \A x \in Seq(Row) :
             /\ Len(WithList(stack[c], n, x)) = Len(stack[c])
             /\ WithList(stack[c], n, x)[n].screen = stack[c][n].screen
             /\ WithList(stack[c], n, x)[n].list = x
             /\ \A m \in 1..Len(stack[c]) : m /= n => WithList(stack[c], n, x)[m] = stack[c][m]
      BY <2>2, TowerUpdate
    <3> QED
      BY <2>5, <3>1
  <2>7. TowerMoved(c)
    BY <2>3, <2>4, <2>6 DEF TowerMoved
  <2>8. v = Sync!View(server', puts'[c]) /\ v \in Sync!DB
    BY <1>4, SeenNext
  <2>9. PICK kind \in Kind : kind = "SetMyPostedJobs"
    BY DEF Kind
  <2>10. PICK x \in ReadType : /\ x = Read(kind, n) /\ x.kind = kind
                               /\ x.vc = n /\ x.snap = NoSnap
    <3>1. n \in Nat
      BY <2>3
    <3>2. kind \in Kind
      OBVIOUS
    <3> QED
      BY ONLY <3>1, <3>2, NewRead
  <2>11. p \in Seq(ReadType) /\ Len(p) = 1 /\ p[1] = x
    BY <2>3, <2>9, <2>10, OneRead
  <2> HIDE DEF p, v
  <2>12. /\ q \in Seq(ReadType) /\ Len(q) \in Nat /\ Len(q) + 1 = Len(reads[c])
    BY <1>0, <2>1, RestFacts
  <2>13. Len(reads'[c]) <= Len(reads[c])
    <3>1. Len(Observe(q, p, v)) = Len(q) + Len(p)
      BY <2>8, <2>11, <2>12, ObserveLen
    <3> QED
      BY <2>1, <2>2, <2>11, <2>12, <3>1
  <2>14. Asked(c, x.kind, x.vc, x.row)
    BY <1>0, <2>3, <2>4, <2>6, <2>9, <2>10, <2>13 DEF Asked
  <2>15. \A i \in 1..Len(p) : Asked(c, p[i].kind, p[i].vc, p[i].row) /\ p[i].snap = NoSnap
    BY <2>10, <2>11, <2>14
  <2>16. Moved(c, 1)
    <3>1. /\ q \in Seq(ReadType) /\ Len(q) + 1 = Len(reads[c])
          /\ \A i \in 1..Len(q) : /\ q[i].kind = reads[c][i + 1].kind
                                  /\ q[i].vc = reads[c][i + 1].vc
                                  /\ q[i].row = reads[c][i + 1].row
                                  /\ q[i].snap = reads[c][i + 1].snap
      BY <1>0, <2>1, RestFacts
    <3> QED
      BY <2>1, <2>8, <2>11, <2>15, <3>1, MovedObserve
  <2> QED
    BY <1>0, <1>4, <2>7, <2>16, ClosedEvolves DEF Evolves, FaultMoved, PopoverMoved
<1> QED
  BY <1>1, <1>2, <1>3, <1>4


LEMMA DeclineEvolves ==
    ASSUME RowsOrdered, Screens, ScreenInv', NEW c \in Client, DeclineApplicant(c)
    PROVE  Evolves(c)
<1> DEFINE r    == Head(reads[c])
           db   == r.snap
           row  == RowAt(stack[c][r.vc].list, r.row)
           jobs == {j \in Job : Applicants(db, j) /= {}}
           hits == {q \in Job \X App : /\ db[q] = row.email
                                       /\ db[<<q[1], "title">>] = row.data["title"]}
           ord  == Enum(hits)
           x    == [Read("RemoveApplication", r.vc) EXCEPT !.email = row.email,
                                                           !.title = row.data["title"]]
           p    == [i \in DOMAIN ord |-> x]
           v    == Sync!View(server, puts[c])
<1>0. /\ Runs(c, "DeclineApplicant") /\ stack' = stack /\ popover' = popover
      /\ reads[c] /= <<>> /\ r.snap /= NoSnap /\ r.kind = "DeclineApplicant"
      /\ server' = server /\ puts' = puts /\ reads \in [Client -> Seq(ReadType)]
  BY DEF DeclineApplicant, Runs, syncVars, Screens, ScreenTypeOK
<1>1. \/ Done(c) /\ fault' = fault
      \/ Trap(c, "cast") /\ \E j \in jobs : db[<<j, "title">>] = Null
      \/ reads' = [reads EXCEPT ![c] = Observe(Tail(reads[c]), p, v)] /\ fault' = fault
  BY DEF DeclineApplicant
<1>2. CASE Done(c) /\ fault' = fault
  BY <1>0, <1>2, DoneEvolves DEF FaultMoved
<1>3. CASE Trap(c, "cast") /\ \E j \in jobs : db[<<j, "title">>] = Null
  <2>1. \A j \in jobs : j \in Keys(db)
    BY DEF Applicants, Keys, Leaf
  <2>2. CastFails(c)
    BY <1>0, <1>3, <2>1, PosterTorn
  <2> QED
    BY <1>0, <1>3, <2>2, TrapEvolves
<1>4. CASE reads' = [reads EXCEPT ![c] = Observe(Tail(reads[c]), p, v)] /\ fault' = fault
  <2>1. row.email \in Client /\ row.data["title"] \in Title \cup {Null}
    BY <1>0, DeclinedRow
  <2>2. r.vc \in Nat
    <3>1. r \in ReadType
      BY <1>0, RunsFacts
    <3> QED
      BY <3>1 DEF ReadType
  <2>3. v = Sync!View(server', puts'[c]) /\ v \in Sync!DB
    BY <1>0, SeenNext
  <2>4. PICK n \in Nat : DOMAIN ord = 1..n
    <3>1. hits \in SUBSET (Job \X App)
      OBVIOUS
    <3> HIDE DEF hits
    <3>2. ord \in Seq(Job \X App)
      BY <3>1, EnumFacts
    <3> QED
      BY <3>2
  <2>5. x \in ReadType /\ x.kind = "RemoveApplication" /\ x.snap = NoSnap
    <3> HIDE DEF row, r
    <3> QED
      BY <2>1, <2>2 DEF Read, ReadType, Kind
  <2>6. p = [i \in 1..n |-> x]
    BY <2>4
  <2>a. Asked(c, x.kind, x.vc, x.row)
    <3> HIDE DEF x
    <3> QED
      BY <1>0, <2>5 DEF Asked
  <2> HIDE DEF r, row, x, p, v
  <2>7. p \in Seq(ReadType) /\ Len(p) = n /\ \A i \in 1..n : p[i] = x
    <3>1. p \in [1..n -> ReadType]
      BY <2>5, <2>6
    <3> QED
      BY <2>6, <3>1
  <2>8. \A i \in 1..Len(p) : Asked(c, p[i].kind, p[i].vc, p[i].row) /\ p[i].snap = NoSnap
    BY <2>5, <2>7, <2>a
  <2>9. PICK q : q = Tail(reads[c]) /\ reads'[c] = Observe(q, p, v)
    BY <1>0, <1>4
  <2>10. /\ q \in Seq(ReadType) /\ Len(q) + 1 = Len(reads[c])
         /\ \A i \in 1..Len(q) : /\ q[i].kind = reads[c][i + 1].kind
                                 /\ q[i].vc = reads[c][i + 1].vc
                                 /\ q[i].row = reads[c][i + 1].row
                                 /\ q[i].snap = reads[c][i + 1].snap
    BY <1>0, <2>9, RestFacts
  <2>11. Moved(c, 1)
    BY <2>3, <2>7, <2>8, <2>9, <2>10, MovedObserve
  <2> QED
    BY <1>0, <1>4, <2>11, TowerSame DEF Evolves, FaultMoved, PopoverMoved
<1> QED
  BY <1>1, <1>2, <1>3, <1>4

LEMMA RemovalEvolves ==
    ASSUME Screens, ScreenInv', NEW c \in Client, RemoveApplication(c)
    PROVE  Evolves(c)
<1> DEFINE r == Head(reads[c])
           x == [Read("RemoveApplication2", r.vc) EXCEPT
                    !.email = r.email, !.title = r.title, !.keys = Keys(r.snap)]
           v == Sync!View(server, puts[c])
<1>0. /\ Runs(c, "RemoveApplication") /\ reads[c] /= <<>>
      /\ stack' = stack /\ popover' = popover /\ fault' = fault
      /\ reads' = [reads EXCEPT ![c] = Observe(Tail(reads[c]), <<x>>, v)]
      /\ server' = server /\ puts' = puts /\ reads \in [Client -> Seq(ReadType)]
  BY DEF RemoveApplication, Runs, syncVars, Screens, ScreenTypeOK
<1>1. r \in ReadType /\ r.kind = "RemoveApplication"
  BY <1>0, RunsFacts
<1>2. v = Sync!View(server', puts'[c]) /\ v \in Sync!DB
  BY <1>0, SeenNext
<1> HIDE DEF r, v
<1>3. r.vc \in Nat /\ r.email \in Client \cup {Null} /\ r.title \in Title \cup {Null}
      /\ Keys(r.snap) \in SUBSET Job
  BY <1>1 DEF ReadType, Keys
<1>4. x \in ReadType /\ x.kind = "RemoveApplication2" /\ x.snap = NoSnap
  BY <1>3 DEF Read, ReadType, Kind
<1> HIDE DEF x
<1>5. Asked(c, x.kind, x.vc, x.row)
  BY <1>0, <1>1, <1>4 DEF Asked, r
<1>6. PICK p \in Seq(ReadType) : p = <<x>> /\ Len(p) = 1 /\ p[1] = x
  BY <1>4, OneRead
<1>7. \A i \in 1..Len(p) : Asked(c, p[i].kind, p[i].vc, p[i].row) /\ p[i].snap = NoSnap
  BY <1>4, <1>5, <1>6
<1>9. PICK q : q = Tail(reads[c]) /\ reads'[c] = Observe(q, p, v)
  BY <1>0, <1>6
<1>10. /\ q \in Seq(ReadType) /\ Len(q) + 1 = Len(reads[c])
       /\ \A i \in 1..Len(q) : /\ q[i].kind = reads[c][i + 1].kind
                               /\ q[i].vc = reads[c][i + 1].vc
                               /\ q[i].row = reads[c][i + 1].row
                               /\ q[i].snap = reads[c][i + 1].snap
  BY <1>0, <1>9, RestFacts
<1>11. Moved(c, 1)
  BY <1>2, <1>7, <1>9, <1>10, MovedObserve
<1> QED
  BY <1>0, <1>11, TowerSame DEF Evolves, FaultMoved, PopoverMoved

LEMMA Removal2Evolves ==
    ASSUME Screens, NEW c \in Client, RemoveApplication2(c)
    PROVE  Evolves(c)
<1> DEFINE r == Head(reads[c])
           db == r.snap
           jobs == Enum(Keys(db))
           bad == {i \in DOMAIN jobs : /\ \E a \in App : db[<<jobs[i], a>>] = r.email
                                       /\ db[<<jobs[i], "title">>] = Null}
<1>1. /\ reads[c] /= <<>> /\ stack' = stack /\ popover' = popover /\ Done(c)
      /\ Runs(c, "RemoveApplication2") /\ r.kind = "RemoveApplication2" /\ db /= NoSnap
      /\ fault \in [Client -> {"none", "cast", "index"}]
  BY DEF RemoveApplication2, Runs, Screens, ScreenTypeOK
<1>2. \/ fault'[c] = fault[c]
      \/ fault'[c] = "cast" /\ (jobs = <<>> \/ bad /= {})
  BY <1>1 DEF RemoveApplication2
<1>3. CASE jobs = <<>>
  BY <1>1, <1>2, <1>3, NoKeys, DoneEvolves DEF FaultMoved, CastFails, Later
<1>4. CASE bad /= {}
  <2>1. PICK i \in DOMAIN jobs : db[<<jobs[i], "title">>] = Null
    BY <1>4
  <2>2. jobs[i] \in Keys(db)
    BY NoKeys
  <2>3. CastFails(c)
    BY <1>1, <2>1, <2>2, PosterTorn
  <2> QED
    BY <1>1, <1>2, <2>3, DoneEvolves DEF FaultMoved
<1>5. CASE fault'[c] = fault[c]
  BY <1>1, <1>5, DoneEvolves DEF FaultMoved
<1> QED
  BY <1>2, <1>3, <1>4, <1>5


-----------------------------------------------------------------------------
(* Every step.                                                             *)

\* A step of client d changes the screens of d only.
OthersStill(d) ==
    \A c \in Client \ {d} : /\ stack'[c] = stack[c] /\ popover'[c] = popover[c]
                            /\ reads'[c] = reads[c] /\ fault'[c] = fault[c]

LEMMA OwnScreens ==
    ASSUME Screens, NEW d \in Client, User(d) \/ Deliver(d) \/ Callback(d) \/ Kill(d)
    PROVE  OthersStill(d)
<1>0. ScreenTypeOK
  BY DEF Screens
<1> USE <1>0
<1>1. ASSUME NEW s, Push(d, s), popover' = popover, fault' = fault
      PROVE  OthersStill(d)
  BY <1>1 DEF Push, OthersStill, ScreenTypeOK
<1>2. ASSUME NEW r, Tap(d, r)
      PROVE  OthersStill(d)
  BY <1>2 DEF Tap, OthersStill, ScreenTypeOK
<1>3. CASE User(d)
  <2>1. CASE Launch(d)
    BY <1>1, <2>1 DEF Launch
  <2>2. CASE \E s \in {"CreateJobVC", "PostedJobsVC", "ShowApplicantsVC"} : Present(d, s)
    BY <1>1, <2>2 DEF Present
  <2>3. CASE \E j \in Job, t \in Title : CreateJob(d, j, t)
    BY <2>3 DEF CreateJob, appVars, OthersStill
  <2>4. CASE \E r \in DOMAIN Visible(d).list : Select(d, r)
    BY <2>4 DEF Select, OthersStill, ScreenTypeOK
  <2>5. CASE \E r \in DOMAIN Visible(d).list : TapDecline(d, r)
    BY <1>2, <2>5 DEF TapDecline
  <2>6. CASE TapApply(d) \/ TapRemove(d)
    BY <1>2, <2>6 DEF TapApply, TapRemove
  <2>7. CASE Dismiss(d)
    BY <2>7 DEF Dismiss, Close, OthersStill, ScreenTypeOK
  <2> QED
    BY <1>3, <2>1, <2>2, <2>3, <2>4, <2>5, <2>6, <2>7 DEF User
<1>4. CASE Deliver(d)
  BY <1>4 DEF Deliver, OthersStill, ScreenTypeOK
<1>5. CASE Kill(d)
  BY <1>5 DEF Kill, OthersStill, ScreenTypeOK
<1>6. ASSUME NEW rows, Load(d, rows)
      PROVE  OthersStill(d)
  BY <1>6 DEF Load, Done, OthersStill, ScreenTypeOK
<1>7. ASSUME NEW f, Trap(d, f)
      PROVE  OthersStill(d)
  BY <1>7 DEF Trap, Done, OthersStill, ScreenTypeOK
<1>8. CASE Callback(d)
  <2>1. CASE SetNewJobs(d)
    BY <1>6, <2>1 DEF SetNewJobs
  <2>2. CASE SetMyPostedJobs(d)
    BY <1>6, <1>7, <2>2 DEF SetMyPostedJobs
  <2>3. CASE SetApplicants(d)
    BY <1>6, <1>7, <2>3 DEF SetApplicants
  <2>4. CASE ApplyToJob(d)
    <3>1. \/ Trap(d, "index")
          \/ /\ stack' = stack /\ fault' = fault /\ (popover' = popover \/ Close(d))
             /\ \E q : reads' = [reads EXCEPT ![d] = q]
      BY <2>4 DEF ApplyToJob, Done, CloseOwn
    <3> QED
      BY <1>7, <3>1 DEF Close, OthersStill, ScreenTypeOK
  <2>5. CASE RemoveJob(d)
    <3>1. \/ Trap(d, "cast")
          \/ /\ fault' = fault /\ (popover' = popover \/ Close(d))
             /\ \E q : reads' = [reads EXCEPT ![d] = q]
             /\ stack' = stack \/ \E s : stack' = [stack EXCEPT ![d] = s]
      BY <2>5 DEF RemoveJob, Done, CloseOwn
    <3> QED
      BY <1>7, <3>1 DEF Close, OthersStill, ScreenTypeOK
  <2>6. CASE DeclineApplicant(d)
    <3>1. \/ Trap(d, "cast")
          \/ /\ stack' = stack /\ fault' = fault /\ popover' = popover
             /\ \E q : reads' = [reads EXCEPT ![d] = q]
      BY <2>6 DEF DeclineApplicant, Done
    <3> QED
      BY <1>7, <3>1 DEF OthersStill, ScreenTypeOK
  <2>7. CASE RemoveApplication(d)
    BY <2>7 DEF RemoveApplication, OthersStill, ScreenTypeOK
  <2>8. CASE RemoveApplication2(d)
    BY <2>8 DEF RemoveApplication2, Done, OthersStill, ScreenTypeOK
  <2> QED
    BY <1>8, <2>1, <2>2, <2>3, <2>4, <2>5, <2>6, <2>7, <2>8 DEF Callback
<1> QED
  BY <1>3, <1>4, <1>5, <1>8

\* Every step, seen by client c.
LEMMA Evolution ==
    ASSUME RowsOrdered, ScreenInv, ScreenInv', [Next]_vars, NEW c \in Client
    PROVE  Evolves(c)
<1>0. SharedTypeOK /\ Screens
  BY DEF ScreenInv, Inv, BoardInv
<1>1. CASE UNCHANGED appVars
  BY <1>0, <1>1, ClientStill DEF appVars
<1>2. ASSUME NEW d \in Client, d /= c, User(d) \/ Deliver(d) \/ Callback(d) \/ Kill(d)
      PROVE  Evolves(c)
  BY <1>0, <1>2, OwnScreens, ClientStill DEF OthersStill
<1>3. CASE User(c)
  <2>1. CASE Launch(c)
    <3>1. /\ stack[c] = <<>> /\ popover' = popover /\ fault' = fault
          /\ server' = server /\ puts' = puts
      BY <2>1 DEF Launch, Running, syncVars
    <3>2. CASE c \in Poster
      <4>1. PICK s \in Screen : s = "CreateJobVC"
        BY DEF Screen
      <4>2. Push(c, s) /\ c \notin Searcher
        BY <2>1, <3>2, <4>1, ClientAssumption DEF Launch
      <4> QED
        BY <1>0, <3>1, <4>1, <4>2, PushEvolves
    <3>3. CASE c \notin Poster
      <4>1. PICK s \in Screen : s = "ExploreVC"
        BY DEF Screen
      <4>2. Push(c, s) /\ c \in Searcher
        BY <2>1, <3>3, <4>1 DEF Launch, Client
      <4> QED
        BY <1>0, <3>1, <4>1, <4>2, PushEvolves
    <3> QED
      BY <3>2, <3>3
  <2>2. ASSUME NEW s \in {"CreateJobVC", "PostedJobsVC", "ShowApplicantsVC"}, Present(c, s)
        PROVE  Evolves(c)
    <3>1. /\ popover' = popover /\ fault' = fault /\ server' = server /\ puts' = puts
          /\ Push(c, s) /\ Len(reads[c]) < MaxReads /\ c \notin Searcher /\ s \in Screen
      BY <2>2, ClientAssumption DEF Present, syncVars, Screen
    <3> QED
      BY <1>0, <2>2, <3>1, PushEvolves
  <2>3. CASE \E j \in Job, t \in Title : CreateJob(c, j, t)
    BY <1>1, <2>3 DEF CreateJob
  <2>4. ASSUME NEW r, Select(c, r) \/ TapDecline(c, r)
        PROVE  Evolves(c)
    BY <1>0, <2>4, SelectEvolves, TapDeclineEvolves
  <2>5. CASE TapApply(c) /\ Running(c)
    <3>1. PICK kind \in {"ApplyToJob", "RemoveJob"} : kind = "ApplyToJob"
      OBVIOUS
    <3>2. /\ popover[c] /= NoPopover /\ Visible(c).screen = ScreenOf(kind)
          /\ Tap(c, PopoverRead(c, kind))
      BY <2>5, <3>1 DEF TapApply, ScreenOf
    <3> QED
      BY <1>0, <2>5, <3>2, PopoverTapEvolves
  <2>6. CASE TapRemove(c) /\ Running(c)
    <3>1. PICK kind \in {"ApplyToJob", "RemoveJob"} : kind = "RemoveJob"
      OBVIOUS
    <3>2. /\ popover[c] /= NoPopover /\ Visible(c).screen = ScreenOf(kind)
          /\ Tap(c, PopoverRead(c, kind))
      BY <2>6, <3>1 DEF TapRemove, ScreenOf
    <3> QED
      BY <1>0, <2>6, <3>2, PopoverTapEvolves
  <2>7. CASE Dismiss(c)
    BY <1>0, <2>7, DismissEvolves
  <2> QED
    BY <1>3, <2>1, <2>2, <2>3, <2>4, <2>5, <2>6, <2>7 DEF User
<1>4. CASE Callback(c)
  BY <1>0, <1>4, NewJobsEvolves, MyJobsEvolves, ApplicantsEvolves, ApplyEvolves,
     RemoveEvolves, DeclineEvolves, RemovalEvolves, Removal2Evolves DEF Callback
<1>5. CASE Deliver(c) \/ Kill(c)
  BY <1>0, <1>5, DeliverEvolves, KillEvolves
<1>6. ASSUME NEW d \in Client, Apply(d) \/ Ack(d) \/ Connect(d) \/ Disconnect(d)
      PROVE  Evolves(c)
  BY <1>1, <1>6 DEF Apply, Ack, Connect, Disconnect
<1>7. CASE UNCHANGED vars
  BY <1>1, <1>7 DEF vars
<1> QED
  BY <1>2, <1>3, <1>4, <1>5, <1>6, <1>7 DEF Next


-----------------------------------------------------------------------------
(* Which jobs the clients know of.                                         *)

SomePosted == \E j \in Job : posted[j] /= Null

\* Applications are made to jobs that were posted, and those are the jobs
\* that a callback finds.
RequestsPosted == \A a \in App : request[a] /= Null => posted[request[a].job] /= Null

SnapsPosted ==
    \A c \in Client : \A i \in 1..Len(reads[c]) :
        reads[c][i].snap /= NoSnap => \A j \in Keys(reads[c][i].snap) : posted[j] /= Null

Known == RequestsPosted /\ SnapsPosted

LEMMA KeysPosted ==
    ScreenInv /\ RequestsPosted =>
        \A c \in Client : \A j \in Keys(Sync!View(server, puts[c])) : posted[j] /= Null
<1> SUFFICES ASSUME ScreenInv, RequestsPosted, NEW c \in Client,
                    NEW j \in Keys(Sync!View(server, puts[c])), posted[j] = Null
             PROVE  FALSE
  OBVIOUS
<1> DEFINE V == Sync!View(server, puts[c])
<1>1. TreeTrue(V, posted, request)
  BY ViewsTrue DEF ScreenInv, Inv
<1>2. j \in Job /\ \A f \in Field : V[<<j, f>>] = Null
  BY NotTornFromInv DEF ScreenInv, NoTornJob, Keys
<1>3. \E l \in Leaf : V[<<j, l>>] /= Null
  BY DEF Keys
<1> HIDE DEF V
<1>4. PICK a \in App : V[<<j, a>>] /= Null
  BY <1>2, <1>3 DEF Leaf
<1>5. request[a] /= Null /\ request[a].job = j
  BY <1>1, <1>2, <1>4 DEF TreeTrue
<1> QED
  BY <1>5 DEF RequestsPosted

LEMMA KeysPostedNext ==
    (ScreenInv /\ RequestsPosted =>
        \A c \in Client : \A j \in Keys(Sync!View(server, puts[c])) : posted[j] /= Null)'
  BY KeysPosted, PTL

\* An application is made by ApplyToJob only, to a job of its snapshot.
LEMMA RequestSteps ==
    ASSUME SharedTypeOK, [Next]_vars
    PROVE  \/ request' = request
           \/ /\ server' = server
              /\ \E c \in Client, a \in App :
                    /\ reads[c] /= <<>> /\ Head(reads[c]).snap /= NoSnap
                    /\ Head(reads[c]).kind = "ApplyToJob"
                    /\ \E j \in Keys(Head(reads[c]).snap) :
                          request' = [request EXCEPT ![a] = [job |-> j, by |-> c]]
<1>1. CASE UNCHANGED ghostVars
  BY <1>1 DEF ghostVars
<1>2. ASSUME NEW c \in Client, User(c)
      PROVE  request' = request
  <2>1. CASE \E j \in Job, t \in Title : CreateJob(c, j, t)
    BY <2>1 DEF CreateJob
  <2>2. CASE ~ \E j \in Job, t \in Title : CreateJob(c, j, t)
    BY <1>2, <2>2 DEF User, Launch, Present, Select, Dismiss, TapApply, TapRemove,
                      TapDecline, Tap, ghostVars
  <2> QED
    BY <2>1, <2>2
<1>3. ASSUME NEW c \in Client, Callback(c), ~ApplyToJob(c)
      PROVE  request' = request
  BY <1>3 DEF Callback, SetNewJobs, SetMyPostedJobs, SetApplicants, RemoveApplication,
              RemoveApplication2, RemoveJob, DeclineApplicant, ghostVars
<1>4. ASSUME NEW c \in Client, ApplyToJob(c), request' /= request
      PROVE  /\ server' = server
             /\ \E a \in App :
                   /\ reads[c] /= <<>> /\ Head(reads[c]).snap /= NoSnap
                   /\ Head(reads[c]).kind = "ApplyToJob"
                   /\ \E j \in Keys(Head(reads[c]).snap) :
                         request' = [request EXCEPT ![a] = [job |-> j, by |-> c]]
  <2> DEFINE r == Head(reads[c])
             jobs == Enum(Keys(r.snap))
  <2>1. reads[c] /= <<>> /\ r.snap /= NoSnap /\ r.kind = "ApplyToJob"
    BY <1>4 DEF ApplyToJob, Runs
  <2>2. /\ r.row \in DOMAIN jobs /\ server' = server
        /\ \E a \in App : request' = [request EXCEPT ![a] = [job |-> jobs[r.row], by |-> c]]
    BY <1>4 DEF ApplyToJob, Sync!Issue
  <2>3. jobs[r.row] \in Keys(r.snap)
    BY <2>2, NoKeys
  <2> QED
    BY <2>1, <2>2, <2>3
<1>5. ASSUME NEW c \in Client, Deliver(c) \/ Apply(c) \/ Ack(c) \/ Connect(c) \/ Disconnect(c)
                               \/ Kill(c)
      PROVE  request' = request
  BY <1>5 DEF Deliver, Apply, Ack, Connect, Disconnect, Kill, ghostVars
<1>6. CASE UNCHANGED vars
  BY <1>1, <1>6 DEF vars
<1> QED
  BY <1>2, <1>3, <1>4, <1>5, <1>6 DEF Next

LEMMA KnownNext ==
    ASSUME RowsOrdered, ScreenInv, ScreenInv', Known, [Next]_vars
    PROVE  Known'
<1>0. SharedTypeOK /\ Screens /\ GhostsGrow
  BY GrowNext DEF ScreenInv, Inv, BoardInv
<1>1. \A j \in Job : posted[j] /= Null => posted'[j] /= Null
  BY <1>0 DEF GhostsGrow
<1>2. RequestsPosted'
  <2>0. request \in [App -> [job : Job, by : Client] \cup {Null}]
    BY <1>0 DEF SharedTypeOK
  <2>1. CASE request' = request
    BY <1>1, <2>0, <2>1 DEF Known, RequestsPosted
  <2>2. ASSUME NEW c \in Client, NEW a \in App, reads[c] /= <<>>, Head(reads[c]).snap /= NoSnap,
               NEW j \in Keys(Head(reads[c]).snap),
               request' = [request EXCEPT ![a] = [job |-> j, by |-> c]]
        PROVE  RequestsPosted'
    <3>1. reads[c] \in Seq(ReadType)
      BY <1>0, ClientFacts
    <3>2. 1 \in 1..Len(reads[c]) /\ Head(reads[c]) = reads[c][1]
      BY <2>2, <3>1
    <3>3. j \in Job /\ posted[j] /= Null
      BY <2>2, <3>2 DEF Known, SnapsPosted, Keys
    <3> QED
      BY <1>1, <2>0, <2>2, <3>3 DEF Known, RequestsPosted
  <2> QED
    BY <1>0, <2>1, <2>2, RequestSteps
<1>3. ASSUME NEW c \in Client, NEW i \in 1..Len(reads'[c]), reads'[c][i].snap /= NoSnap,
             NEW j \in Keys(reads'[c][i].snap)
      PROVE  posted'[j] /= Null
  <2> DEFINE v == Sync!View(server', puts'[c])
             x == reads'[c][i]
  <2>1. j \in Job
    BY <1>3 DEF Keys
  <2>2. CASE x.snap = v
    BY <1>2, <1>3, <2>2, KeysPostedNext
  <2>3. ASSUME NEW k \in 1..Len(reads[c]), x.snap = reads[c][k].snap
        PROVE  posted'[j] /= Null
    BY <1>1, <1>3, <2>1, <2>3 DEF Known, SnapsPosted
  <2>4. ASSUME NEW d, Moved(c, d)
        PROVE  posted'[j] /= Null
    BY <1>3, <2>2, <2>3, <2>4 DEF Moved, Same
  <2> QED
    BY <2>4, Evolution DEF Evolves
<1> QED
  BY <1>2, <1>3 DEF Known, SnapsPosted


-----------------------------------------------------------------------------
(* A poster that is alone.                                                 *)

\* The hypothesis of LonePosterSafe.
Lone(c) ==
    /\ removed = {} /\ cut = {}
    /\ \A j \in Job : posted[j] /= Null => posted[j].poster = c

LEMMA LoneBefore ==
    ASSUME SharedTypeOK, [Next]_vars, NEW c, Lone(c)'
    PROVE  Lone(c)
<1>1. GhostsGrow
  BY GrowNext
<1>2. cut \subseteq cut'
  <2>1. CASE UNCHANGED vars
    BY <2>1 DEF vars, ghostVars
  <2>2. ASSUME NEW d \in Client, User(d)
        PROVE  cut' = cut
    BY <2>2 DEF User, Launch, Present, CreateJob, Select, Dismiss, TapApply, TapRemove,
                TapDecline, Tap, ghostVars
  <2>3. ASSUME NEW d \in Client, Callback(d)
        PROVE  cut' = cut
    BY <2>3 DEF Callback, SetNewJobs, SetMyPostedJobs, SetApplicants, ApplyToJob,
                RemoveApplication, RemoveApplication2, RemoveJob, DeclineApplicant, ghostVars
  <2>4. ASSUME NEW d \in Client, Deliver(d) \/ Apply(d) \/ Ack(d) \/ Connect(d)
                                 \/ Disconnect(d) \/ Kill(d)
        PROVE  cut \subseteq cut'
    BY <2>4 DEF Deliver, Apply, Ack, Connect, Disconnect, Kill, ghostVars
  <2> QED
    BY <2>1, <2>2, <2>3, <2>4 DEF Next
<1>3. ASSUME NEW j \in Job, posted[j] /= Null
      PROVE  posted[j].poster = c
  <2>1. posted'[j] = posted[j]
    BY <1>1, <1>3 DEF GhostsGrow
  <2> QED
    BY <1>3, <2>1 DEF Lone
<1> QED
  BY <1>1, <1>2, <1>3 DEF Lone, GhostsGrow

\* A poster that is alone reads all of every job.
LEMMA SeenWhole ==
    ScreenInv /\ RequestsPosted =>
        \A c \in Poster : Lone(c) =>
            /\ ~Torn(Sync!View(server, puts[c]))
            /\ SomePosted => Keys(Sync!View(server, puts[c])) /= {}
<1> SUFFICES ASSUME ScreenInv, RequestsPosted, NEW c \in Poster, Lone(c)
             PROVE  /\ ~Torn(Sync!View(server, puts[c]))
                    /\ SomePosted => Keys(Sync!View(server, puts[c])) /= {}
  OBVIOUS
<1> DEFINE V == Sync!View(server, puts[c])
<1>0. SharedTypeOK /\ Explained /\ PutsMayHold /\ c \in Client
  BY DEF ScreenInv, Inv, BoardInv, FieldInv, Client
<1>1. ASSUME NEW j \in Job, posted[j] /= Null, NEW f \in Field
      PROVE  V[<<j, f>>] /= Null
  <2>1. CASE (\A i : ~Writes(c, i, j, f)) /\ V[<<j, f>>] = server[<<j, f>>]
    <3>1. posted[j].poster = c /\ j \notin removed \cup cut
      BY <1>1 DEF Lone
    <3>2. server[<<j, f>>] /= Null
      BY <1>0, <1>1, <2>1, <3>1 DEF Explained
    <3> QED
      BY <2>1, <3>2
  <2>2. ASSUME NEW i \in Nat, Writes(c, i, j, f), V[<<j, f>>] = puts[c][i][<<j, f>>]
        PROVE  V[<<j, f>>] /= Null
    <3>1. MayHold(puts[c][i][<<j, f>>], j, f) /\ j \in Job \ removed
      BY <1>0, <2>2 DEF PutsMayHold, Lone
    <3> QED
      BY <1>0, <2>2, <3>1, HeldText
  <2> QED
    BY <1>0, <2>1, <2>2, ViewFacts
<1>2. \A j \in Keys(V) : j \in Job /\ posted[j] /= Null
  BY <1>0, KeysPosted DEF Keys
<1>3. ASSUME NEW j \in Job, posted[j] /= Null
      PROVE  j \in Keys(V)
  BY <1>1, <1>3, PathFacts DEF Keys, Leaf
<1> HIDE DEF V
<1>4. ~Torn(V)
  BY <1>1, <1>2 DEF Torn, Complete
<1> QED
  BY <1>3, <1>4 DEF V, SomePosted

LEMMA SeenWholeNext ==
    (ScreenInv /\ RequestsPosted =>
        \A c \in Poster : Lone(c) =>
            /\ ~Torn(Sync!View(server, puts[c]))
            /\ SomePosted => Keys(Sync!View(server, puts[c])) /= {})'
  BY SeenWhole, PTL

\* What holds of the screens of a poster that is alone: no row has a gap, no
\* snapshot a half-written job, and whatever is on screen or waits because of
\* a job is later than the first CreateJob.
RowsWhole(c) ==
    \A n \in 1..Len(stack[c]) :
        /\ stack[c][n].screen /= "ExploreVC"
        /\ \A i \in 1..Len(stack[c][n].list) :
              SomePosted /\ \A f \in Field : stack[c][n].list[i].data[f] /= Null

ReadsWhole(c) ==
    \A i \in 1..Len(reads[c]) :
        /\ reads[c][i].kind \in Later => SomePosted
        /\ reads[c][i].snap /= NoSnap =>
              /\ ~Torn(reads[c][i].snap)
              /\ reads[c][i].kind \in Later => Keys(reads[c][i].snap) /= {}

Calm(c) ==
    /\ fault[c] = "none"
    /\ RowsWhole(c) /\ ReadsWhole(c)
    /\ popover[c] /= NoPopover => SomePosted

LoneInv == \A c \in Poster : Lone(c) => Calm(c)

LEMMA ListFacts ==
    ASSUME NEW stk \in Seq(VCType), NEW n \in 1..Len(stk)
    PROVE  stk[n].list \in Seq(Row) /\ Len(stk[n].list) \in Nat
<1>1. stk[n] \in VCType
  OBVIOUS
<1> QED
  BY <1>1 DEF VCType

LEMMA CalmNext ==
    ASSUME RowsOrdered, ScreenInv, ScreenInv', Known, Known', [Next]_vars,
           NEW c \in Poster, Calm(c), Lone(c)'
    PROVE  Calm(c)'
<1>0. SharedTypeOK /\ Screens /\ GhostsGrow /\ c \in Client /\ c \notin Searcher
  BY GrowNext, ClientAssumption DEF ScreenInv, Inv, BoardInv, Client
<1>1. SomePosted => SomePosted'
  BY <1>0 DEF GhostsGrow, SomePosted
<1>e. Evolves(c)
  BY <1>0, Evolution
<1>t. /\ stack[c] \in Seq(VCType) /\ Len(stack[c]) \in Nat /\ reads[c] \in Seq(ReadType)
      /\ Len(reads[c]) \in Nat /\ stack'[c] \in Seq(VCType)
  <2>1. Screens'
    BY DEF ScreenInv
  <2> QED
    BY <1>0, <2>1, ClientFacts DEF Screens, ScreenTypeOK
<1> DEFINE v == Sync!View(server', puts'[c])
<1>v. ~Torn(v) /\ (SomePosted' => Keys(v) /= {})
  BY SeenWholeNext DEF Known
<1> HIDE DEF v
<1>h. reads[c] /= <<>> => Head(reads[c]) = reads[c][1] /\ 1 \in 1..Len(reads[c])
  BY <1>t
<1>r. \A n \in 1..Len(stack[c]) : stack[c][n].list /= <<>> => SomePosted
  <2> SUFFICES ASSUME NEW n \in 1..Len(stack[c]), stack[c][n].list /= <<>>
               PROVE  SomePosted
    OBVIOUS
  <2>1. stack[c][n].list \in Seq(Row)
    BY <1>t, ListFacts
  <2>2. 1 \in 1..Len(stack[c][n].list)
    BY <2>1
  <2> QED
    BY <2>2 DEF Calm, RowsWhole
<1>2. ASSUME NEW k, NEW vc, NEW row, Asked(c, k, vc, row), k \in Later
      PROVE  SomePosted
  <2>1. CASE k = "RemoveJob"
    BY <1>2, <2>1 DEF Asked, Calm
  <2>2. CASE k = "DeclineApplicant"
    BY <1>2, <1>r, <2>2 DEF Asked
  <2>3. CASE k \in {"RemoveApplication", "RemoveApplication2"}
    <3>1. reads[c] /= <<>> /\ Head(reads[c]).kind \in Later
      BY <1>2, <2>3 DEF Asked, Later
    <3> QED
      BY <1>h, <3>1 DEF Calm, ReadsWhole
  <2> QED
    BY <1>2, <2>1, <2>2, <2>3 DEF Later
<1>3. ReadsWhole(c)'
  <2>1. ASSUME NEW d, Moved(c, d), NEW i \in 1..Len(reads'[c])
        PROVE  /\ reads'[c][i].kind \in Later => SomePosted'
               /\ reads'[c][i].snap /= NoSnap =>
                     /\ ~Torn(reads'[c][i].snap)
                     /\ reads'[c][i].kind \in Later => Keys(reads'[c][i].snap) /= {}
    <3> DEFINE x == reads'[c][i]
    <3>1. CASE i + d \in 1..Len(reads[c]) /\ Same(x, reads[c][i + d], v)
      BY <1>1, <1>v, <3>1 DEF Same, Calm, ReadsWhole
    <3>2. CASE Asked(c, x.kind, x.vc, x.row) /\ x.snap \in {NoSnap, v}
      BY <1>1, <1>2, <1>v, <3>2
    <3> QED
      BY <2>1, <3>1, <3>2 DEF Moved, v
  <2> QED
    BY <1>e, <2>1 DEF Evolves, ReadsWhole
<1>4. RowsWhole(c)'
  <2> SUFFICES ASSUME NEW n \in 1..Len(stack'[c])
               PROVE  /\ stack'[c][n].screen /= "ExploreVC"
                      /\ \A i \in 1..Len(stack'[c][n].list) :
                            SomePosted' /\ \A f \in Field : stack'[c][n].list[i].data[f] /= Null
    BY DEF RowsWhole
  <2>1. CASE n \in 1..Len(stack[c]) /\ stack'[c][n] = stack[c][n]
    BY <1>1, <2>1 DEF Calm, RowsWhole
  <2>2. CASE /\ n = Len(stack[c]) + 1 /\ stack'[c][n].list = <<>>
             /\ stack'[c][n].screen = "ExploreVC" => c \in Searcher
    BY <1>0, <2>2
  <2>3. CASE /\ n \in 1..Len(stack[c]) /\ stack'[c][n].screen = stack[c][n].screen
             /\ stack'[c][n].list = <<>>
    BY <2>3 DEF Calm, RowsWhole
  <2>4. CASE n \in 1..Len(stack[c]) /\ LoadedLevel(c, n)
    <3> DEFINE db == Head(reads[c]).snap
    <3>1. /\ db /= NoSnap /\ reads[c] /= <<>>
          /\ stack'[c][n].screen = stack[c][n].screen
      BY <2>4 DEF LoadedLevel
    <3>2. PICK rows \in Seq(Row) : /\ stack'[c][n].list = stack[c][n].list \o rows
                                   /\ Loaded(Head(reads[c]).kind, db, rows)
      BY <2>4 DEF LoadedLevel
    <3>3. ~Torn(db) /\ \A j \in Keys(db) : posted[j] /= Null
      BY <1>0, <1>h, <3>1 DEF Calm, ReadsWhole, Known, SnapsPosted
    <3>4. ASSUME NEW i \in 1..Len(rows)
          PROVE  SomePosted /\ \A f \in Field : rows[i].data[f] /= Null
      <4>1. PICK j \in Keys(db) : rows[i].data = Fields(db, j)
        BY <3>2 DEF Loaded
      <4>2. SomePosted
        BY <3>3 DEF SomePosted, Keys
      <4>3. Complete(db, j)
        BY <3>3 DEF Torn
      <4> QED
        BY <4>1, <4>2, <4>3 DEF Fields, Complete
    <3>5. stack[c][n].list \in Seq(Row)
      BY <1>t, <2>4, ListFacts
    <3>6. PICK old \in Seq(Row) : old = stack[c][n].list
      BY <3>5
    <3>7. PICK new : new = old \o rows
      OBVIOUS
    <3>8. /\ Len(new) = Len(old) + Len(rows) /\ Len(old) \in Nat /\ Len(rows) \in Nat
          /\ \A k \in 1..Len(new) : new[k] = IF k <= Len(old) THEN old[k] ELSE rows[k - Len(old)]
      BY <3>7, ConcatProperties
    <3>9. ASSUME NEW i \in 1..Len(new)
          PROVE  SomePosted /\ \A f \in Field : new[i].data[f] /= Null
      <4>1. CASE i <= Len(old)
        <5>1. i \in 1..Len(old) /\ new[i] = old[i]
          BY <3>8, <4>1
        <5> QED
          BY <2>4, <3>6, <5>1 DEF Calm, RowsWhole
      <4>2. CASE ~(i <= Len(old))
        <5>1. i - Len(old) \in 1..Len(rows) /\ new[i] = rows[i - Len(old)]
          BY <3>8, <4>2
        <5> QED
          BY <3>4, <5>1
      <4> QED
        BY <4>1, <4>2
    <3>10. stack'[c][n].list = new /\ stack[c][n].screen /= "ExploreVC"
      BY <2>4, <3>2, <3>6, <3>7 DEF Calm, RowsWhole
    <3> QED
      BY <1>1, <3>1, <3>9, <3>10
  <2> QED
    BY <1>e, <2>1, <2>2, <2>3, <2>4 DEF Evolves, TowerMoved
<1>5. popover'[c] /= NoPopover => SomePosted'
  <2> SUFFICES ASSUME popover'[c] /= NoPopover PROVE SomePosted
    BY <1>1
  <2>1. CASE popover'[c] \in {popover[c], NoPopover}
    BY <2>1 DEF Calm
  <2>2. CASE /\ stack[c] /= <<>>
             /\ popover'[c].row \in 1..Len(stack[c][Len(stack[c])].list)
    <3>1. Len(stack[c]) \in 1..Len(stack[c])
      BY <1>t, <2>2
    <3> QED
      BY <2>2, <3>1 DEF Calm, RowsWhole
  <2> QED
    BY <1>e, <2>1, <2>2 DEF Evolves, PopoverMoved
<1>6. fault'[c] = "none"
  <2>1. ~CastFails(c)
    <3>1. ~ \E n \in 1..Len(stack'[c]) : \E i \in 1..Len(stack'[c][n].list) : \E f \in Field :
               stack'[c][n].list[i].data[f] = Null
      BY <1>4 DEF RowsWhole
    <3>2. ~(/\ reads[c] /= <<>> /\ Head(reads[c]).snap /= NoSnap
            /\ \/ Torn(Head(reads[c]).snap)
               \/ Head(reads[c]).kind \in Later /\ Keys(Head(reads[c]).snap) = {})
      BY <1>h DEF Calm, ReadsWhole
    <3> QED
      BY <3>1, <3>2 DEF CastFails
  <2>2. ~IndexFails(c)
    <3> SUFFICES ASSUME reads[c] /= <<>>, Head(reads[c]).kind = "ApplyToJob"
                 PROVE  FALSE
      BY DEF IndexFails
    <3>1. Fits(stack[c], popover[c], declined, Head(reads[c]))
      BY <1>0, HeadFits DEF ReadFits
    <3> QED
      BY <3>1 DEF Fits, ScreenOf, Calm, RowsWhole
  <2> QED
    BY <1>e, <2>1, <2>2 DEF Evolves, FaultMoved, Calm
<1> QED
  BY <1>3, <1>4, <1>5, <1>6 DEF Calm

LEMMA LoneInit == Init => Known /\ LoneInv
<1> SUFFICES ASSUME Init PROVE Known /\ LoneInv
  OBVIOUS
<1>1. Known
  BY DEF Init, Known, RequestsPosted, SnapsPosted
<1>2. ASSUME NEW c \in Poster
      PROVE  Calm(c)
  <2>1. /\ stack[c] = <<>> /\ reads[c] = <<>> /\ popover[c] = NoPopover /\ fault[c] = "none"
    BY DEF Init, Client
  <2> QED
    BY <2>1 DEF Calm, RowsWhole, ReadsWhole
<1> QED
  BY <1>1, <1>2 DEF LoneInv

LEMMA LoneInvariant ==
    ASSUME RowsOrdered
    PROVE  Spec => [](Known /\ LoneInv)
<1>1. ScreenInv /\ ScreenInv' /\ (Known /\ LoneInv) /\ [Next]_vars => (Known /\ LoneInv)'
  <2> SUFFICES ASSUME ScreenInv, ScreenInv', Known, LoneInv, [Next]_vars
               PROVE  Known' /\ LoneInv'
    OBVIOUS
  <2>1. Known'
    BY KnownNext
  <2>2. ASSUME NEW c \in Poster, Lone(c)'
        PROVE  Calm(c)'
    <3>1. Lone(c)
      BY <2>2, LoneBefore DEF ScreenInv, Inv, BoardInv
    <3> QED
      BY <2>1, <2>2, <3>1, CalmNext DEF LoneInv
  <2> QED
    BY <2>1, <2>2 DEF LoneInv
<1> QED
  BY <1>1, LoneInit, ScreenInvariant, PTL DEF Spec

\* A poster that is the only one posting, of whose jobs none was removed or
\* cut short, never fails a cast or an index, with any number of searchers
\* applying, taps overlapping, connections breaking and processes dying: what
\* it reads back of its own outstanding puts is never half a job.
THEOREM LonePostersAreSafe ==
    ASSUME RowsOrdered
    PROVE  Spec => []LonePosterSafe
<1>1. Known /\ LoneInv => LonePosterSafe
  BY DEF LoneInv, Lone, Calm, LonePosterSafe
<1> QED
  BY <1>1, LoneInvariant, PTL


-----------------------------------------------------------------------------
(* The row number of ApplyToJob.                                           *)

Titled(j) == server[<<j, "title">>] /= Null

\* A searcher has one screen. Its list is filled once, before anything can
\* be selected, and row numbers are numbers of rows.
Explores(c) ==
    /\ \A n \in 1..Len(stack[c]) : n = 1 /\ stack[c][n].screen = "ExploreVC"
    /\ popover[c] /= NoPopover => popover[c].row \in 1..Len(stack[c][1].list)
    /\ \A i \in 1..Len(reads[c]) :
          /\ reads[c][i].kind = "SetNewJobs" => i = 1 /\ stack[c][1].list = <<>>
          /\ reads[c][i].kind = "ApplyToJob" => reads[c][i].row \in 1..Len(stack[c][1].list)

\* Without removals: the jobs of a list are different and stay on the board,
\* so that they are in every later snapshot.
ListKept(c) ==
    \A n \in 1..Len(stack[c]) :
        /\ \A i \in 1..Len(stack[c][n].list) :
              stack[c][n].list[i].job \in Job /\ Titled(stack[c][n].list[i].job)
        /\ \A i, k \in 1..Len(stack[c][n].list) :
              stack[c][n].list[i].job = stack[c][n].list[k].job => i = k

SnapsKept(c) ==
    \A i \in 1..Len(reads[c]) :
        reads[c][i].snap /= NoSnap =>
            /\ \A j \in Keys(reads[c][i].snap) : Titled(j)
            /\ reads[c][i].kind = "ApplyToJob" =>
                  \A k \in 1..Len(stack[c][1].list) :
                      stack[c][1].list[k].job \in Keys(reads[c][i].snap)

RequestsTitled == \A a \in App : request[a] /= Null => Titled(request[a].job)

IndexInv ==
    /\ \A c \in Searcher : Explores(c)
    /\ \A c \in Poster : \A n \in 1..Len(stack[c]) : stack[c][n].screen /= "ExploreVC"
    /\ removed = {} => RequestsTitled /\ \A c \in Searcher : ListKept(c) /\ SnapsKept(c)
    /\ IndexFaultExplained

LEMMA StickInvariant == Spec => []StickInv
<1>1. Inv /\ StickInv /\ [Next]_vars => StickInv'
  BY StickNext
<1> QED
  BY <1>1, StickInit, Invariant, PTL DEF Spec

\* A title that nobody removes stays.
LEMMA TitleStays ==
    ASSUME Inv, [Next]_vars, removed' = {}, NEW j \in Job, Titled(j)
    PROVE  Titled(j)'
<1>0. SharedTypeOK /\ PutsMayHold
  BY DEF Inv, BoardInv, FieldInv
<1>1. removed = {}
  BY <1>0, GrowNext DEF GhostsGrow
<1>2. CASE server' = server
  BY <1>2 DEF Titled
<1>3. ASSUME NEW c \in Client, Apply(c)
      PROVE  Titled(j)'
  <2> DEFINE i == applied[c] + 1
  <2>1. /\ server' = Sync!ApplyWrite(server, puts[c][i]) /\ applied[c] < Len(puts[c])
    BY <1>3 DEF Apply, Sync!ServerApply
  <2>2. i \in 1..Len(puts[c]) /\ i \in Nat
    BY <1>0, <2>1, TypeFacts
  <2> HIDE DEF i
  <2>3. server'[<<j, "title">>] = IF <<j, "title">> \in DOMAIN puts[c][i]
                                  THEN puts[c][i][<<j, "title">>] ELSE server[<<j, "title">>]
    BY <2>1, PathFacts DEF Sync!ApplyWrite
  <2>4. CASE <<j, "title">> \in DOMAIN puts[c][i]
    <3>1. PICK f \in Field : f = "title"
      BY PathFacts
    <3>2. Writes(c, i, j, f)
      BY <2>2, <2>4, <3>1 DEF Writes
    <3>3. MayHold(puts[c][i][<<j, f>>], j, f)
      BY <1>0, <2>2, <3>2 DEF PutsMayHold
    <3>4. puts[c][i][<<j, f>>] /= Null
      BY <1>0, <1>1, <3>3, HeldText
    <3> QED
      BY <2>3, <2>4, <3>1, <3>4 DEF Titled
  <2>5. CASE <<j, "title">> \notin DOMAIN puts[c][i]
    BY <2>3, <2>5 DEF Titled
  <2> QED
    BY <2>4, <2>5
<1> QED
  BY <1>2, <1>3, TreeSteps

\* Without removals a searcher finds the jobs that have a title.
LEMMA SearcherSees ==
    ScreenInv /\ StickInv /\ RequestsTitled /\ removed = {} =>
        \A c \in Searcher, j \in Job : j \in Keys(Sync!View(server, puts[c])) <=> Titled(j)
<1> SUFFICES ASSUME ScreenInv, StickInv, RequestsTitled, removed = {}, NEW c \in Searcher,
                    NEW j \in Job
             PROVE  j \in Keys(Sync!View(server, puts[c])) <=> Titled(j)
  OBVIOUS
<1> DEFINE V == Sync!View(server, puts[c])
<1>0. /\ SharedTypeOK /\ PutsMayHold /\ ServerInOrder /\ c \in Client /\ c \notin Poster
      /\ TreeTrue(V, posted, request)
  BY ClientAssumption, ViewsTrue DEF ScreenInv, Inv, BoardInv, FieldInv, Client
<1>1. ASSUME NEW f \in Field, NEW i \in Nat, Writes(c, i, j, f)
      PROVE  FALSE
  <2>1. MayHold(puts[c][i][<<j, f>>], j, f)
    BY <1>0, <1>1 DEF PutsMayHold
  <2>2. Gives(c, i, j, f)
    BY <1>0, <1>1, <2>1, HeldText DEF Gives
  <2>3. posted[j] /= Null /\ posted[j].poster = c
    BY <1>0, <2>2 DEF StickInv, GivenByPoster
  <2> QED
    BY <1>0, <2>3, TypeFacts
<1>2. \A f \in Field : V[<<j, f>>] = server[<<j, f>>]
  BY <1>0, <1>1, ViewFacts
<1>3. ASSUME NEW f \in Field, server[<<j, f>>] /= Null
      PROVE  Titled(j)
  <2>1. PICK l \in FieldNo : f = FieldOrder[l]
    BY FieldFacts
  <2>2. 1 \in FieldNo /\ FieldOrder[1] = "title" /\ (l = 1 \/ 1 < l)
    BY FieldAssumption DEF FieldNo
  <2>3. InOrder(server, j)
    BY <1>0 DEF ServerInOrder
  <2> QED
    BY <1>3, <2>1, <2>2, <2>3 DEF InOrder, Titled
<1> HIDE DEF V
<1>4. ASSUME NEW a \in App, V[<<j, a>>] /= Null
      PROVE  Titled(j)
  BY <1>0, <1>4 DEF TreeTrue, RequestsTitled
<1>5. ASSUME j \in Keys(V)
      PROVE  Titled(j)
  BY <1>2, <1>3, <1>4, <1>5 DEF Keys, Leaf
<1>6. ASSUME Titled(j)
      PROVE  j \in Keys(V)
  BY <1>2, <1>6, PathFacts DEF Keys, Leaf, Titled
<1> QED
  BY <1>5, <1>6 DEF V

LEMMA SearcherSeesNext ==
    (ScreenInv /\ StickInv /\ RequestsTitled /\ removed = {} =>
        \A c \in Searcher, j \in Job : j \in Keys(Sync!View(server, puts[c])) <=> Titled(j))'
  BY SearcherSees, PTL


\* The one screen of a searcher after a step.
LEMMA ExploreTower ==
    ASSUME Screens, Screens', NEW c \in Client, c \in Searcher, Explores(c), Evolves(c),
           stack'[c] /= <<>>
    PROVE  /\ \A n \in 1..Len(stack'[c]) : n = 1 /\ stack'[c][n].screen = "ExploreVC"
           /\ \/ stack[c] = <<>> /\ stack'[c][1].list = <<>>
              \/ stack[c] /= <<>> /\ stack'[c][1] = stack[c][1]
              \/ /\ stack[c] /= <<>> /\ stack[c][1].list = <<>> /\ LoadedLevel(c, 1)
                 /\ Head(reads[c]).kind = "SetNewJobs"
<1>0. /\ stack[c] \in Seq(VCType) /\ Len(stack[c]) \in Nat
      /\ stack'[c] \in Seq(VCType) /\ Len(stack'[c]) \in Nat /\ reads[c] \in Seq(ReadType)
  BY ClientFacts DEF Screens, ScreenTypeOK
<1>1. 1 \in 1..Len(stack'[c])
  BY <1>0
<1>2. ASSUME NEW n \in 1..Len(stack[c])
      PROVE  n = 1 /\ stack[c][n].screen = "ExploreVC" /\ stack[c] /= <<>>
  BY <1>2 DEF Explores
<1>3. ASSUME NEW n \in 1..Len(stack'[c])
      PROVE  /\ n = 1 /\ stack'[c][n].screen = "ExploreVC"
             /\ \/ stack[c] = <<>> /\ stack'[c][n].list = <<>>
                \/ stack[c] /= <<>> /\ stack'[c][n] = stack[c][n]
                \/ stack[c] /= <<>> /\ LoadedLevel(c, n)
  <2>1. CASE n \in 1..Len(stack[c]) /\ stack'[c][n] = stack[c][n]
    BY <1>2, <2>1
  <2>2. CASE /\ n = Len(stack[c]) + 1 /\ stack'[c][n].list = <<>>
             /\ c \in Searcher => stack[c] = <<>> /\ stack'[c][n].screen = "ExploreVC"
    BY <2>2
  <2>3. CASE n \in 1..Len(stack[c]) /\ stack[c][n].screen = "PostedJobsVC"
    BY <1>2, <2>3
  <2>4. CASE n \in 1..Len(stack[c]) /\ LoadedLevel(c, n)
    BY <1>2, <2>4 DEF LoadedLevel
  <2> QED
    BY <2>1, <2>2, <2>3, <2>4 DEF Evolves, TowerMoved
<1>4. ASSUME LoadedLevel(c, 1)
      PROVE  stack[c][1].list = <<>> /\ Head(reads[c]).kind = "SetNewJobs"
  <2>1. /\ reads[c] /= <<>> /\ Head(reads[c]).vc = 1
        /\ Head(reads[c]).kind \in {"SetNewJobs", "SetMyPostedJobs", "SetApplicants"}
    BY <1>4 DEF LoadedLevel
  <2>2. Fits(stack[c], popover[c], declined, Head(reads[c]))
    BY <2>1, HeadFits DEF ReadFits
  <2>3. stack[c][1].screen = "ExploreVC" /\ ScreenOf(Head(reads[c]).kind) = "ExploreVC"
    BY <1>2, <2>1, <2>2 DEF Fits
  <2>4. Head(reads[c]).kind = "SetNewJobs"
    BY <2>1, <2>3 DEF ScreenOf
  <2>5. Head(reads[c]) = reads[c][1] /\ 1 \in 1..Len(reads[c])
    BY <1>0, <2>1
  <2> QED
    BY <2>4, <2>5 DEF Explores
<1> QED
  BY <1>1, <1>3, <1>4

\* A waiting callback is on behalf of a running app.
LEMMA ReadsRunning ==
    ASSUME Screens, NEW c \in Client
    PROVE  /\ \A i \in 1..Len(reads[c]) : stack[c] /= <<>>
           /\ popover[c] /= NoPopover => stack[c] /= <<>>
<1>1. ASSUME NEW i \in 1..Len(reads[c])
      PROVE  reads[c][i].vc \in 1..Len(stack[c])
  BY ClientFacts DEF QueueFits, ReadFits, Fits
<1>2. popover[c] /= NoPopover => stack[c] /= <<>>
  BY ClientFacts DEF TowerFits
<1> QED
  BY <1>1, <1>2

LEMMA ReadsRunningNext ==
    (Screens => \A c \in Client : /\ \A i \in 1..Len(reads[c]) : stack[c] /= <<>>
                                  /\ popover[c] /= NoPopover => stack[c] /= <<>>)'
<1>1. Screens => \A c \in Client : /\ \A i \in 1..Len(reads[c]) : stack[c] /= <<>>
                                   /\ popover[c] /= NoPopover => stack[c] /= <<>>
  BY ReadsRunning
<1> QED
  BY <1>1, PTL

\* The callbacks of a searcher after a step: one that waited before has its
\* list, unless none did; new ones are SetNewJobs at launch and ApplyToJob.
LEMMA ExploreReads ==
    ASSUME Screens, Screens', NEW c \in Client, c \in Searcher, Explores(c), Evolves(c),
           NEW i \in 1..Len(reads'[c])
    PROVE  LET x == reads'[c][i] IN
           /\ stack'[c] /= <<>>
           /\ x.kind = "SetNewJobs" => i = 1 /\ stack'[c][1].list = <<>>
           /\ x.kind = "ApplyToJob" => /\ x.row \in 1..Len(stack[c][1].list)
                                       /\ stack'[c][1] = stack[c][1]
           /\ \/ x.snap \in {NoSnap, Sync!View(server', puts'[c])}
              \/ \E k \in 1..Len(reads[c]) : x.snap = reads[c][k].snap /\ x.kind = reads[c][k].kind
<1> DEFINE x == reads'[c][i]
           v == Sync!View(server', puts'[c])
<1>0. reads[c] \in Seq(ReadType) /\ Len(reads[c]) \in Nat
  BY ClientFacts
<1>i. i \in Nat /\ i >= 1
  <2>1. reads'[c] \in Seq(ReadType)
    BY DEF Screens, ScreenTypeOK
  <2> QED
    BY <2>1
<1>1. stack'[c] /= <<>>
  BY ReadsRunningNext
<1>2. \/ stack[c] = <<>> /\ stack'[c][1].list = <<>>
      \/ stack[c] /= <<>> /\ stack'[c][1] = stack[c][1]
      \/ /\ stack[c] /= <<>> /\ stack[c][1].list = <<>> /\ LoadedLevel(c, 1)
         /\ Head(reads[c]).kind = "SetNewJobs"
  BY <1>1, ExploreTower
<1>3. PICK d \in {0, 1} :
         /\ Moved(c, d)
         /\ ~(stack[c] /= <<>> /\ stack'[c][1] = stack[c][1]) /\ stack[c] /= <<>> =>
               d = 1 /\ stack[c][1].list = <<>>
  <2>1. CASE stack[c] /= <<>> /\ stack[c][1].list = <<>> /\ LoadedLevel(c, 1)
    BY <2>1 DEF LoadedLevel
  <2>2. CASE \/ stack[c] = <<>> \/ (stack[c] /= <<>> /\ stack'[c][1] = stack[c][1])
    BY <2>2 DEF Evolves
  <2> QED
    BY <1>2, <2>1, <2>2
<1> HIDE DEF v
<1>4. CASE i + d \in 1..Len(reads[c]) /\ Same(x, reads[c][i + d], v)
  <2>1. PICK k \in 1..Len(reads[c]) : k = i + d /\ Same(x, reads[c][k], v)
    BY <1>4
  <2>2. stack[c] /= <<>>
    BY ReadsRunning
  <2>3. x.kind = "SetNewJobs" => k = 1 /\ stack[c][1].list = <<>>
    BY <2>1 DEF Same, Explores
  <2>4. x.kind = "ApplyToJob" => x.row \in 1..Len(stack[c][1].list)
    BY <2>1 DEF Same, Explores
  <2>5. k = 1 => i = 1 /\ d = 0
    BY <1>i, <2>1
  <2>6. x.kind = "ApplyToJob" => stack'[c][1] = stack[c][1]
    BY <1>3, <2>2, <2>4
  <2>7. x.kind = "SetNewJobs" => i = 1 /\ stack'[c][1].list = <<>>
    BY <1>3, <2>2, <2>3, <2>5
  <2> QED
    BY <1>1, <2>1, <2>4, <2>6, <2>7 DEF Same, v
<1>5. CASE Asked(c, x.kind, x.vc, x.row) /\ x.snap \in {NoSnap, v}
  <2>1. CASE x.kind = "SetNewJobs"
    <3>1. stack[c] = <<>> /\ Len(reads'[c]) = 1
      BY <1>5, <2>1 DEF Asked
    <3>2. i = 1 /\ stack'[c][1].list = <<>>
      BY <1>2, <3>1
    <3> QED
      BY <1>1, <1>5, <2>1, <3>2 DEF v
  <2>2. CASE x.kind = "ApplyToJob"
    <3>1. popover[c] /= NoPopover /\ x.row = popover[c].row
      BY <1>5, <2>2 DEF Asked
    <3>2. stack[c] /= <<>> /\ x.row \in 1..Len(stack[c][1].list)
      BY <3>1, ReadsRunning DEF Explores
    <3>3. stack'[c][1] = stack[c][1]
      BY <1>3, <3>2
    <3> QED
      BY <1>1, <1>5, <2>2, <3>2, <3>3 DEF v
  <2> QED
    BY <1>1, <1>5, <2>1, <2>2 DEF v
<1> QED
  BY <1>3, <1>4, <1>5 DEF Moved, v

LEMMA ExploresNext ==
    ASSUME Screens, Screens', NEW c \in Client, c \in Searcher, Explores(c), Evolves(c)
    PROVE  Explores(c)'
<1>0. stack[c] \in Seq(VCType) /\ Len(stack[c]) \in Nat
  BY ClientFacts
<1>1. ASSUME NEW n \in 1..Len(stack'[c])
      PROVE  n = 1 /\ stack'[c][n].screen = "ExploreVC"
  <2>1. stack'[c] /= <<>>
    BY <1>1
  <2> QED
    BY <2>1, ExploreTower
<1>2. ASSUME popover'[c] /= NoPopover
      PROVE  popover'[c].row \in 1..Len(stack'[c][1].list)
  <2>1. stack'[c] /= <<>>
    BY <1>2, ReadsRunningNext
  <2>2. CASE popover'[c] = popover[c]
    <3>1. stack[c] /= <<>> /\ popover[c].row \in 1..Len(stack[c][1].list)
      BY <1>2, <2>2, ReadsRunning DEF Explores
    <3>2. stack[c][1].list /= <<>>
      BY <3>1
    <3> QED
      BY <2>1, <2>2, <3>1, <3>2, ExploreTower
  <2>3. CASE /\ stack[c] /= <<>> /\ stack' = stack
             /\ popover'[c].row \in 1..Len(stack[c][Len(stack[c])].list)
    <3>1. Len(stack[c]) \in 1..Len(stack[c])
      BY <1>0, <2>3
    <3>2. Len(stack[c]) = 1
      BY <3>1 DEF Explores
    <3> QED
      BY <2>3, <3>2
  <2> QED
    BY <1>2, <2>2, <2>3 DEF Evolves, PopoverMoved
<1>3. ASSUME NEW i \in 1..Len(reads'[c])
      PROVE  /\ reads'[c][i].kind = "SetNewJobs" => i = 1 /\ stack'[c][1].list = <<>>
             /\ reads'[c][i].kind = "ApplyToJob" =>
                   reads'[c][i].row \in 1..Len(stack'[c][1].list)
  BY ExploreReads
<1> QED
  BY <1>1, <1>2, <1>3 DEF Explores


LEMMA TitledRequests ==
    ASSUME ScreenInv, IndexInv, [Next]_vars, removed' = {}
    PROVE  RequestsTitled'
<1>0. SharedTypeOK /\ Screens /\ Inv /\ removed = {}
  BY GrowNext DEF ScreenInv, Inv, BoardInv, GhostsGrow
<1>1. request \in [App -> [job : Job, by : Client] \cup {Null}]
  BY <1>0 DEF SharedTypeOK
<1>2. RequestsTitled
  BY <1>0 DEF IndexInv
<1>3. CASE request' = request
  <2> SUFFICES ASSUME NEW a \in App, request[a] /= Null
               PROVE  Titled(request[a].job)'
    BY <1>3 DEF RequestsTitled
  <2>1. request[a].job \in Job /\ Titled(request[a].job)
    BY <1>1, <1>2 DEF RequestsTitled
  <2>2. PICK j \in Job : j = request[a].job /\ Titled(j)
    BY <2>1
  <2>3. Titled(j)'
    BY <1>0, <2>2, TitleStays
  <2> QED
    BY <1>3, <2>2, <2>3 DEF Titled
<1>4. ASSUME server' = server, NEW c \in Client, NEW a \in App, reads[c] /= <<>>,
             Head(reads[c]).snap /= NoSnap, Head(reads[c]).kind = "ApplyToJob",
             NEW j \in Keys(Head(reads[c]).snap),
             request' = [request EXCEPT ![a] = [job |-> j, by |-> c]]
      PROVE  RequestsTitled'
  <2>1. Fits(stack[c], popover[c], declined, Head(reads[c])) /\ reads[c] \in Seq(ReadType)
    BY <1>0, <1>4, HeadFits, ClientFacts DEF ReadFits
  <2>2. c \notin Poster
    BY <1>4, <2>1 DEF Fits, ScreenOf, IndexInv
  <2>3. c \in Searcher /\ Head(reads[c]) = reads[c][1] /\ 1 \in 1..Len(reads[c])
    BY <1>4, <2>1, <2>2 DEF Client
  <2>4. Titled(j) /\ j \in Job
    BY <1>0, <1>4, <2>3 DEF IndexInv, SnapsKept, Keys
  <2> QED
    BY <1>1, <1>2, <1>4, <2>4 DEF RequestsTitled, Titled
<1> QED
  BY <1>0, <1>3, <1>4, RequestSteps

LEMMA ListNext ==
    ASSUME Inv, [Next]_vars, removed' = {}, Screens, Screens', NEW c \in Client, c \in Searcher,
           Explores(c), Evolves(c), ListKept(c), SnapsKept(c)
    PROVE  ListKept(c)'
<1> SUFFICES ASSUME NEW n \in 1..Len(stack'[c])
             PROVE  /\ \A i \in 1..Len(stack'[c][n].list) :
                          /\ stack'[c][n].list[i].job \in Job
                          /\ server'[<<stack'[c][n].list[i].job, "title">>] /= Null
                    /\ \A i, k \in 1..Len(stack'[c][n].list) :
                          stack'[c][n].list[i].job = stack'[c][n].list[k].job => i = k
  BY DEF ListKept, Titled
<1>0. /\ stack[c] \in Seq(VCType) /\ Len(stack[c]) \in Nat /\ reads[c] \in Seq(ReadType)
  BY ClientFacts
<1>1. stack'[c] /= <<>>
  OBVIOUS
<1>2. n = 1
  BY <1>1, ExploreTower
<1>3. \A j \in Job : Titled(j) => server'[<<j, "title">>] /= Null
  BY TitleStays DEF Titled
<1>4. CASE stack'[c][1].list = <<>>
  BY <1>2, <1>4
<1>5. CASE stack[c] /= <<>> /\ stack'[c][1] = stack[c][1]
  <2>1. 1 \in 1..Len(stack[c])
    BY <1>0, <1>5
  <2> QED
    BY <1>2, <1>3, <1>5, <2>1 DEF ListKept
<1>6. CASE stack[c][1].list = <<>> /\ LoadedLevel(c, 1) /\ Head(reads[c]).kind = "SetNewJobs"
  <2> DEFINE db == Head(reads[c]).snap
  <2>1. reads[c] /= <<>> /\ db /= NoSnap
    BY <1>6 DEF LoadedLevel
  <2>2. PICK rows \in Seq(Row) : /\ stack'[c][1].list = <<>> \o rows
                                 /\ Loaded("SetNewJobs", db, rows)
    BY <1>6 DEF LoadedLevel
  <2>3. stack'[c][1].list = rows
    BY <2>2, ConcatEmptySeq
  <2>4. Head(reads[c]) = reads[c][1] /\ 1 \in 1..Len(reads[c])
    BY <1>0, <2>1
  <2>5. \A j \in Keys(db) : j \in Job /\ Titled(j)
    BY <2>1, <2>4 DEF SnapsKept, Keys
  <2> QED
    BY <1>2, <1>3, <2>2, <2>3, <2>5 DEF Loaded
<1> QED
  BY <1>1, <1>4, <1>5, <1>6, ExploreTower

LEMMA SnapsNext ==
    ASSUME ScreenInv, ScreenInv', StickInv', [Next]_vars, removed' = {}, RequestsTitled',
           NEW c \in Client, c \in Searcher, Explores(c), Evolves(c), SnapsKept(c), ListKept(c)'
    PROVE  SnapsKept(c)'
<1>0. Inv /\ Screens /\ Screens'
  BY DEF ScreenInv
<1> SUFFICES ASSUME NEW i \in 1..Len(reads'[c]), reads'[c][i].snap /= NoSnap
             PROVE  /\ \A j \in Keys(reads'[c][i].snap) : server'[<<j, "title">>] /= Null
                    /\ reads'[c][i].kind = "ApplyToJob" =>
                          \A k \in 1..Len(stack'[c][1].list) :
                              stack'[c][1].list[k].job \in Keys(reads'[c][i].snap)
  BY DEF SnapsKept, Titled
<1> DEFINE x == reads'[c][i]
           v == Sync!View(server', puts'[c])
<1>1. /\ stack'[c] /= <<>>
      /\ x.kind = "ApplyToJob" => stack'[c][1] = stack[c][1]
      /\ \/ x.snap = v
         \/ \E k \in 1..Len(reads[c]) : x.snap = reads[c][k].snap /\ x.kind = reads[c][k].kind
  BY <1>0, ExploreReads
<1>2. \A j \in Job : Titled(j) => server'[<<j, "title">>] /= Null
  BY <1>0, TitleStays DEF Titled
<1>3. CASE x.snap = v
  <2>1. \A j \in Job : j \in Keys(v) <=> server'[<<j, "title">>] /= Null
    BY SearcherSeesNext DEF Titled
  <2>2. 1 \in 1..Len(stack'[c])
    <3>1. stack'[c] \in Seq(VCType)
      BY <1>0 DEF Screens, ScreenTypeOK
    <3> QED
      BY <1>1, <3>1
  <2>3. \A k \in 1..Len(stack'[c][1].list) :
           /\ stack'[c][1].list[k].job \in Job
           /\ server'[<<stack'[c][1].list[k].job, "title">>] /= Null
    BY <2>2 DEF ListKept, Titled
  <2>4. \A j \in Keys(v) : j \in Job
    BY DEF Keys
  <2> HIDE DEF v
  <2> QED
    BY <1>3, <2>1, <2>3, <2>4
<1>4. ASSUME NEW k \in 1..Len(reads[c]), x.snap = reads[c][k].snap, x.kind = reads[c][k].kind
      PROVE  /\ \A j \in Keys(x.snap) : server'[<<j, "title">>] /= Null
             /\ x.kind = "ApplyToJob" =>
                   \A m \in 1..Len(stack'[c][1].list) :
                       stack'[c][1].list[m].job \in Keys(x.snap)
  <2>1. \A j \in Keys(x.snap) : j \in Job
    BY DEF Keys
  <2> QED
    BY <1>1, <1>2, <1>4, <2>1 DEF SnapsKept
<1> QED
  BY <1>1, <1>3, <1>4

\* Different jobs that are all in the snapshot leave no row number out.
LEMMA IndexInRange ==
    ASSUME Screens, NEW c \in Client, c \in Searcher, Explores(c), ListKept(c), SnapsKept(c),
           IndexFails(c)
    PROVE  FALSE
<1> DEFINE r == Head(reads[c])
           keys == Keys(r.snap)
           list == stack[c][1].list
           jobs == [i \in 1..Len(list) |-> list[i].job]
           S == {list[i].job : i \in 1..Len(list)}
<1>0. /\ stack[c] \in Seq(VCType) /\ Len(stack[c]) \in Nat /\ reads[c] \in Seq(ReadType)
  BY ClientFacts
<1>1. /\ reads[c] /= <<>> /\ r.snap /= NoSnap /\ r.kind = "ApplyToJob"
      /\ r.row \notin DOMAIN Enum(keys)
  BY DEF IndexFails
<1>2. r = reads[c][1] /\ 1 \in 1..Len(reads[c])
  BY <1>0, <1>1
<1>3. stack[c] /= <<>>
  BY <1>2, ReadsRunning
<1>4. 1 \in 1..Len(stack[c])
  BY <1>0, <1>3
<1>5. Len(list) \in Nat
  BY <1>0, <1>4, ListFacts
<1>6. r.row \in 1..Len(list) /\ \A k \in 1..Len(list) : list[k].job \in keys
  BY <1>1, <1>2 DEF Explores, SnapsKept
<1>7. \A i, k \in 1..Len(list) : list[i].job = list[k].job => i = k
  BY <1>4 DEF ListKept
<1> HIDE DEF r, list, keys
<1>8. IsEnumeration(jobs, S) /\ Len(jobs) = Len(list)
  <2>1. jobs \in [1..Len(list) -> S]
    OBVIOUS
  <2>2. jobs \in Seq(S) /\ Len(jobs) = Len(list) /\ DOMAIN jobs = 1..Len(list)
    BY <1>5, <2>1
  <2>3. \A x \in S : \E i \in DOMAIN jobs : jobs[i] = x
    OBVIOUS
  <2>4. \A i, k \in DOMAIN jobs : jobs[i] = jobs[k] => i = k
    BY <1>7
  <2> QED
    BY <2>2, <2>3, <2>4 DEF IsEnumeration
<1>9. S \subseteq keys
  BY <1>6
<1> HIDE DEF jobs, S
<1>10. Cardinality(S) = Len(list)
  BY <1>8, EnumerationCount
<1>11. PICK ord : ord = Enum(keys)
  OBVIOUS
<1>12. IsEnumeration(ord, keys)
  BY <1>11, EnumAssumption DEF Keys, keys
<1>13. /\ DOMAIN ord = 1..Len(ord) /\ Len(ord) \in Nat /\ IsFiniteSet(keys)
       /\ Cardinality(keys) = Len(ord)
  BY <1>12, EnumerationCount
<1>14. Cardinality(S) <= Cardinality(keys)
  BY <1>9, <1>13, FS_Subset
<1> QED
  BY <1>1, <1>5, <1>6, <1>10, <1>11, <1>13, <1>14

LEMMA IndexNext ==
    ASSUME RowsOrdered, ScreenInv, ScreenInv', StickInv', IndexInv, [Next]_vars
    PROVE  IndexInv'
<1>0. SharedTypeOK /\ Inv /\ Screens /\ Screens' /\ GhostsGrow
  BY GrowNext DEF ScreenInv, Inv, BoardInv
<1>e. \A c \in Client : Evolves(c)
  BY Evolution
<1>s. Searcher \subseteq Client /\ Poster \subseteq Client
  BY DEF Client
<1>1. ASSUME NEW c \in Searcher
      PROVE  Explores(c)'
  BY <1>0, <1>e, <1>s, ExploresNext DEF IndexInv
<1>2. ASSUME NEW c \in Poster, NEW n \in 1..Len(stack'[c])
      PROVE  stack'[c][n].screen /= "ExploreVC"
  <2>1. c \notin Searcher /\ TowerMoved(c)
    BY <1>e, <1>s, ClientAssumption DEF Evolves
  <2> QED
    BY <2>1 DEF TowerMoved, LoadedLevel, IndexInv
<1>3. ASSUME removed' = {}
      PROVE  RequestsTitled' /\ \A c \in Searcher : ListKept(c)' /\ SnapsKept(c)'
  <2>1. removed = {}
    BY <1>0, <1>3 DEF GhostsGrow
  <2>2. RequestsTitled'
    BY <1>3, TitledRequests
  <2>3. ASSUME NEW c \in Searcher
        PROVE  ListKept(c)' /\ SnapsKept(c)'
    <3>1. Explores(c) /\ ListKept(c) /\ SnapsKept(c) /\ Evolves(c) /\ c \in Client
      BY <1>e, <1>s, <2>1 DEF IndexInv
    <3>2. ListKept(c)'
      BY <1>0, <1>3, <3>1, ListNext
    <3> QED
      BY <1>3, <2>2, <3>1, <3>2, SnapsNext
  <2> QED
    BY <2>2, <2>3
<1>4. IndexFaultExplained'
  <2> SUFFICES ASSUME NEW c \in Client, fault'[c] = "index", removed' = {}
               PROVE  FALSE
    BY DEF IndexFaultExplained
  <2>1. removed = {} /\ fault[c] /= "index"
    BY <1>0 DEF GhostsGrow, IndexInv, IndexFaultExplained
  <2>2. IndexFails(c)
    BY <1>e, <2>1 DEF Evolves, FaultMoved
  <2>3. Fits(stack[c], popover[c], declined, Head(reads[c])) /\ Head(reads[c]).kind = "ApplyToJob"
    BY <1>0, <2>2, HeadFits DEF ReadFits, IndexFails
  <2>4. c \notin Poster
    BY <2>3 DEF Fits, ScreenOf, IndexInv
  <2>5. c \in Searcher
    BY <2>4 DEF Client
  <2> QED
    BY <1>0, <2>1, <2>2, <2>5, IndexInRange DEF IndexInv
<1> QED
  BY <1>1, <1>2, <1>3, <1>4 DEF IndexInv

LEMMA IndexInit == Init => IndexInv
<1> SUFFICES ASSUME Init PROVE IndexInv
  OBVIOUS
<1>1. ASSUME NEW c \in Client
      PROVE  /\ stack[c] = <<>> /\ reads[c] = <<>> /\ popover[c] = NoPopover
             /\ fault[c] = "none"
  BY DEF Init
<1>2. \A c \in Searcher : Explores(c) /\ ListKept(c) /\ SnapsKept(c)
  BY <1>1 DEF Explores, ListKept, SnapsKept, Client
<1>3. \A c \in Poster : \A n \in 1..Len(stack[c]) : stack[c][n].screen /= "ExploreVC"
  BY <1>1 DEF Client
<1>4. RequestsTitled
  BY DEF Init, RequestsTitled
<1>5. IndexFaultExplained
  BY <1>1 DEF IndexFaultExplained
<1> QED
  BY <1>2, <1>3, <1>4, <1>5 DEF IndexInv

\* Applying never reads past the end of the new snapshot unless some job was
\* removed: the row number, which stands for a job of the list that ExploreVC
\* was filled with, is in range of every later snapshot, whatever is posted
\* and applied for in between.
THEOREM IndexFaultsAreExplained ==
    ASSUME RowsOrdered
    PROVE  Spec => []IndexFaultExplained
<1>1. ScreenInv /\ ScreenInv' /\ StickInv' /\ IndexInv /\ [Next]_vars => IndexInv'
  BY IndexNext
<1>2. IndexInv => IndexFaultExplained
  BY DEF IndexInv
<1> QED
  BY <1>1, <1>2, IndexInit, ScreenInvariant, StickInvariant, PTL DEF Spec


-----------------------------------------------------------------------------
(* The list of PostedJobsVC, when a user waits for one answer before the   *)
(* next tap.                                                               *)

Removals == {"RemoveApplication", "RemoveApplication2"}

\* Only the removals of applications wait in numbers; a SetMyPostedJobs that
\* waits will fill an empty list.
OneAtATime(c) ==
    \A i \in 1..Len(reads[c]) : reads[c][i].kind \notin Removals => Len(reads[c]) = 1

RefillsEmpty(c) ==
    \A i \in 1..Len(reads[c]) :
        reads[c][i].kind = "SetMyPostedJobs" => stack[c][reads[c][i].vc].list = <<>>

ListedOnce(c) ==
    \A n \in 1..Len(stack[c]) : stack[c][n].screen = "PostedJobsVC" =>
        \A i, k \in 1..Len(stack[c][n].list) :
            stack[c][n].list[i].job = stack[c][n].list[k].job => i = k

TwiceInv == \A c \in Client : OneAtATime(c) /\ RefillsEmpty(c) /\ ListedOnce(c)

\* When a step may ask for a read that is not a removal of an application.
LEMMA AskedWhen ==
    ASSUME MaxReads <= 1, Screens, NEW c \in Client, NEW k, NEW vc, NEW row,
           Asked(c, k, vc, row), k \notin Removals
    PROVE  \/ Len(reads[c]) = 0
           \/ reads[c] /= <<>> /\ Head(reads[c]).kind = "RemoveJob" /\ Len(reads'[c]) <= Len(reads[c])
<1>0. reads[c] \in Seq(ReadType) /\ Len(reads[c]) \in Nat /\ MaxReads \in Nat
  BY ClientFacts, BoundAssumption
<1>1. CASE stack[c] = <<>>
  <2>1. \A i \in 1..Len(reads[c]) : FALSE
    BY <1>1, ReadsRunning
  <2>2. Len(reads[c]) >= 1 => 1 \in 1..Len(reads[c])
    BY <1>0
  <2> QED
    BY <1>0, <2>1, <2>2
<1>2. CASE Len(reads[c]) < MaxReads
  BY <1>0, <1>2
<1>3. CASE /\ reads[c] /= <<>> /\ Head(reads[c]).kind = "RemoveJob"
           /\ Len(reads'[c]) <= Len(reads[c])
  BY <1>3
<1> QED
  BY <1>1, <1>2, <1>3 DEF Asked, Removals

LEMMA OneOnly == \A m \in Nat : 1 <= m /\ m <= 1 => m = 1
  OBVIOUS

LEMMA OneNext ==
    ASSUME MaxReads <= 1, Screens, Screens', NEW c \in Client, Evolves(c), OneAtATime(c),
           NEW i \in 1..Len(reads'[c]), reads'[c][i].kind \notin Removals
    PROVE  /\ Len(reads'[c]) = 1
           /\ reads[c] /= <<>> /\ Moved(c, 1) => Head(reads[c]).kind = "RemoveJob"
<1> DEFINE x == reads'[c][i]
           n == Len(reads[c])
           v == Sync!View(server', puts'[c])
<1>0. /\ reads[c] \in Seq(ReadType) /\ n \in Nat /\ MaxReads \in Nat
      /\ Len(reads'[c]) \in Nat /\ i \in Nat /\ 1 <= i /\ i <= Len(reads'[c])
  <2>1. reads'[c] \in Seq(ReadType)
    BY DEF Screens, ScreenTypeOK
  <2> QED
    BY <2>1, ClientFacts, BoundAssumption
<1>1. reads[c] /= <<>> => 1 \in 1..n /\ Head(reads[c]) = reads[c][1] /\ n /= 0
  BY <1>0
<1>2. reads[c] /= <<>> /\ Head(reads[c]).kind = "RemoveJob" => n = 1
  BY <1>1 DEF OneAtATime, Removals
<1> HIDE DEF n, v
<1>3. ASSUME NEW d \in {0, 1}, Moved(c, d)
      PROVE  \/ d = 0 /\ n = 1
             \/ n = 0
             \/ reads[c] /= <<>> /\ Head(reads[c]).kind = "RemoveJob" /\ Len(reads'[c]) <= n
  <2>1. CASE i + d \in 1..n /\ Same(x, reads[c][i + d], v)
    <3>1. PICK k \in 1..n : k = i + d /\ Same(x, reads[c][k], v)
      BY <2>1
    <3>2. n = 1
      BY <3>1 DEF Same, OneAtATime, n
    <3> QED
      BY <1>0, <3>1, <3>2
  <2>2. CASE Asked(c, x.kind, x.vc, x.row)
    BY <2>2, AskedWhen DEF n
  <2> QED
    BY <1>3, <2>1, <2>2 DEF Moved, n, v
<1>4. ASSUME Moved(c, 0), Tapped(c)
      PROVE  Len(reads'[c]) = 1
  <2>1. n = 0 \/ n = 1
    BY <1>2, <1>3, <1>4
  <2>2. reads[c] = <<>> => n = 0
    BY DEF n
  <2>3. \/ Len(reads'[c]) <= n
        \/ Len(reads'[c]) = n + 1 /\ (n < MaxReads \/ n = 0)
    BY <1>4, <2>2 DEF Tapped, n
  <2>4. PICK l \in Nat : l = Len(reads'[c]) /\ 1 <= l
    BY <1>0
  <2>5. l <= 1
    BY <1>0, <2>1, <2>3, <2>4
  <2> QED
    BY <2>4, <2>5, OneOnly
<1>5. ASSUME reads[c] /= <<>>, Moved(c, 1)
      PROVE  Len(reads'[c]) = 1 /\ Head(reads[c]).kind = "RemoveJob"
  <2>1. Head(reads[c]).kind = "RemoveJob" /\ Len(reads'[c]) <= n
    BY <1>1, <1>3, <1>5
  <2>2. PICK l \in Nat : l = Len(reads'[c]) /\ 1 <= l
    BY <1>0
  <2>3. l <= 1
    BY <1>2, <1>5, <2>1, <2>2
  <2> QED
    BY <2>1, <2>2, <2>3, OneOnly
<1> QED
  BY <1>4, <1>5 DEF Evolves

LEMMA TwiceNext ==
    ASSUME MaxReads <= 1, Screens, Screens', NEW c \in Client, Evolves(c),
           OneAtATime(c), RefillsEmpty(c), ListedOnce(c)
    PROVE  OneAtATime(c)' /\ RefillsEmpty(c)' /\ ListedOnce(c)'
<1>0. /\ stack[c] \in Seq(VCType) /\ Len(stack[c]) \in Nat /\ reads[c] \in Seq(ReadType)
      /\ Len(reads[c]) \in Nat
  BY ClientFacts
<1>1. OneAtATime(c)'
  BY OneNext DEF OneAtATime
<1>2. ASSUME NEW i \in 1..Len(reads'[c]), reads'[c][i].kind = "SetMyPostedJobs"
      PROVE  stack'[c][reads'[c][i].vc].list = <<>>
  <2> DEFINE x == reads'[c][i]
             m == x.vc
  <2>1. m \in 1..Len(stack'[c])
    BY DEF Screens, QueueFits, ReadFits, Fits
  <2>2. ASSUME m \in 1..Len(stack[c]), stack'[c][m] = stack[c][m], NEW d, Moved(c, d)
        PROVE  stack'[c][m].list = <<>>
    <3>1. CASE i + d \in 1..Len(reads[c]) /\ Same(x, reads[c][i + d], Sync!View(server', puts'[c]))
      BY <1>2, <2>2, <3>1 DEF Same, RefillsEmpty
    <3>2. CASE Asked(c, x.kind, x.vc, x.row)
      <4>1. x.vc = Len(stack[c]) + 1 \/ stack'[c][x.vc].list = <<>>
        BY <1>2, <3>2 DEF Asked
      <4> QED
        BY <1>0, <2>2, <4>1
    <3> QED
      BY <2>2, <3>1, <3>2 DEF Moved
  <2>3. CASE LoadedLevel(c, m)
    <3>1. reads[c] /= <<>> /\ Moved(c, 1) /\ Head(reads[c]).kind /= "RemoveJob"
      BY <2>3 DEF LoadedLevel
    <3> QED
      BY <1>2, <3>1, OneNext DEF Removals
  <2> HIDE DEF m
  <2> QED
    BY <2>1, <2>2, <2>3 DEF Evolves, TowerMoved, m
<1>3. ASSUME NEW n \in 1..Len(stack'[c]), stack'[c][n].screen = "PostedJobsVC"
      PROVE  \A i, k \in 1..Len(stack'[c][n].list) :
                stack'[c][n].list[i].job = stack'[c][n].list[k].job => i = k
  <2>1. CASE stack'[c][n].list = <<>>
    BY <2>1
  <2>2. CASE n \in 1..Len(stack[c]) /\ stack'[c][n] = stack[c][n]
    BY <1>3, <2>2 DEF ListedOnce
  <2>3. CASE n \in 1..Len(stack[c]) /\ LoadedLevel(c, n)
    <3> DEFINE r == Head(reads[c])
    <3>1. /\ reads[c] /= <<>> /\ r.vc = n /\ stack[c][n].screen = "PostedJobsVC"
          /\ r.kind \in {"SetNewJobs", "SetMyPostedJobs", "SetApplicants"}
      BY <1>3, <2>3 DEF LoadedLevel
    <3>2. Fits(stack[c], popover[c], declined, r)
      BY <3>1, HeadFits DEF ReadFits
    <3>3. r.kind = "SetMyPostedJobs"
      BY <3>1, <3>2 DEF Fits, ScreenOf
    <3>4. r = reads[c][1] /\ 1 \in 1..Len(reads[c])
      BY <1>0, <3>1
    <3>5. stack[c][n].list = <<>>
      BY <3>1, <3>3, <3>4 DEF RefillsEmpty
    <3>6. PICK rows \in Seq(Row) : /\ stack'[c][n].list = <<>> \o rows
                                   /\ Loaded("SetMyPostedJobs", r.snap, rows)
      BY <2>3, <3>3, <3>5 DEF LoadedLevel
    <3>7. stack'[c][n].list = rows
      BY <3>6, ConcatEmptySeq
    <3> QED
      BY <3>6, <3>7 DEF Loaded
  <2> QED
    BY <2>1, <2>2, <2>3 DEF Evolves, TowerMoved
<1> QED
  BY <1>1, <1>2, <1>3 DEF RefillsEmpty, ListedOnce

LEMMA TwiceInit == Init => TwiceInv
<1> SUFFICES ASSUME Init, NEW c \in Client
             PROVE  OneAtATime(c) /\ RefillsEmpty(c) /\ ListedOnce(c)
  BY DEF TwiceInv
<1>1. stack[c] = <<>> /\ reads[c] = <<>>
  BY DEF Init
<1> QED
  BY <1>1 DEF OneAtATime, RefillsEmpty, ListedOnce

\* PostedJobsVC lists no job twice when every tap waits for the callbacks of
\* the one before: the list is empty whenever a SetMyPostedJobs waits for it.
\* (With two taps on the removal button the list is filled twice.)
THEOREM NoJobIsListedTwice ==
    ASSUME RowsOrdered, MaxReads <= 1
    PROVE  Spec => []NoRowTwice
<1>1. ScreenInv /\ ScreenInv' /\ TwiceInv /\ [Next]_vars => TwiceInv'
  <2> SUFFICES ASSUME ScreenInv, ScreenInv', TwiceInv, [Next]_vars, NEW c \in Client
               PROVE  OneAtATime(c)' /\ RefillsEmpty(c)' /\ ListedOnce(c)'
    BY DEF TwiceInv
  <2>1. Screens /\ Screens' /\ Evolves(c)
    BY Evolution DEF ScreenInv
  <2> QED
    BY <2>1, TwiceNext DEF TwiceInv
<1>2. ScreenInv /\ TwiceInv => NoRowTwice
  <2> SUFFICES ASSUME ScreenInv, TwiceInv, NEW c \in Client, NEW n \in DOMAIN stack[c],
                      stack[c][n].screen = "PostedJobsVC",
                      NEW i \in DOMAIN stack[c][n].list, NEW k \in DOMAIN stack[c][n].list,
                      stack[c][n].list[i].job = stack[c][n].list[k].job
               PROVE  i = k
    BY DEF NoRowTwice
  <2>1. stack[c] \in Seq(VCType)
    BY DEF ScreenInv, Screens, ScreenTypeOK
  <2>2. n \in 1..Len(stack[c])
    BY <2>1
  <2>3. stack[c][n].list \in Seq(Row)
    BY <2>1, <2>2, ListFacts
  <2>4. i \in 1..Len(stack[c][n].list) /\ k \in 1..Len(stack[c][n].list)
    BY <2>3
  <2> QED
    BY <2>2, <2>4 DEF TwiceInv, ListedOnce
<1> QED
  BY <1>1, <1>2, TwiceInit, ScreenInvariant, PTL DEF Spec
=============================================================================

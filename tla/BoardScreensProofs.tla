------------------------- MODULE BoardScreensProofs -------------------------
(***************************************************************************)
(* The screens and the waiting callbacks, for every set of clients, jobs,  *)
(* applications and titles, every list of fields, every enumeration order  *)
(* of dictionaries and every bound.                                        *)
(***************************************************************************)
EXTENDS JobBoardProofs, FiniteSetTheorems

\* A list of any length is shown in some order of its rows.
RowsOrdered == \A n \in Nat : IsEnumeration(RowOrder[n], 1..n)

-----------------------------------------------------------------------------
(* The inductive invariant.                                                *)

VCType == [screen : Screen, list : Seq(Row)]

ReadType ==
    [kind : Kind, vc : Nat, row : Nat, email : Client \cup {Null},
     title : Title \cup {Null}, keys : SUBSET Job, over : BOOLEAN,
     shown : Job \cup {Null}, snap : Sync!DB \cup {NoSnap}]

ScreenTypeOK ==
    /\ stack \in [Client -> Seq(VCType)]
    /\ popover \in [Client -> [row : Nat, job : Job \cup {Null}]]
    /\ reads \in [Client -> Seq(ReadType)]
    /\ fault \in [Client -> {"none", "cast", "index"}]

\* The screen whose code asks for a read of this kind.
ScreenOf(kind) ==
    IF kind \in {"SetNewJobs", "ApplyToJob"} THEN "ExploreVC"
    ELSE IF kind \in {"SetMyPostedJobs", "RemoveJob"} THEN "PostedJobsVC"
    ELSE "ShowApplicantsVC"

\* A tree holds what was posted and requested: a title is the title its
\* CreateJob was given, an application is below the job it was made for.
TreeTrue(db, po, rq) ==
    \A j \in Job :
        /\ db[<<j, "title">>] /= Null =>
              po[j] /= Null /\ db[<<j, "title">>] = po[j].title
        /\ \A a \in App : db[<<j, a>>] /= Null =>
              rq[a] /= Null /\ rq[a].job = j /\ rq[a].by = db[<<j, a>>]

\* A put gives an application to its job, or takes it away for a reason.
PutTrue(w, po, rq, rem, dec) ==
    \A j \in Job : \A a \in App : <<j, a>> \in DOMAIN w =>
        \/ /\ w[<<j, a>>] /= Null
           /\ rq[a] /= Null /\ rq[a].job = j /\ rq[a].by = w[<<j, a>>]
        \/ /\ w[<<j, a>>] = Null
           /\ \/ j \in rem
              \/ rq[a] /= Null /\ rq[a].job /= j
              \/ rq[a] /= Null /\ po[j] /= Null /\ <<rq[a].by, po[j].title>> \in dec

Trees ==
    /\ TreeTrue(server, posted, request)
    /\ \A c \in Client : \A i \in 1..Len(puts[c]) :
          PutTrue(puts[c][i], posted, request, removed, declined)

\* A waiting callback belongs to a screen of its kind that is in the tower;
\* the row of a DeclineApplicant is still there; a RemoveApplication is on
\* behalf of a declined application; a snapshot is true.
Fits(stk, pop, dec, r) ==
    /\ r.vc \in 1..Len(stk) /\ stk[r.vc].screen = ScreenOf(r.kind)
    /\ r.over => pop /= NoPopover /\ r.vc = Len(stk)
    /\ r.kind = "DeclineApplicant" => r.row \in 1..Len(stk[r.vc].list)
    /\ r.kind \in {"RemoveApplication", "RemoveApplication2"} =>
          r.email \in Client /\ <<r.email, r.title>> \in dec

ReadFits(stk, pop, dec, po, rq, r) ==
    Fits(stk, pop, dec, r) /\ (r.snap /= NoSnap => TreeTrue(r.snap, po, rq))

\* The callbacks of a client all have their snapshot, or none has.
Uniform(q) == \A i, k \in 1..Len(q) : q[i].snap = NoSnap <=> q[k].snap = NoSnap

QueueFits(stk, pop, dec, po, rq, q) ==
    /\ Uniform(q)
    /\ \A i \in 1..Len(q) : ReadFits(stk, pop, dec, po, rq, q[i])

\* A row of ShowApplicantsVC has a sender, every row the title of a job.
RowFits(screen, row) ==
    /\ row.data["title"] \in Title \cup {Null}
    /\ screen = "ShowApplicantsVC" => row.email \in Client

TowerFits(stk, pop) ==
    /\ \A n \in 1..Len(stk) : \A i \in 1..Len(stk[n].list) :
          RowFits(stk[n].screen, stk[n].list[i])
    /\ pop /= NoPopover => pop.row \in Nat \ {0} /\ pop.job \in Job /\ stk /= <<>>

Screens ==
    /\ ScreenTypeOK
    /\ \A c \in Client :
          /\ TowerFits(stack[c], popover[c])
          /\ QueueFits(stack[c], popover[c], declined, posted, request, reads[c])

ScreenInv == Inv /\ Trees /\ Screens

-----------------------------------------------------------------------------
(* Enumerations, trees and what a client reads.                            *)

LEMMA EnumerationCount ==
    ASSUME NEW S, NEW q, IsEnumeration(q, S)
    PROVE  /\ Len(q) \in Nat /\ DOMAIN q = 1..Len(q) /\ \A i \in 1..Len(q) : q[i] \in S
           /\ IsFiniteSet(S) /\ Cardinality(S) = Len(q)
<1>1. q \in Seq(S) /\ Len(q) \in Nat /\ DOMAIN q = 1..Len(q)
  BY DEF IsEnumeration
<1>2. q \in [1..Len(q) -> S]
  BY <1>1
<1>3. q \in Bijection(1..Len(q), S)
  BY <1>1, <1>2 DEF IsEnumeration, Bijection, Injection, Surjection, IsInjective
<1>4. ExistsBijection(1..Len(q), S)
  BY <1>3 DEF ExistsBijection
<1>5. Cardinality(S) = Len(q)
  BY <1>1, <1>4, FS_CountingElements
<1>6. IsFiniteSet(S)
  BY <1>1, <1>4, FS_NatBijection
<1> QED
  BY <1>1, <1>2, <1>5, <1>6

\* A row number of a list selects a row of it.
LEMMA RowAtFacts ==
    ASSUME RowsOrdered, NEW list \in Seq(Row), NEW r \in 1..Len(list)
    PROVE  \E i \in 1..Len(list) : RowAt(list, r) = list[i]
<1> DEFINE n == Len(list)
           q == RowOrder[n]
<1>1. n \in Nat
  OBVIOUS
<1>2. IsEnumeration(q, 1..n)
  BY <1>1 DEF RowsOrdered
<1> HIDE DEF q
<1>3. Cardinality(1..n) = Len(q) /\ Len(q) \in Nat /\ \A i \in 1..Len(q) : q[i] \in 1..n
  BY <1>2, EnumerationCount
<1>4. Cardinality(1..n) = n
  <2> HIDE DEF n
  <2>1. 1 \in Int /\ n \in Int
    BY ONLY <1>1
  <2>2. Cardinality(1..n) = IF 1 > n THEN 0 ELSE n - 1 + 1
    BY ONLY <2>1, FS_Interval
  <2> QED
    BY ONLY <1>1, <2>2
<1>5. q[r] \in 1..n
  BY <1>3, <1>4
<1> QED
  BY <1>5 DEF RowAt, q

\* The numbers of S up to i.
UpTo(S, i) == {h \in S : h <= i}

\* The k-th smallest of a set of numbers exists.
LEMMA KthExists ==
    ASSUME NEW n \in Nat, NEW S, S \subseteq 1..n, NEW k \in 1..Cardinality(S)
    PROVE  \E i \in S : Cardinality(UpTo(S, i)) = k
<1> USE DEF UpTo
<1> DEFINE B(i) == {h \in S : h <= i}
           C(i) == Cardinality(B(i))
           T == {i \in 1..n : C(i) >= k}
<1>0. IsFiniteSet(S) /\ Cardinality(S) \in Nat
  <2>1. IsFiniteSet(1..n)
    BY FS_Interval
  <2> QED
    BY <2>1, FS_Subset, FS_CardinalityType
<1>1. \A i : IsFiniteSet(B(i)) /\ C(i) \in Nat
  <2>1. \A i : B(i) \subseteq S
    OBVIOUS
  <2> QED
    BY <1>0, <2>1, FS_Subset, FS_CardinalityType
<1>s. \A h \in S : h \in Int /\ 1 <= h /\ h <= n
  OBVIOUS
<1>k. k \in Int /\ 1 <= k /\ k <= Cardinality(S)
  BY <1>0
<1>2. n \in T
  <2>1. B(n) = S
    BY <1>s
  <2>3. S /= {}
    BY <1>k, <1>0, FS_EmptySet
  <2>4. n \in 1..n
    <3>1. PICK h \in S : TRUE
      BY <2>3
    <3> QED
      BY <1>s, <3>1
  <2> QED
    BY <1>k, <1>0, <2>1, <2>4
<1> HIDE DEF C
<1>t. T \subseteq Nat /\ \A i \in T : i \in 1..n /\ C(i) >= k
  OBVIOUS
<1>u. \A i \in 1..n : ~(C(i) >= k) \/ i \in T
  OBVIOUS
<1> HIDE DEF T
<1>3. PICK i \in T : \A h \in T : ~ (<<h, i>> \in OpToRel(<, Nat))
  BY <1>2, <1>t, NatLessThanWellFounded, WFMin
<1>4. \A h \in T : ~(h < i)
  BY <1>3, <1>t DEF OpToRel
<1>5. i \in Int /\ 1 <= i /\ i <= n /\ C(i) >= k
  BY <1>t
<1>e. \A h \in S : (h <= i <=> h = i \/ h <= i - 1) /\ (h <= i - 1 => h /= i)
  BY <1>s, <1>5
<1>6. C(i - 1) < k
  <2>1. CASE i = 1
    <3>0. \A h \in S : ~(h <= i - 1)
      BY <2>1, <1>s, <1>5
    <3>1. B(i - 1) = {}
      BY <3>0
    <3>2. C(i - 1) = 0
      BY <3>1, FS_EmptySet DEF C
    <3> QED
      BY <1>k, <3>2
  <2>2. CASE i /= 1
    <3>1. i - 1 \in 1..n /\ i - 1 < i
      BY <1>5, <2>2
    <3>2. ~(C(i - 1) >= k)
      BY <1>4, <1>u, <3>1
    <3>3. C(i - 1) \in Nat
      BY <1>1
    <3> QED
      BY <1>k, <3>2, <3>3
  <2> QED
    BY <2>1, <2>2
<1>c. C(i) \in Nat /\ C(i - 1) \in Nat
  BY <1>1
<1>7. i \in S /\ C(i) = C(i - 1) + 1
  <2>1. CASE i \notin S
    <3>1. B(i) = B(i - 1)
      BY <2>1, <1>e
    <3>2. C(i) = C(i - 1)
      BY <3>1 DEF C
    <3> QED
      BY <1>c, <1>k, <1>5, <1>6, <3>2
  <2>2. CASE i \in S
    <3>1. B(i) = B(i - 1) \cup {i}
      BY <2>2, <1>e
    <3>2. i \notin B(i - 1)
      BY <1>e
    <3>3. IsFiniteSet(B(i - 1))
      BY <1>1
    <3> HIDE DEF B
    <3>4. Cardinality(B(i - 1) \cup {i}) = Cardinality(B(i - 1)) + 1
      BY <3>2, <3>3, FS_AddElement
    <3> QED
      BY <2>2, <3>1, <3>4 DEF C
  <2> QED
    BY <2>1, <2>2
<1>8. C(i) = k
  BY <1>c, <1>k, <1>5, <1>6, <1>7
<1> QED
  BY <1>7, <1>8 DEF C

\* What a loop over a dictionary chooses.
LEMMA ChosenFacts ==
    ASSUME NEW T, NEW q \in Seq(T), NEW S
    PROVE  /\ Chosen(q, S) \in Seq(S \cap T)
           /\ \A i \in DOMAIN Chosen(q, S) : Chosen(q, S)[i] \in S \cap T
<1> DEFINE at == {i \in DOMAIN q : q[i] \in S}
           p  == Chosen(q, S)
           n  == Cardinality(at)
           pick(k) == CHOOSE i \in at : Cardinality({h \in at : h <= i}) = k
<1>1. at \subseteq 1..Len(q) /\ Len(q) \in Nat
  OBVIOUS
<1>2. n \in Nat
  <2>1. IsFiniteSet(1..Len(q))
    BY <1>1, FS_Interval
  <2> QED
    BY <1>1, <2>1, FS_Subset, FS_CardinalityType
<1>3. p = [k \in 1..n |-> q[pick(k)]]
  BY DEF Chosen
<1> HIDE DEF n, p
<1>4. ASSUME NEW k \in 1..n
      PROVE  q[pick(k)] \in S \cap T
  <2> HIDE DEF at
  <2>1. \E i \in at : Cardinality({h \in at : h <= i}) = k
    <3>1. k \in 1..Cardinality(at)
      BY DEF n
    <3>2. \E i \in at : Cardinality(UpTo(at, i)) = k
      BY ONLY <1>1, <3>1, KthExists
    <3> QED
      BY <3>2 DEF UpTo
  <2>2. pick(k) \in at
    BY <2>1
  <2> QED
    BY <2>2 DEF at
<1> HIDE DEF pick
<1>5. p \in [1..n -> S \cap T]
  BY <1>3, <1>4
<1>6. p \in Seq(S \cap T) /\ DOMAIN p = 1..n
  BY <1>2, <1>5
<1> QED
  BY <1>5, <1>6 DEF p

\* Its places in the list.
LEMMA ChosenPick ==
    ASSUME NEW T, NEW q \in Seq(T), NEW S
    PROVE  \E n \in Nat : \E pick :
              /\ DOMAIN Chosen(q, S) = 1..n
              /\ \A k \in 1..n : Chosen(q, S)[k] = q[pick[k]] /\ pick[k] \in DOMAIN q
              /\ \A k, l \in 1..n : pick[k] = pick[l] => k = l
<1> DEFINE at == {i \in DOMAIN q : q[i] \in S}
           p  == Chosen(q, S)
           n  == Cardinality(at)
           pk(k) == CHOOSE i \in at : Cardinality({h \in at : h <= i}) = k
           pick == [k \in 1..n |-> pk(k)]
<1>1. at \subseteq 1..Len(q) /\ Len(q) \in Nat
  OBVIOUS
<1>2. n \in Nat
  <2>1. IsFiniteSet(1..Len(q))
    BY <1>1, FS_Interval
  <2> QED
    BY <1>1, <2>1, FS_Subset, FS_CardinalityType
<1>3. p = [k \in 1..n |-> q[pk(k)]]
  BY DEF Chosen
<1> HIDE DEF n, p
<1>4. ASSUME NEW k \in 1..n
      PROVE  pk(k) \in at /\ Cardinality({h \in at : h <= pk(k)}) = k
  <2> HIDE DEF at
  <2>1. \E i \in at : Cardinality({h \in at : h <= i}) = k
    <3>1. k \in 1..Cardinality(at)
      BY DEF n
    <3>2. \E i \in at : Cardinality(UpTo(at, i)) = k
      BY ONLY <1>1, <3>1, KthExists
    <3> QED
      BY <3>2 DEF UpTo
  <2> QED
    BY <2>1
<1> HIDE DEF pk
<1>5. \A k \in 1..n : pick[k] = pk(k) /\ pk(k) \in DOMAIN q /\ p[k] = q[pick[k]]
  BY <1>3, <1>4
<1>6. \A k, l \in 1..n : pk(k) = pk(l) => k = l
  <2> HIDE DEF at
  <2> QED
    BY <1>4
<1>7. DOMAIN p = 1..n
  BY <1>3
<1> HIDE DEF pick, at
<1>8. /\ DOMAIN Chosen(q, S) = 1..n
      /\ \A k \in 1..n : Chosen(q, S)[k] = q[pick[k]] /\ pick[k] \in DOMAIN q
      /\ \A k, l \in 1..n : pick[k] = pick[l] => k = l
  BY <1>5, <1>6, <1>7 DEF p
<1> QED
  BY <1>2, <1>8

LEMMA PathFacts ==
    /\ "title" \in Field /\ "jobPoster" \in Field
    /\ \A j \in Job : /\ <<j, "title">> \in Path /\ <<j, "jobPoster">> \in Path
                      /\ \A a \in App : <<j, a>> \in Path
<1>1. 1 \in FieldNo /\ Len(FieldOrder) \in FieldNo
  BY FieldAssumption DEF FieldNo
<1>2. "title" \in Field /\ "jobPoster" \in Field
  BY <1>1, FieldAssumption DEF Field
<1> QED
  BY <1>2 DEF Path, Leaf

\* A client reads, at any path, an own put or the server's value.
LEMMA ViewAt ==
    ASSUME SharedTypeOK, NEW c \in Client
    PROVE  /\ Sync!View(server, puts[c]) \in Sync!DB
           /\ \A x \in Path :
                 \/ Sync!View(server, puts[c])[x] = server[x]
                 \/ \E i \in 1..Len(puts[c]) :
                       /\ x \in DOMAIN puts[c][i]
                       /\ Sync!View(server, puts[c])[x] = puts[c][i][x]
<1> DEFINE V == Sync!View(server, puts[c])
           W(x) == Sync!Writers(puts[c], x)
<1>0. /\ puts[c] \in Seq(JobWrite) /\ Len(puts[c]) \in Nat
      /\ DOMAIN puts[c] = 1..Len(puts[c])
      /\ server \in [Path -> Value \cup {Null}]
  BY TypeFacts
<1>1. V = [x \in Path |-> IF W(x) = {} THEN server[x] ELSE puts[c][Sync!Max(W(x))][x]]
  BY DEF Sync!View
<1>2. ASSUME NEW x \in Path, W(x) /= {}
      PROVE  Sync!Max(W(x)) \in 1..Len(puts[c]) /\ x \in DOMAIN puts[c][Sync!Max(W(x))]
  <2>1. W(x) \subseteq 1..Len(puts[c])
    BY <1>0 DEF Sync!Writers
  <2>2. Max(W(x)) \in W(x)
    BY <1>0, <1>2, <2>1, MaxExists
  <2>3. Sync!Max(W(x)) \in W(x)
    BY <2>2 DEF Max, Sync!Max
  <2> QED
    BY <2>1, <2>3 DEF Sync!Writers
<1> HIDE DEF W, V
<1>3. ASSUME NEW x \in Path
      PROVE  /\ V[x] \in Value \cup {Null}
             /\ \/ V[x] = server[x]
                \/ \E i \in 1..Len(puts[c]) : x \in DOMAIN puts[c][i] /\ V[x] = puts[c][i][x]
  <2>1. CASE W(x) = {}
    BY <1>0, <1>1, <2>1
  <2>2. CASE W(x) /= {}
    <3>1. PICK i \in 1..Len(puts[c]) : x \in DOMAIN puts[c][i] /\ V[x] = puts[c][i][x]
      BY <1>1, <1>2, <2>2
    <3>2. puts[c][i] \in JobWrite
      BY <1>0
    <3> QED
      BY <3>1, <3>2, WriteFacts
  <2> QED
    BY <2>1, <2>2
<1>4. V \in [Path -> Value \cup {Null}]
  BY <1>1, <1>3
<1> QED
  BY <1>3, <1>4 DEF V, Sync!DB

LEMMA TitleTrue ==
    ASSUME SharedTypeOK, NEW j \in Job, NEW v, v = Null \/ MayHold(v, j, "title")
    PROVE  v /= Null => posted[j] /= Null /\ v = posted[j].title
  BY DEF MayHold, FieldValue

\* What a client reads is true.
LEMMA ViewTrue ==
    ASSUME BoardInv, Trees, NEW c \in Client
    PROVE  TreeTrue(Sync!View(server, puts[c]), posted, request)
<1> DEFINE V == Sync!View(server, puts[c])
<1>0. SharedTypeOK /\ PutsMayHold /\ ServerMayHold /\ Len(puts[c]) \in Nat
  BY TypeFacts DEF BoardInv, FieldInv
<1> SUFFICES ASSUME NEW j \in Job
             PROVE  /\ V[<<j, "title">>] /= Null =>
                          posted[j] /= Null /\ V[<<j, "title">>] = posted[j].title
                    /\ \A a \in App : V[<<j, a>>] /= Null =>
                          /\ request[a] /= Null /\ request[a].job = j
                          /\ request[a].by = V[<<j, a>>]
  BY DEF TreeTrue
<1>1. V[<<j, "title">>] /= Null => posted[j] /= Null /\ V[<<j, "title">>] = posted[j].title
  <2>1. \/ V[<<j, "title">>] = server[<<j, "title">>]
        \/ \E i \in Nat : /\ Writes(c, i, j, "title")
                          /\ V[<<j, "title">>] = puts[c][i][<<j, "title">>]
    <3>1. \/ V[<<j, "title">>] = server[<<j, "title">>]
          \/ \E i \in 1..Len(puts[c]) : /\ <<j, "title">> \in DOMAIN puts[c][i]
                                        /\ V[<<j, "title">>] = puts[c][i][<<j, "title">>]
      BY <1>0, ViewAt, PathFacts
    <3>2. 1..Len(puts[c]) \subseteq Nat
      BY <1>0
    <3> HIDE DEF V
    <3> QED
      BY <3>1, <3>2 DEF Writes
  <2>2. V[<<j, "title">>] = Null \/ MayHold(V[<<j, "title">>], j, "title")
    BY <1>0, <2>1, PathFacts DEF PutsMayHold, ServerMayHold
  <2> QED
    BY <1>0, <2>2, TitleTrue
<1>2. ASSUME NEW a \in App, V[<<j, a>>] /= Null
      PROVE  request[a] /= Null /\ request[a].job = j /\ request[a].by = V[<<j, a>>]
  <2>1. \/ V[<<j, a>>] = server[<<j, a>>]
        \/ \E i \in 1..Len(puts[c]) : /\ <<j, a>> \in DOMAIN puts[c][i]
                                      /\ V[<<j, a>>] = puts[c][i][<<j, a>>]
    BY <1>0, ViewAt, PathFacts
  <2> HIDE DEF V
  <2>2. CASE V[<<j, a>>] = server[<<j, a>>]
    BY <1>2, <2>2 DEF Trees, TreeTrue
  <2>3. ASSUME NEW i \in 1..Len(puts[c]), <<j, a>> \in DOMAIN puts[c][i],
               V[<<j, a>>] = puts[c][i][<<j, a>>]
        PROVE  request[a] /= Null /\ request[a].job = j /\ request[a].by = V[<<j, a>>]
    <3>1. PutTrue(puts[c][i], posted, request, removed, declined)
      BY DEF Trees
    <3> QED
      BY <1>2, <2>3, <3>1 DEF PutTrue
  <2> QED
    BY <2>1, <2>2, <2>3
<1> QED
  BY <1>1, <1>2

\* The types of what a true tree holds.
LEMMA TrueTypes ==
    ASSUME SharedTypeOK, NEW db, TreeTrue(db, posted, request), NEW j \in Job
    PROVE  /\ db[<<j, "title">>] \in Title \cup {Null}
           /\ \A a \in App : db[<<j, a>>] \in Client \cup {Null}
<1>1. /\ posted[j] \in [title : Title, poster : Poster] \cup {Null}
      /\ \A a \in App : request[a] \in [job : Job, by : Client] \cup {Null}
  BY DEF SharedTypeOK
<1> QED
  BY <1>1 DEF TreeTrue

-----------------------------------------------------------------------------
(* Queues of callbacks.                                                    *)

\* r is s with its popover closed or with a snapshot of its own.
LEMMA ReadUpdates ==
    ASSUME NEW r \in ReadType, NEW v \in Sync!DB \cup {NoSnap}
    PROVE  /\ [r EXCEPT !.snap = v] \in ReadType
           /\ [r EXCEPT !.over = FALSE] \in ReadType
           /\ [r EXCEPT !.snap = v].snap = v
           /\ [r EXCEPT !.over = FALSE].snap = r.snap
  BY DEF ReadType

\* A snapshot exists only of a tree that has leaves.
LEMMA SnapsDiffer ==
    ASSUME NEW v \in Sync!DB, NEW w \in Sync!DB, v /= NoSnap
    PROVE  w /= NoSnap
<1>1. Path /= {}
  BY DEF Sync!DB, NoSnap
<1> QED
  BY <1>1 DEF Sync!DB, NoSnap

LEMMA QueueTail ==
    ASSUME NEW q \in Seq(ReadType), q /= <<>>, Uniform(q)
    PROVE  /\ Tail(q) \in Seq(ReadType) /\ Uniform(Tail(q)) /\ Len(Tail(q)) = Len(q) - 1
           /\ 1 \in 1..Len(q) /\ Head(q) = q[1] /\ Head(q) \in ReadType
           /\ \A i \in 1..Len(Tail(q)) : i + 1 \in 1..Len(q) /\ Tail(q)[i] = q[i + 1]
<1>1. /\ Tail(q) \in Seq(ReadType) /\ Len(Tail(q)) = Len(q) - 1 /\ Len(q) \in Nat \ {0}
      /\ \A i \in 1..Len(Tail(q)) : Tail(q)[i] = q[i + 1]
      /\ Head(q) = q[1] /\ Head(q) \in ReadType
  BY HeadTailProperties
<1>2. \A i \in 1..Len(Tail(q)) : i + 1 \in 1..Len(q) /\ Tail(q)[i] = q[i + 1]
  BY <1>1
<1>3. Uniform(Tail(q))
  BY <1>2 DEF Uniform
<1> QED
  BY <1>1, <1>2, <1>3

LEMMA QueueClosed ==
    ASSUME NEW q \in Seq(ReadType), Uniform(q)
    PROVE  /\ Closed(q) \in Seq(ReadType) /\ Uniform(Closed(q)) /\ Len(Closed(q)) = Len(q)
           /\ \A i \in 1..Len(q) : Closed(q)[i] = [q[i] EXCEPT !.over = FALSE]
<1>1. PICK n \in Nat : n = Len(q) /\ DOMAIN q = 1..n
  OBVIOUS
<1>2. \A i \in 1..n : q[i] \in ReadType
  BY <1>1
<1>3. \A i \in 1..n : /\ [q[i] EXCEPT !.over = FALSE] \in ReadType
                      /\ [q[i] EXCEPT !.over = FALSE].snap = q[i].snap
  BY <1>2 DEF ReadType
<1>4. Closed(q) = [i \in 1..n |-> [q[i] EXCEPT !.over = FALSE]]
  BY <1>1 DEF Closed
<1>5. Closed(q) \in [1..n -> ReadType]
  BY <1>3, <1>4
<1>6. Closed(q) \in Seq(ReadType) /\ Len(Closed(q)) = n
  BY <1>5
<1>7. \A i \in 1..n : Closed(q)[i] = [q[i] EXCEPT !.over = FALSE]
  BY <1>4
<1>8. Uniform(Closed(q))
  BY <1>1, <1>3, <1>6, <1>7 DEF Uniform
<1> QED
  BY <1>1, <1>6, <1>7, <1>8

\* All callbacks of q get the snapshot v.
Answered(q, v) == [i \in DOMAIN q |-> [q[i] EXCEPT !.snap = v]]

LEMMA QueueAnswered ==
    ASSUME NEW q \in Seq(ReadType), NEW v \in Sync!DB
    PROVE  /\ Answered(q, v) \in Seq(ReadType) /\ Uniform(Answered(q, v))
           /\ Len(Answered(q, v)) = Len(q)
           /\ \A i \in 1..Len(q) : Answered(q, v)[i] = [q[i] EXCEPT !.snap = v]
<1> DEFINE p == Answered(q, v)
<1>1. PICK n \in Nat : n = Len(q) /\ DOMAIN q = 1..n
  OBVIOUS
<1>2. \A i \in 1..n : q[i] \in ReadType
  BY <1>1
<1>3. \A i \in 1..n : [q[i] EXCEPT !.snap = v] \in ReadType /\ [q[i] EXCEPT !.snap = v].snap = v
  BY <1>2 DEF ReadType
<1>4. p = [i \in 1..n |-> [q[i] EXCEPT !.snap = v]]
  BY <1>1 DEF Answered
<1>5. p \in [1..n -> ReadType]
  BY <1>3, <1>4
<1>6. p \in Seq(ReadType) /\ Len(p) = n
  BY <1>5
<1>7. \A i \in 1..n : p[i] = [q[i] EXCEPT !.snap = v]
  BY <1>4
<1>8. Uniform(p)
  BY <1>3, <1>6, <1>7 DEF Uniform
<1> QED
  BY <1>1, <1>6, <1>7, <1>8

\* A new callback waits without a snapshot, or has one of the view.
Joined(o, q, p, v) ==
    \A i \in 1..Len(o) :
        \/ \E k \in 1..Len(q) : o[i] = q[k]
        \/ \E k \in 1..Len(p) : o[i] = p[k] \/ o[i] = [p[k] EXCEPT !.snap = v]

LEMMA QueueObserve ==
    ASSUME NEW q \in Seq(ReadType), Uniform(q), NEW p \in Seq(ReadType),
           \A i \in 1..Len(p) : p[i].snap = NoSnap, NEW v \in Sync!DB
    PROVE  /\ Observe(q, p, v) \in Seq(ReadType)
           /\ Uniform(Observe(q, p, v))
           /\ Joined(Observe(q, p, v), q, p, v)
<1> DEFINE a == Answered(p, v)
           answered == \E i \in DOMAIN q : q[i].snap /= NoSnap
           b == IF answered THEN a ELSE p
           o == Observe(q, p, v)
<1>3. o = q \o b
  BY DEF Observe, Answered
<1>1. /\ a \in Seq(ReadType) /\ Len(a) = Len(p)
      /\ \A i \in 1..Len(p) : a[i] = [p[i] EXCEPT !.snap = v]
  BY QueueAnswered
<1> HIDE DEF a, o
<1>2. \A i \in 1..Len(p) : a[i].snap = v
  <2>1. ASSUME NEW i \in 1..Len(p)
        PROVE  a[i].snap = v
    <3>1. p[i] \in ReadType
      OBVIOUS
    <3> QED
      BY <1>1, <3>1 DEF ReadType
  <2> QED
    BY <2>1
<1>4. b \in Seq(ReadType) /\ Len(b) = Len(p)
  BY <1>1
<1>5. \A i \in 1..Len(p) : b[i] = p[i] \/ b[i] = [p[i] EXCEPT !.snap = v]
  BY <1>1
<1>6. /\ o \in Seq(ReadType) /\ Len(o) = Len(q) + Len(b)
      /\ \A i \in 1..Len(o) : o[i] = IF i <= Len(q) THEN q[i] ELSE b[i - Len(q)]
  BY <1>3, <1>4, ConcatProperties
<1>7. \A i \in 1..Len(q) : q[i].snap /= NoSnap <=> answered
  BY DEF Uniform
<1>8. \A i \in 1..Len(p) : b[i].snap /= NoSnap <=> answered
  <2>1. CASE answered
    <3>1. PICK i \in 1..Len(q) : q[i].snap /= NoSnap
      BY <2>1
    <3>2. q[i] \in ReadType
      OBVIOUS
    <3>3. q[i].snap \in Sync!DB
      BY <3>1, <3>2 DEF ReadType
    <3>4. v /= NoSnap
      BY <3>1, <3>3, SnapsDiffer
    <3> QED
      BY <1>2, <2>1, <3>4
  <2>2. CASE ~answered
    BY <2>2
  <2> QED
    BY <2>1, <2>2
<1> HIDE DEF b, answered
<1>9. ASSUME NEW i \in 1..Len(o)
      PROVE  \/ i \in 1..Len(q) /\ o[i] = q[i]
             \/ i - Len(q) \in 1..Len(p) /\ o[i] = b[i - Len(q)]
  <2>1. Len(q) \in Nat /\ Len(p) \in Nat
    OBVIOUS
  <2> QED
    BY <1>4, <1>6, <2>1
<1>10. Uniform(o)
  <2>1. \A i \in 1..Len(o) : o[i].snap /= NoSnap <=> answered
    BY <1>7, <1>8, <1>9
  <2> QED
    BY <2>1 DEF Uniform
<1>11. ASSUME NEW i \in 1..Len(o)
       PROVE  \/ \E k \in 1..Len(q) : o[i] = q[k]
              \/ \E k \in 1..Len(p) : o[i] = p[k] \/ o[i] = [p[k] EXCEPT !.snap = v]
  BY <1>5, <1>9
<1>12. Joined(o, q, p, v)
  BY <1>11 DEF Joined
<1> QED
  BY <1>6, <1>10, <1>12 DEF o

-----------------------------------------------------------------------------
(* The trees.                                                              *)

\* What was posted, requested, removed or declined stays so.
GhostsGrow ==
    /\ \A j \in Job : posted[j] /= Null => posted'[j] = posted[j]
    /\ \A a \in App : request[a] /= Null => request'[a] = request[a]
    /\ removed \subseteq removed' /\ declined \subseteq declined'

LEMMA GrowNext ==
    ASSUME SharedTypeOK, [Next]_vars
    PROVE  GhostsGrow
<1>0. /\ posted \in [Job -> [title : Title, poster : Poster] \cup {Null}]
      /\ request \in [App -> [job : Job, by : Client] \cup {Null}]
  BY DEF SharedTypeOK
<1>1. CASE UNCHANGED ghostVars
  BY <1>1 DEF ghostVars, GhostsGrow
<1>2. CASE UNCHANGED <<posted, request>> /\ removed \subseteq removed'
           /\ declined \subseteq declined'
  BY <1>2 DEF GhostsGrow
<1>3. ASSUME NEW c \in Client, User(c)
      PROVE  GhostsGrow
  <2>1. CASE \E j \in Job, t \in Title : CreateJob(c, j, t)
    BY <1>0, <2>1 DEF CreateJob, GhostsGrow
  <2>2. CASE ~ \E j \in Job, t \in Title : CreateJob(c, j, t)
    BY <1>1, <1>3, <2>2 DEF User, Launch, Present, Select, Dismiss, TapApply, TapRemove,
                            TapDecline, Tap
  <2> QED
    BY <2>1, <2>2
<1>4. ASSUME NEW c \in Client, Callback(c)
      PROVE  GhostsGrow
  <2>1. CASE SetNewJobs(c) \/ SetMyPostedJobs(c) \/ SetApplicants(c)
             \/ RemoveApplication(c) \/ RemoveApplication2(c)
    BY <1>1, <2>1 DEF SetNewJobs, SetMyPostedJobs, SetApplicants, RemoveApplication,
                      RemoveApplication2
  <2>2. CASE RemoveJob(c)
    BY <1>2, <2>2 DEF RemoveJob
  <2>3. CASE DeclineApplicant(c)
    BY <1>2, <2>3 DEF DeclineApplicant
  <2>4. CASE ApplyToJob(c)
    <3>1. UNCHANGED <<posted, removed, declined>>
      BY <2>4 DEF ApplyToJob
    <3>2. \/ request' = request
          \/ \E a \in App : \E v : request[a] = Null /\ request' = [request EXCEPT ![a] = v]
      BY <2>4 DEF ApplyToJob
    <3> QED
      BY <1>0, <3>1, <3>2 DEF GhostsGrow
  <2> QED
    BY <1>4, <2>1, <2>2, <2>3, <2>4 DEF Callback
<1>5. ASSUME NEW c \in Client, Deliver(c) \/ Apply(c) \/ Ack(c) \/ Connect(c) \/ Disconnect(c)
                               \/ Kill(c)
      PROVE  GhostsGrow
  BY <1>2, <1>5 DEF Deliver, Apply, Ack, Connect, Disconnect, Kill, ghostVars
<1>6. CASE UNCHANGED vars
  BY <1>1, <1>6 DEF vars
<1> QED
  BY <1>3, <1>4, <1>5, <1>6 DEF Next

LEMMA TrueGrows ==
    ASSUME GhostsGrow
    PROVE  /\ \A db : TreeTrue(db, posted, request) => TreeTrue(db, posted', request')
           /\ \A w : PutTrue(w, posted, request, removed, declined)
                     => PutTrue(w, posted', request', removed', declined')
<1>1. ASSUME NEW db, TreeTrue(db, posted, request)
      PROVE  TreeTrue(db, posted', request')
  <2> SUFFICES ASSUME NEW j \in Job
               PROVE  /\ db[<<j, "title">>] /= Null =>
                            posted'[j] /= Null /\ db[<<j, "title">>] = posted'[j].title
                      /\ \A a \in App : db[<<j, a>>] /= Null =>
                            /\ request'[a] /= Null /\ request'[a].job = j
                            /\ request'[a].by = db[<<j, a>>]
    BY DEF TreeTrue
  <2>1. /\ db[<<j, "title">>] /= Null => posted[j] /= Null /\ db[<<j, "title">>] = posted[j].title
        /\ \A a \in App : db[<<j, a>>] /= Null =>
              request[a] /= Null /\ request[a].job = j /\ request[a].by = db[<<j, a>>]
    BY <1>1 DEF TreeTrue
  <2> QED
    BY <2>1 DEF GhostsGrow
<1>2. ASSUME NEW w, PutTrue(w, posted, request, removed, declined)
      PROVE  PutTrue(w, posted', request', removed', declined')
  <2> SUFFICES ASSUME NEW j \in Job, NEW a \in App, <<j, a>> \in DOMAIN w
               PROVE  \/ /\ w[<<j, a>>] /= Null
                         /\ request'[a] /= Null /\ request'[a].job = j
                         /\ request'[a].by = w[<<j, a>>]
                      \/ /\ w[<<j, a>>] = Null
                         /\ \/ j \in removed'
                            \/ request'[a] /= Null /\ request'[a].job /= j
                            \/ /\ request'[a] /= Null /\ posted'[j] /= Null
                               /\ <<request'[a].by, posted'[j].title>> \in declined'
    BY DEF PutTrue
  <2> DEFINE cell == w[<<j, a>>]
  <2>1. \/ /\ cell /= Null
           /\ request[a] /= Null /\ request[a].job = j /\ request[a].by = cell
        \/ /\ cell = Null
           /\ \/ j \in removed
              \/ request[a] /= Null /\ request[a].job /= j
              \/ /\ request[a] /= Null /\ posted[j] /= Null
                 /\ <<request[a].by, posted[j].title>> \in declined
    BY <1>2 DEF PutTrue
  <2>2. /\ request[a] /= Null => request'[a] = request[a]
        /\ posted[j] /= Null => posted'[j] = posted[j]
        /\ removed \subseteq removed' /\ declined \subseteq declined'
    BY DEF GhostsGrow
  <2> HIDE DEF cell
  <2>3. \/ /\ cell /= Null
           /\ request'[a] /= Null /\ request'[a].job = j /\ request'[a].by = cell
        \/ /\ cell = Null
           /\ \/ j \in removed'
              \/ request'[a] /= Null /\ request'[a].job /= j
              \/ /\ request'[a] /= Null /\ posted'[j] /= Null
                 /\ <<request'[a].by, posted'[j].title>> \in declined'
    BY ONLY <2>1, <2>2
  <2> QED
    BY ONLY <2>3 DEF cell
<1> QED
  BY <1>1, <1>2

\* What each issuing step adds is true.
LEMMA TreesIssue ==
    ASSUME SharedTypeOK, Trees, GhostsGrow, NEW c \in Client, NEW ws \in Seq(JobWrite),
           Sync!Issue(c, ws),
           \A i \in 1..Len(ws) : PutTrue(ws[i], posted', request', removed', declined')
    PROVE  Trees'
<1>1. PICK n \in Nat :
                 /\ n = Len(puts[c]) /\ Len(ws) \in Nat /\ Len(puts'[c]) = n + Len(ws)
                 /\ \A i \in 1..n : puts'[c][i] = puts[c][i]
                 /\ \A i \in 1..(n + Len(ws)) :
                       ~(i <= n) => i - n \in 1..Len(ws) /\ puts'[c][i] = ws[i - n]
  BY IssuedPuts
<1>2. server' = server /\ \A d \in Client \ {c} : puts'[d] = puts[d]
  BY IssuedPuts
<1>3. ASSUME NEW d \in Client, NEW i \in 1..Len(puts'[d])
      PROVE  PutTrue(puts'[d][i], posted', request', removed', declined')
  <2>1. CASE d = c
    <3>1. CASE i <= n
      <4>1. i \in 1..n
        BY <1>1, <2>1, <3>1
      <4> QED
        BY <1>1, <2>1, <4>1, TrueGrows DEF Trees
    <3>2. CASE ~(i <= n)
      BY <1>1, <2>1, <3>2
    <3> QED
      BY <3>1, <3>2
  <2>2. CASE d /= c
    BY <1>2, <2>2, TrueGrows DEF Trees
  <2> QED
    BY <2>1, <2>2
<1>4. TreeTrue(server', posted', request')
  BY <1>2, TrueGrows DEF Trees
<1> QED
  BY <1>3, <1>4 DEF Trees

\* A step that issues nothing.
LEMMA TreesStill ==
    ASSUME Trees, GhostsGrow, server' = server,
           \A d \in Client : \A i \in 1..Len(puts'[d]) :
              \E k \in 1..Len(puts[d]) : puts'[d][i] = puts[d][k]
    PROVE  Trees'
<1>1. TreeTrue(server', posted', request')
  BY TrueGrows DEF Trees
<1>2. ASSUME NEW d \in Client, NEW i \in 1..Len(puts'[d])
      PROVE  PutTrue(puts'[d][i], posted', request', removed', declined')
  <2>1. PICK k \in 1..Len(puts[d]) : puts'[d][i] = puts[d][k]
    OBVIOUS
  <2>2. PutTrue(puts[d][k], posted, request, removed, declined)
    BY DEF Trees
  <2> QED
    BY <2>1, <2>2, TrueGrows
<1> QED
  BY <1>1, <1>2 DEF Trees

LEMMA TreesApply ==
    ASSUME BoardInv, BoardInv', Trees, GhostsGrow, NEW c \in Client, Sync!ServerApply(c)
    PROVE  Trees'
<1>0. SharedTypeOK /\ SharedTypeOK' /\ ServerMayHold'
  BY DEF BoardInv, FieldInv
<1>n. PICK n \in Nat : n = applied[c] /\ n + 1 \in 1..Len(puts[c])
  BY <1>0, TypeFacts DEF Sync!ServerApply
<1>1. /\ puts' = puts
      /\ \A x \in Path : server'[x] = IF x \in DOMAIN puts[c][n + 1]
                                      THEN puts[c][n + 1][x] ELSE server[x]
  BY <1>n DEF Sync!ServerApply, Sync!ApplyWrite
<1>2. \A d \in Client : \A i \in 1..Len(puts'[d]) :
         PutTrue(puts'[d][i], posted', request', removed', declined')
  BY <1>1, TrueGrows DEF Trees
<1>3. PutTrue(puts[c][n + 1], posted', request', removed', declined')
      /\ TreeTrue(server, posted', request')
  BY <1>n, TrueGrows DEF Trees
<1>4. ASSUME NEW j \in Job
      PROVE  server'[<<j, "title">>] /= Null =>
                posted'[j] /= Null /\ server'[<<j, "title">>] = posted'[j].title
  BY <1>0, PathFacts DEF ServerMayHold, MayHold, FieldValue
<1>5. ASSUME NEW j \in Job, NEW a \in App, server'[<<j, a>>] /= Null
      PROVE  request'[a] /= Null /\ request'[a].job = j /\ request'[a].by = server'[<<j, a>>]
  <2>1. <<j, a>> \in Path
    BY PathFacts
  <2>2. CASE <<j, a>> \in DOMAIN puts[c][n + 1]
    <3>1. server'[<<j, a>>] = puts[c][n + 1][<<j, a>>]
      BY <1>1, <2>1, <2>2
    <3> QED
      BY <1>3, <1>5, <2>2, <3>1 DEF PutTrue
  <2>3. CASE <<j, a>> \notin DOMAIN puts[c][n + 1]
    <3>1. server'[<<j, a>>] = server[<<j, a>>]
      BY <1>1, <2>1, <2>3
    <3> QED
      BY <1>3, <1>5, <3>1 DEF TreeTrue
  <2> QED
    BY <2>2, <2>3
<1>6. TreeTrue(server', posted', request')
  BY <1>4, <1>5 DEF TreeTrue
<1> QED
  BY <1>2, <1>6 DEF Trees

\* What is known of the next callback to run.
LEMMA HeadFits ==
    ASSUME Screens, NEW c \in Client, reads[c] /= <<>>
    PROVE  /\ Head(reads[c]) \in ReadType
           /\ ReadFits(stack[c], popover[c], declined, posted, request, Head(reads[c]))
<1>1. reads[c] \in Seq(ReadType)
      /\ QueueFits(stack[c], popover[c], declined, posted, request, reads[c])
  BY DEF Screens, ScreenTypeOK
<1> HIDE DEF ReadType
<1>2. 1 \in 1..Len(reads[c]) /\ Head(reads[c]) = reads[c][1] /\ Head(reads[c]) \in ReadType
  BY <1>1, QueueTail DEF QueueFits
<1> QED
  BY <1>1, <1>2 DEF QueueFits

LEMMA TreesRemoval ==
    ASSUME ScreenInv, GhostsGrow, NEW c \in Client, RemoveApplication2(c)
    PROVE  Trees'
<1>0. SharedTypeOK /\ ReadsOK /\ Trees /\ Screens
  BY DEF ScreenInv, Inv, BoardInv
<1> DEFINE r == Head(reads[c])
<1>1. PICK ws \in Seq(JobWrite) :
              /\ Sync!Issue(c, ws)
              /\ \A i \in 1..Len(ws) : \E q \in Job \X App :
                    ws[i] = RemoveApplicationAt(q) /\ Found(Head(reads[c]), q[2])
  BY <1>0, RemovalWrites
<1>2. reads[c] /= <<>> /\ r.kind = "RemoveApplication2" /\ r.snap /= NoSnap
      /\ posted' = posted /\ request' = request /\ removed' = removed /\ declined' = declined
  BY DEF RemoveApplication2, Runs, ghostVars
<1>3. /\ r.email \in Client /\ <<r.email, r.title>> \in declined
      /\ TreeTrue(r.snap, posted, request)
  BY <1>0, <1>2, HeadFits DEF ReadFits, Fits
<1>4. r.email /= Null
  BY <1>3, ClientAssumption DEF Value
<1> HIDE DEF r
<1>5. ASSUME NEW a \in App, Found(r, a), NEW j \in Job
      PROVE  \/ request[a] /= Null /\ request[a].job /= j
             \/ request[a] /= Null /\ posted[j] /= Null
                /\ <<request[a].by, posted[j].title>> \in declined
  <2>1. PICK h \in Job : /\ r.snap[<<h, a>>] = r.email
                         /\ r.snap[<<h, "title">>] = r.title /\ r.title /= Null
    BY <1>5 DEF Found
  <2>2. request[a] /= Null /\ request[a].job = h /\ request[a].by = r.email
    BY <1>3, <1>4, <2>1 DEF TreeTrue
  <2>3. posted[h] /= Null /\ posted[h].title = r.title
    BY <1>3, <2>1 DEF TreeTrue
  <2> QED
    BY <1>3, <2>2, <2>3
<1>6. ASSUME NEW i \in 1..Len(ws)
      PROVE  PutTrue(ws[i], posted', request', removed', declined')
  <2>1. PICK q \in Job \X App : ws[i] = RemoveApplicationAt(q) /\ Found(r, q[2])
    BY <1>1 DEF r
  <2>2. DOMAIN ws[i] = {q} /\ ws[i][q] = Null
    BY <2>1 DEF RemoveApplicationAt
  <2>3. ASSUME NEW j \in Job, NEW a \in App, <<j, a>> \in DOMAIN ws[i]
        PROVE  /\ ws[i][<<j, a>>] = Null
               /\ \/ request[a] /= Null /\ request[a].job /= j
                  \/ request[a] /= Null /\ posted[j] /= Null
                     /\ <<request[a].by, posted[j].title>> \in declined
    <3>1. q = <<j, a>> /\ q[2] = a
      BY <2>2, <2>3
    <3> QED
      BY <1>5, <2>1, <2>2, <3>1
  <2> QED
    BY <1>2, <2>3 DEF PutTrue
<1> QED
  BY <1>0, <1>1, <1>6, TreesIssue

LEMMA JobPutsNoApp ==
    ASSUME NEW j \in Job, NEW t \in Title, NEW c \in Client
    PROVE  /\ JobPuts(j, t, c) \in Seq(JobWrite)
           /\ \A k \in 1..Len(JobPuts(j, t, c)) : \A h \in Job : \A a \in App :
                 <<h, a>> \notin DOMAIN JobPuts(j, t, c)[k]
<1> DEFINE ws == JobPuts(j, t, c)
<1>1. /\ ws \in Seq(JobWrite) /\ Len(ws) = Len(FieldOrder)
      /\ \A k \in FieldNo : /\ DOMAIN ws[k] = {<<j, FieldOrder[k]>>}
                            /\ ws[k][<<j, FieldOrder[k]>>] = FieldValue(t, c, FieldOrder[k])
  BY JobPutsFacts
<1> HIDE DEF ws
<1>2. \A k \in FieldNo : \A h \in Job : \A a \in App : <<h, a>> /= <<j, FieldOrder[k]>>
  BY FieldFacts, LeafFacts
<1>3. /\ ws \in Seq(JobWrite)
      /\ \A k \in 1..Len(ws) : \A h \in Job : \A a \in App : <<h, a>> \notin DOMAIN ws[k]
  <2>1. 1..Len(ws) = FieldNo
    BY <1>1 DEF FieldNo
  <2>2. ASSUME NEW k \in FieldNo, NEW h \in Job, NEW a \in App
        PROVE  <<h, a>> \notin DOMAIN ws[k]
    <3>1. DOMAIN ws[k] = {<<j, FieldOrder[k]>>} /\ <<h, a>> /= <<j, FieldOrder[k]>>
      BY <1>1, <1>2
    <3> QED
      BY <3>1
  <2> QED
    BY <1>1, <2>1, <2>2
<1> QED
  BY <1>3 DEF ws

LEMMA TreesNext ==
    ASSUME ScreenInv, Inv', [Next]_vars
    PROVE  Trees'
<1>0. BoardInv /\ BoardInv' /\ SharedTypeOK /\ Trees
  BY DEF ScreenInv, Inv, BoardInv
<1>g. GhostsGrow
  BY <1>0, GrowNext
<1>1. ASSUME UNCHANGED <<server, puts>>
      PROVE  Trees'
  BY <1>0, <1>1, <1>g, TreesStill
<1>2. CASE UNCHANGED vars
  BY <1>1, <1>2 DEF vars, syncVars
<1>3. ASSUME NEW c \in Client, User(c)
      PROVE  Trees'
  <2>1. ASSUME NEW j \in Job, NEW t \in Title, CreateJob(c, j, t)
        PROVE  Trees'
    <3>1. Sync!Issue(c, JobPuts(j, t, c))
      BY <2>1 DEF CreateJob
    <3>2. /\ JobPuts(j, t, c) \in Seq(JobWrite)
          /\ \A k \in 1..Len(JobPuts(j, t, c)) : \A h \in Job : \A a \in App :
                <<h, a>> \notin DOMAIN JobPuts(j, t, c)[k]
      BY JobPutsNoApp
    <3>4. \A k \in 1..Len(JobPuts(j, t, c)) :
             PutTrue(JobPuts(j, t, c)[k], posted', request', removed', declined')
      BY <3>2 DEF PutTrue
    <3> QED
      BY <1>0, <1>g, <3>1, <3>2, <3>4, TreesIssue
  <2>2. CASE ~ \E j \in Job, t \in Title : CreateJob(c, j, t)
    BY <1>1, <1>3, <2>2 DEF User, Launch, Present, Select, Dismiss, TapApply, TapRemove,
                            TapDecline, Tap, syncVars
  <2> QED
    BY <2>1, <2>2
<1>4. ASSUME NEW c \in Client, ApplyToJob(c)
      PROVE  Trees'
  <2>1. CASE UNCHANGED syncVars
    BY <1>1, <2>1 DEF syncVars
  <2>2. ASSUME NEW h \in Job, NEW a \in App, Sync!Issue(c, <<PutApplication(h, a, c)>>),
               request' = [request EXCEPT ![a] = [job |-> h, by |-> c]]
        PROVE  Trees'
    <3>1. /\ PutApplication(h, a, c) \in JobWrite /\ DOMAIN PutApplication(h, a, c) = {<<h, a>>}
          /\ PutApplication(h, a, c)[<<h, a>>] = c
      BY DEF JobWrite, PutApplication
    <3>2. PICK ws \in Seq(JobWrite) : /\ ws = <<PutApplication(h, a, c)>>
                                      /\ Len(ws) = 1 /\ ws[1] = PutApplication(h, a, c)
      BY <3>1, OneWrite
    <3>3. request'[a] = [job |-> h, by |-> c] /\ request'[a] /= Null /\ c /= Null
      <4>1. request \in [App -> [job : Job, by : Client] \cup {Null}]
        BY <1>0 DEF SharedTypeOK
      <4>2. request'[a] = [job |-> h, by |-> c]
        BY <2>2, <4>1
      <4> QED
        BY <4>2, ClientAssumption DEF Value
    <3>4. PutTrue(ws[1], posted', request', removed', declined')
      <4> SUFFICES ASSUME NEW j \in Job, NEW b \in App, <<j, b>> \in DOMAIN ws[1]
                   PROVE  /\ ws[1][<<j, b>>] /= Null /\ request'[b] /= Null
                          /\ request'[b].job = j /\ request'[b].by = ws[1][<<j, b>>]
        BY DEF PutTrue
      <4>1. j = h /\ b = a
        BY <3>1, <3>2
      <4> QED
        BY <3>1, <3>2, <3>3, <4>1
    <3>5. \A i \in 1..Len(ws) : PutTrue(ws[i], posted', request', removed', declined')
      BY <3>2, <3>4
    <3> QED
      BY <1>0, <1>g, <2>2, <3>2, <3>5, TreesIssue
  <2>3. \A k : k \in DOMAIN Enum(Keys(Head(reads[c]).snap)) =>
               Enum(Keys(Head(reads[c]).snap))[k] \in Job
    BY EnumFacts DEF Keys
  <2> QED
    BY <1>4, <2>1, <2>2, <2>3 DEF ApplyToJob
<1>5. ASSUME NEW c \in Client, RemoveJob(c)
      PROVE  Trees'
  <2>1. CASE UNCHANGED syncVars
    BY <1>1, <2>1 DEF syncVars
  <2>2. ASSUME NEW h \in Job, Sync!Issue(c, <<RemoveJobAt(h)>>), removed' = removed \cup {h}
        PROVE  Trees'
    <3>1. /\ RemoveJobAt(h) \in JobWrite /\ DOMAIN RemoveJobAt(h) = {h} \X Leaf
          /\ \A x \in DOMAIN RemoveJobAt(h) : RemoveJobAt(h)[x] = Null
      BY DEF JobWrite, RemoveJobAt
    <3>2. PICK ws \in Seq(JobWrite) : /\ ws = <<RemoveJobAt(h)>>
                                      /\ Len(ws) = 1 /\ ws[1] = RemoveJobAt(h)
      BY <3>1, OneWrite
    <3>3. \A i \in 1..Len(ws) : PutTrue(ws[i], posted', request', removed', declined')
      BY <2>2, <3>1, <3>2 DEF PutTrue
    <3> QED
      BY <1>0, <1>g, <2>2, <3>2, <3>3, TreesIssue
  <2>3. \A k : k \in DOMAIN Enum(Keys(Head(reads[c]).snap)) =>
               Enum(Keys(Head(reads[c]).snap))[k] \in Job
    BY EnumFacts DEF Keys
  <2> QED
    BY <1>5, <2>1, <2>2, <2>3 DEF RemoveJob
<1>6. ASSUME NEW c \in Client, Callback(c)
      PROVE  Trees'
  <2>1. CASE SetNewJobs(c) \/ SetMyPostedJobs(c) \/ SetApplicants(c)
    BY <1>1, <2>1 DEF SetNewJobs, SetMyPostedJobs, SetApplicants, syncVars
  <2>2. CASE DeclineApplicant(c) \/ RemoveApplication(c)
    BY <1>1, <2>2 DEF DeclineApplicant, RemoveApplication, syncVars
  <2>3. CASE RemoveApplication2(c)
    BY <1>g, <2>3, TreesRemoval
  <2> QED
    BY <1>4, <1>5, <1>6, <2>1, <2>2, <2>3 DEF Callback
<1>7. ASSUME NEW c \in Client, Apply(c)
      PROVE  Trees'
  BY <1>0, <1>g, <1>7, TreesApply DEF Apply
<1>8. ASSUME NEW c \in Client, Ack(c)
      PROVE  Trees'
  <2>1. Sync!AckPut(c) /\ puts[c] \in Seq(JobWrite) /\ puts[c] /= <<>> /\ server' = server
    BY <1>0, <1>8, TypeFacts DEF Ack, Sync!AckPut
  <2>2. /\ Len(Tail(puts[c])) = Len(puts[c]) - 1 /\ Len(puts[c]) \in Nat
        /\ \A i \in 1..Len(Tail(puts[c])) : Tail(puts[c])[i] = puts[c][i + 1]
    BY <2>1, HeadTailProperties
  <2>3. puts'[c] = Tail(puts[c]) /\ \A d \in Client \ {c} : puts'[d] = puts[d]
    BY <1>0, <2>1, TypeFacts DEF Sync!AckPut
  <2>4. \A i \in 1..Len(puts'[c]) : i + 1 \in 1..Len(puts[c]) /\ puts'[c][i] = puts[c][i + 1]
    BY <2>2, <2>3
  <2>5. \A d \in Client : \A i \in 1..Len(puts'[d]) :
           \E k \in 1..Len(puts[d]) : puts'[d][i] = puts[d][k]
    BY <2>3, <2>4
  <2> QED
    BY <1>0, <1>g, <2>1, <2>5, TreesStill
<1>9. ASSUME NEW c \in Client, Connect(c) \/ Disconnect(c) \/ Deliver(c)
      PROVE  Trees'
  BY <1>1, <1>9 DEF Connect, Disconnect, Deliver, Sync!RestoreState, Sync!OnDisconnect, syncVars
<1>10. ASSUME NEW c \in Client, Kill(c)
       PROVE  Trees'
  <2>1. server' = server /\ puts'[c] = <<>> /\ \A d \in Client \ {c} : puts'[d] = puts[d]
    BY <1>0, <1>10, TypeFacts DEF Kill, Sync!LosePuts
  <2>2. \A d \in Client : \A i \in 1..Len(puts'[d]) :
           \E k \in 1..Len(puts[d]) : puts'[d][i] = puts[d][k]
    BY <2>1
  <2> QED
    BY <1>0, <1>g, <2>1, <2>2, TreesStill
<1> QED
  BY <1>2, <1>3, <1>6, <1>7, <1>8, <1>9, <1>10 DEF Next

-----------------------------------------------------------------------------
(* The screens.                                                            *)

LEMMA ViewsTrue ==
    BoardInv /\ Trees =>
        \A c \in Client : /\ Sync!View(server, puts[c]) \in Sync!DB
                          /\ TreeTrue(Sync!View(server, puts[c]), posted, request)
  BY ViewAt, ViewTrue DEF BoardInv

LEMMA ViewsTrueNext ==
    (BoardInv /\ Trees =>
        \A c \in Client : /\ Sync!View(server, puts[c]) \in Sync!DB
                          /\ TreeTrue(Sync!View(server, puts[c]), posted, request))'
  BY ViewsTrue, PTL

\* A tower after a step: no level is taken away, and no row of
\* ShowApplicantsVC.
Grown(stk, stk2) ==
    /\ Len(stk) <= Len(stk2)
    /\ \A n \in 1..Len(stk) :
          /\ stk2[n].screen = stk[n].screen
          /\ stk[n].screen = "ShowApplicantsVC" => Len(stk[n].list) <= Len(stk2[n].list)

LEMMA GrownSame ==
    ASSUME NEW stk \in Seq(VCType)
    PROVE  Grown(stk, stk)
<1>1. \A n \in 1..Len(stk) : stk[n] \in VCType
  OBVIOUS
<1>2. \A n \in 1..Len(stk) : Len(stk[n].list) \in Nat
  BY <1>1 DEF VCType
<1> QED
  BY <1>2 DEF Grown

\* A callback that waited before still fits.
LEMMA KeptRead ==
    ASSUME GhostsGrow, NEW stk \in Seq(VCType), NEW stk2 \in Seq(VCType), Grown(stk, stk2),
           NEW pop, NEW pop2, NEW r, NEW r2,
           ReadFits(stk, pop, declined, posted, request, r),
           r2.vc = r.vc /\ r2.kind = r.kind /\ r2.row = r.row /\ r2.email = r.email
           /\ r2.title = r.title /\ r2.snap = r.snap,
           r2.over => r.over /\ pop2 = pop /\ Len(stk2) = Len(stk)
    PROVE  ReadFits(stk2, pop2, declined', posted', request', r2)
<1>1. /\ r.vc \in 1..Len(stk) /\ stk[r.vc].screen = ScreenOf(r.kind)
      /\ r.over => pop /= NoPopover /\ r.vc = Len(stk)
      /\ r.kind = "DeclineApplicant" => r.row \in 1..Len(stk[r.vc].list)
      /\ r.kind \in {"RemoveApplication", "RemoveApplication2"} =>
            r.email \in Client /\ <<r.email, r.title>> \in declined
  BY DEF ReadFits, Fits
<1>2. r.vc \in 1..Len(stk2) /\ stk2[r.vc].screen = ScreenOf(r.kind)
  BY <1>1 DEF Grown
<1>3. r.kind = "DeclineApplicant" => r.row \in 1..Len(stk2[r.vc].list)
  <2> SUFFICES ASSUME r.kind = "DeclineApplicant" PROVE r.row \in 1..Len(stk2[r.vc].list)
    OBVIOUS
  <2>1. stk[r.vc].screen = "ShowApplicantsVC"
    BY <1>1 DEF ScreenOf
  <2>2. Len(stk[r.vc].list) <= Len(stk2[r.vc].list)
    BY <1>1, <2>1 DEF Grown
  <2>3. stk[r.vc] \in VCType /\ stk2[r.vc] \in VCType
    BY <1>1, <1>2
  <2>4. Len(stk[r.vc].list) \in Nat /\ Len(stk2[r.vc].list) \in Nat
    <3>1. \A x \in VCType : Len(x.list) \in Nat
      BY DEF VCType
    <3> QED
      BY <2>3, <3>1
  <2> QED
    BY <1>1, <2>2, <2>4
<1>4. r.snap /= NoSnap => TreeTrue(r.snap, posted', request')
  BY TrueGrows DEF ReadFits
<1>5. declined \subseteq declined'
  BY DEF GhostsGrow
<1> QED
  BY <1>1, <1>2, <1>3, <1>4, <1>5 DEF ReadFits, Fits

\* The popover that requests belong to is still the same, if there is one.
SamePopover(stk, pop, stk2, pop2) ==
    pop = NoPopover \/ (pop2 = pop /\ Len(stk2) = Len(stk))

LEMMA KeptQueue ==
    ASSUME GhostsGrow, NEW stk \in Seq(VCType), NEW stk2 \in Seq(VCType), Grown(stk, stk2),
           NEW pop, NEW pop2, NEW q,
           QueueFits(stk, pop, declined, posted, request, q),
           SamePopover(stk, pop, stk2, pop2)
    PROVE  QueueFits(stk2, pop2, declined', posted', request', q)
<1>1. ASSUME NEW i \in 1..Len(q)
      PROVE  ReadFits(stk2, pop2, declined', posted', request', q[i])
  <2>1. ReadFits(stk, pop, declined, posted, request, q[i])
    BY DEF QueueFits
  <2>2. q[i].over => pop2 = pop /\ Len(stk2) = Len(stk)
    BY <2>1 DEF ReadFits, Fits, SamePopover
  <2> QED
    BY <2>1, <2>2, KeptRead
<1> QED
  BY <1>1 DEF QueueFits

LEMMA KeptClosed ==
    ASSUME GhostsGrow, NEW stk \in Seq(VCType), NEW stk2 \in Seq(VCType), Grown(stk, stk2),
           NEW pop, NEW pop2, NEW q \in Seq(ReadType),
           QueueFits(stk, pop, declined, posted, request, q)
    PROVE  /\ QueueFits(stk2, pop2, declined', posted', request', Closed(q))
           /\ Closed(q) \in Seq(ReadType)
<1>1. /\ Closed(q) \in Seq(ReadType) /\ Uniform(Closed(q)) /\ Len(Closed(q)) = Len(q)
      /\ \A i \in 1..Len(q) : Closed(q)[i] = [q[i] EXCEPT !.over = FALSE]
  BY QueueClosed DEF QueueFits
<1>2. ASSUME NEW i \in 1..Len(Closed(q))
      PROVE  ReadFits(stk2, pop2, declined', posted', request', Closed(q)[i])
  <2>0. i \in 1..Len(q) /\ q[i] \in ReadType /\ Closed(q)[i] = [q[i] EXCEPT !.over = FALSE]
    BY <1>1
  <2>1. ReadFits(stk, pop, declined, posted, request, q[i])
    BY <2>0 DEF QueueFits
  <2>2. PICK r2 : r2 = Closed(q)[i]
    OBVIOUS
  <2>3. /\ r2.vc = q[i].vc /\ r2.kind = q[i].kind /\ r2.row = q[i].row /\ r2.email = q[i].email
        /\ r2.title = q[i].title /\ r2.snap = q[i].snap /\ r2.over = FALSE
    BY <2>0, <2>2 DEF ReadType
  <2>4. ReadFits(stk2, pop2, declined', posted', request', r2)
    BY <2>1, <2>3, KeptRead
  <2> QED
    BY <2>2, <2>4
<1> QED
  BY <1>1, <1>2 DEF QueueFits

LEMMA TailFits ==
    ASSUME NEW stk, NEW pop, NEW dec, NEW po, NEW rq, NEW q \in Seq(ReadType), q /= <<>>,
           QueueFits(stk, pop, dec, po, rq, q)
    PROVE  Tail(q) \in Seq(ReadType) /\ QueueFits(stk, pop, dec, po, rq, Tail(q))
<1>1. /\ Tail(q) \in Seq(ReadType) /\ Uniform(Tail(q))
      /\ \A i \in 1..Len(Tail(q)) : i + 1 \in 1..Len(q) /\ Tail(q)[i] = q[i + 1]
  BY QueueTail DEF QueueFits
<1> QED
  BY <1>1 DEF QueueFits

\* New callbacks join the queue.
LEMMA ObserveFits ==
    ASSUME NEW stk, NEW pop, NEW dec, NEW po, NEW rq,
           NEW q \in Seq(ReadType), QueueFits(stk, pop, dec, po, rq, q),
           NEW p \in Seq(ReadType),
           \A i \in 1..Len(p) : p[i].snap = NoSnap /\ Fits(stk, pop, dec, p[i]),
           NEW v \in Sync!DB, TreeTrue(v, po, rq)
    PROVE  /\ Observe(q, p, v) \in Seq(ReadType)
           /\ QueueFits(stk, pop, dec, po, rq, Observe(q, p, v))
<1> DEFINE o == Observe(q, p, v)
<1>1. o \in Seq(ReadType) /\ Uniform(o) /\ Joined(o, q, p, v)
  <2>1. Uniform(q) /\ \A i \in 1..Len(p) : p[i].snap = NoSnap
    BY DEF QueueFits
  <2> QED
    BY <2>1, QueueObserve
<1> HIDE DEF o
<1>2. ASSUME NEW k \in 1..Len(p)
      PROVE  /\ ReadFits(stk, pop, dec, po, rq, p[k])
             /\ ReadFits(stk, pop, dec, po, rq, [p[k] EXCEPT !.snap = v])
  <2>1. p[k].snap = NoSnap /\ Fits(stk, pop, dec, p[k]) /\ p[k] \in ReadType
    OBVIOUS
  <2>2. PICK r : r = [p[k] EXCEPT !.snap = v]
    OBVIOUS
  <2>3. /\ r.vc = p[k].vc /\ r.kind = p[k].kind /\ r.row = p[k].row /\ r.email = p[k].email
        /\ r.title = p[k].title /\ r.snap = v /\ r.over = p[k].over
    BY <2>1, <2>2 DEF ReadType
  <2>4. Fits(stk, pop, dec, r)
    BY <2>1, <2>3 DEF Fits
  <2> QED
    BY <2>1, <2>2, <2>3, <2>4 DEF ReadFits
<1>3. \A i \in 1..Len(o) : ReadFits(stk, pop, dec, po, rq, o[i])
  BY <1>1, <1>2 DEF QueueFits, Joined
<1> QED
  BY <1>1, <1>3 DEF QueueFits, o

\* The server's answer reaches all callbacks.
LEMMA AnsweredFits ==
    ASSUME NEW stk, NEW pop, NEW dec, NEW po, NEW rq,
           NEW q \in Seq(ReadType), QueueFits(stk, pop, dec, po, rq, q),
           NEW v \in Sync!DB, TreeTrue(v, po, rq)
    PROVE  /\ Answered(q, v) \in Seq(ReadType)
           /\ QueueFits(stk, pop, dec, po, rq, Answered(q, v))
<1> DEFINE o == Answered(q, v)
<1>1. /\ o \in Seq(ReadType) /\ Uniform(o) /\ Len(o) = Len(q)
      /\ \A i \in 1..Len(q) : o[i] = [q[i] EXCEPT !.snap = v]
  BY QueueAnswered
<1> HIDE DEF o
<1>2. ASSUME NEW i \in 1..Len(o)
      PROVE  ReadFits(stk, pop, dec, po, rq, o[i])
  <2>1. Fits(stk, pop, dec, q[i]) /\ q[i] \in ReadType /\ o[i] = [q[i] EXCEPT !.snap = v]
    BY <1>1 DEF QueueFits, ReadFits
  <2>3. /\ o[i].vc = q[i].vc /\ o[i].kind = q[i].kind /\ o[i].row = q[i].row
        /\ o[i].email = q[i].email
        /\ o[i].title = q[i].title /\ o[i].snap = v /\ o[i].over = q[i].over
    BY <2>1 DEF ReadType
  <2>4. Fits(stk, pop, dec, o[i])
    BY <2>1, <2>3 DEF Fits
  <2> QED
    BY <2>3, <2>4 DEF ReadFits
<1> QED
  BY <1>1, <1>2 DEF QueueFits, o

\* A step of client c.
OnlyOf(c) ==
    /\ stack' = [stack EXCEPT ![c] = stack'[c]]
    /\ popover' = [popover EXCEPT ![c] = popover'[c]]
    /\ reads' = [reads EXCEPT ![c] = reads'[c]]
    /\ fault' = [fault EXCEPT ![c] = fault'[c]]

LEMMA FrameStep ==
    ASSUME Screens, GhostsGrow, NEW c \in Client, OnlyOf(c),
           stack'[c] \in Seq(VCType), popover'[c] \in [row : Nat, job : Job \cup {Null}],
           reads'[c] \in Seq(ReadType), fault'[c] \in {"none", "cast", "index"},
           TowerFits(stack'[c], popover'[c]),
           QueueFits(stack'[c], popover'[c], declined', posted', request', reads'[c])
    PROVE  Screens'
<1>1. ScreenTypeOK'
  BY DEF Screens, ScreenTypeOK, OnlyOf
<1>2. ASSUME NEW d \in Client
      PROVE  /\ TowerFits(stack'[d], popover'[d])
             /\ QueueFits(stack'[d], popover'[d], declined', posted', request', reads'[d])
  <2>1. CASE d = c
    BY <2>1
  <2>2. CASE d /= c
    <3>1. stack'[d] = stack[d] /\ popover'[d] = popover[d] /\ reads'[d] = reads[d]
          /\ stack[d] \in Seq(VCType)
      BY <2>2 DEF Screens, ScreenTypeOK, OnlyOf
    <3>2. /\ TowerFits(stack[d], popover[d])
          /\ QueueFits(stack[d], popover[d], declined, posted, request, reads[d])
      BY DEF Screens
    <3>3. Grown(stack[d], stack[d])
      BY <3>1, GrownSame
    <3>4. SamePopover(stack[d], popover[d], stack[d], popover[d])
      BY DEF SamePopover
    <3>5. QueueFits(stack[d], popover[d], declined', posted', request', reads[d])
      BY <3>1, <3>2, <3>3, <3>4, KeptQueue
    <3> QED
      BY <3>1, <3>2, <3>5
  <2> QED
    BY <2>1, <2>2
<1> QED
  BY <1>1, <1>2 DEF Screens

LEMMA SeqMono ==
    ASSUME NEW S, NEW T, S \subseteq T, NEW q \in Seq(S)
    PROVE  q \in Seq(T)
  OBVIOUS

\* What is known of client c.
LEMMA ClientFacts ==
    ASSUME Screens, NEW c \in Client
    PROVE  /\ stack[c] \in Seq(VCType) /\ Len(stack[c]) \in Nat
           /\ popover[c] \in [row : Nat, job : Job \cup {Null}]
           /\ reads[c] \in Seq(ReadType) /\ fault[c] \in {"none", "cast", "index"}
           /\ TowerFits(stack[c], popover[c])
           /\ QueueFits(stack[c], popover[c], declined, posted, request, reads[c])
  BY DEF Screens, ScreenTypeOK

LEMMA OneRead ==
    ASSUME NEW r \in ReadType
    PROVE  <<r>> \in Seq(ReadType) /\ Len(<<r>>) = 1 /\ <<r>>[1] = r
  OBVIOUS

LEMMA NewRead ==
    ASSUME NEW kind \in Kind, NEW vc \in Nat
    PROVE  /\ Read(kind, vc) \in ReadType
           /\ Read(kind, vc).kind = kind /\ Read(kind, vc).vc = vc
           /\ Read(kind, vc).over = FALSE /\ Read(kind, vc).snap = NoSnap
  BY DEF Read, ReadType

\* The list of a level of a tower is replaced.
WithList(stk, n, list) == [stk EXCEPT ![n].list = list]

LEMMA TowerUpdate ==
    ASSUME NEW stk \in Seq(VCType), NEW n \in 1..Len(stk), NEW list \in Seq(Row)
    PROVE  /\ WithList(stk, n, list) \in Seq(VCType)
           /\ Len(WithList(stk, n, list)) = Len(stk)
           /\ WithList(stk, n, list)[n].screen = stk[n].screen
           /\ WithList(stk, n, list)[n].list = list
           /\ \A m \in 1..Len(stk) : m /= n => WithList(stk, n, list)[m] = stk[m]
<1> DEFINE stk2 == WithList(stk, n, list)
<1>1. PICK k \in Nat : k = Len(stk) /\ DOMAIN stk = 1..k
  OBVIOUS
<1>2. stk \in [1..k -> VCType] /\ n \in 1..k
  BY <1>1
<1>3. stk2 \in [1..k -> VCType]
  BY <1>2 DEF VCType, WithList
<1>5. stk2[n].screen = stk[n].screen /\ stk2[n].list = list
  BY <1>2 DEF VCType, WithList
<1>6. \A m \in 1..k : m /= n => stk2[m] = stk[m]
  BY <1>2 DEF WithList
<1> HIDE DEF stk2
<1>4. stk2 \in Seq(VCType) /\ Len(stk2) = k
  BY <1>3
<1> QED
  BY <1>1, <1>4, <1>5, <1>6 DEF stk2

LEMMA TowerAppend ==
    ASSUME NEW stk \in Seq(VCType), NEW x \in VCType
    PROVE  /\ Append(stk, x) \in Seq(VCType) /\ Len(Append(stk, x)) = Len(stk) + 1
           /\ Append(stk, x)[Len(stk) + 1] = x
           /\ \A m \in 1..Len(stk) : Append(stk, x)[m] = stk[m]
  BY AppendProperties

\* Launch and Present.
LEMMA PushStep ==
    ASSUME BoardInv, Trees, Screens, GhostsGrow, NEW c \in Client, NEW screen \in Screen,
           Push(c, screen), popover[c] = NoPopover,
           popover' = popover, fault' = fault
    PROVE  Screens'
<1> DEFINE stk == stack[c]
           stk2 == Append(stk, VC(screen))
           p == LoadOf(screen, Len(stk) + 1)
           v == Sync!View(server, puts[c])
<1>0. /\ stk \in Seq(VCType) /\ Len(stk) \in Nat
      /\ popover[c] \in [row : Nat, job : Job \cup {Null}]
      /\ reads[c] \in Seq(ReadType) /\ fault[c] \in {"none", "cast", "index"}
      /\ TowerFits(stk, popover[c])
      /\ QueueFits(stk, popover[c], declined, posted, request, reads[c])
  BY ClientFacts
<1>1. /\ stack' = [stack EXCEPT ![c] = stk2]
      /\ reads' = [reads EXCEPT ![c] = Observe(reads[c], p, v)]
  BY DEF Push, Level
<1>2. v \in Sync!DB /\ TreeTrue(v, posted', request')
  BY ViewsTrue, TrueGrows
<1>3. VC(screen) \in VCType /\ VC(screen).screen = screen /\ VC(screen).list = <<>>
  BY DEF VC, VCType
<1> HIDE DEF v, stk, stk2
<1>4. /\ stk2 \in Seq(VCType) /\ Len(stk2) = Len(stk) + 1 /\ stk2[Len(stk) + 1] = VC(screen)
      /\ \A m \in 1..Len(stk) : stk2[m] = stk[m]
  BY <1>0, <1>3, TowerAppend DEF stk2
<1>5. Grown(stk, stk2)
  <2>1. Grown(stk, stk)
    BY <1>0, GrownSame
  <2> QED
    BY <1>0, <1>4, <2>1 DEF Grown
<1>6. TowerFits(stk2, popover[c])
  <2> SUFFICES ASSUME NEW n \in 1..Len(stk2), NEW i \in 1..Len(stk2[n].list)
               PROVE  RowFits(stk2[n].screen, stk2[n].list[i])
    BY DEF TowerFits
  <2>1. CASE n \in 1..Len(stk)
    BY <1>0, <1>4, <2>1 DEF TowerFits
  <2>2. CASE n \notin 1..Len(stk)
    <3>1. n = Len(stk) + 1
      BY <1>0, <1>4, <2>2
    <3>2. stk2[n].list = <<>>
      BY <1>3, <1>4, <3>1
    <3> QED
      BY <3>2
  <2> QED
    BY <2>1, <2>2
<1>7. QueueFits(stk2, popover[c], declined', posted', request', reads[c])
  <2>1. stk \in Seq(VCType) /\ stk2 \in Seq(VCType)
    BY <1>0, <1>4
  <2>2. QueueFits(stk, popover[c], declined, posted, request, reads[c])
    BY <1>0
  <2>3. SamePopover(stk, popover[c], stk2, popover[c])
    BY DEF SamePopover
  <2> QED
    BY <1>5, <2>1, <2>2, <2>3, KeptQueue
<1>8. p \in Seq(ReadType)
      /\ \A i \in 1..Len(p) : p[i].snap = NoSnap /\ Fits(stk2, popover[c], declined', p[i])
  <2>0. Len(stk) + 1 \in 1..Len(stk2) /\ Len(stk) + 1 \in Nat
    BY <1>0, <1>4
  <2>1. ASSUME NEW kind \in {"SetNewJobs", "SetMyPostedJobs", "SetApplicants"},
               p = <<Read(kind, Len(stk) + 1)>>, ScreenOf(kind) = screen
        PROVE  p \in Seq(ReadType)
               /\ \A i \in 1..Len(p) : p[i].snap = NoSnap /\ Fits(stk2, popover[c], declined', p[i])
    <3>1. kind \in Kind
      BY DEF Kind
    <3>2. PICK r \in ReadType : /\ r = Read(kind, Len(stk) + 1) /\ r.kind = kind
                                /\ r.vc = Len(stk) + 1 /\ r.over = FALSE /\ r.snap = NoSnap
      BY <2>0, <3>1, NewRead
    <3>3. p \in Seq(ReadType) /\ Len(p) = 1 /\ p[1] = r
      BY <2>1, <3>2, OneRead
    <3>4. stk2[r.vc].screen = ScreenOf(r.kind)
      BY <1>3, <1>4, <2>1, <3>2
    <3>5. Fits(stk2, popover[c], declined', r)
      BY <2>0, <3>2, <3>4 DEF Fits
    <3> QED
      BY <3>2, <3>3, <3>5
  <2>2. CASE screen = "CreateJobVC"
    BY <2>2 DEF LoadOf
  <2>3. CASE screen = "ExploreVC"
    BY <2>1, <2>3 DEF LoadOf, ScreenOf
  <2>4. CASE screen = "PostedJobsVC"
    BY <2>1, <2>4 DEF LoadOf, ScreenOf
  <2>5. CASE screen = "ShowApplicantsVC"
    BY <2>1, <2>5 DEF LoadOf, ScreenOf
  <2> QED
    BY <2>2, <2>3, <2>4, <2>5 DEF Screen
<1> HIDE DEF p
<1>9. /\ Observe(reads[c], p, v) \in Seq(ReadType)
      /\ QueueFits(stk2, popover[c], declined', posted', request', Observe(reads[c], p, v))
  BY <1>0, <1>2, <1>7, <1>8, ObserveFits
<1>10. stack'[c] = stk2 /\ reads'[c] = Observe(reads[c], p, v) /\ popover'[c] = popover[c]
       /\ fault'[c] = fault[c] /\ OnlyOf(c)
  BY <1>1 DEF Screens, ScreenTypeOK, OnlyOf
<1> QED
  BY <1>0, <1>4, <1>6, <1>9, <1>10, FrameStep

\* The callbacks of client c go on fitting, with or without the first one.
LEMMA QueueHere ==
    ASSUME Screens, GhostsGrow, NEW c \in Client
    PROVE  /\ QueueFits(stack[c], popover[c], declined', posted', request', reads[c])
           /\ reads[c] /= <<>> =>
                 /\ Tail(reads[c]) \in Seq(ReadType)
                 /\ QueueFits(stack[c], popover[c], declined, posted, request, Tail(reads[c]))
                 /\ QueueFits(stack[c], popover[c], declined', posted', request', Tail(reads[c]))
<1>0. /\ stack[c] \in Seq(VCType) /\ reads[c] \in Seq(ReadType)
      /\ QueueFits(stack[c], popover[c], declined, posted, request, reads[c])
  BY ClientFacts
<1>1. Grown(stack[c], stack[c]) /\ SamePopover(stack[c], popover[c], stack[c], popover[c])
  BY <1>0, GrownSame DEF SamePopover
<1>2. QueueFits(stack[c], popover[c], declined', posted', request', reads[c])
  BY <1>0, <1>1, KeptQueue
<1>3. ASSUME reads[c] /= <<>>
      PROVE  /\ Tail(reads[c]) \in Seq(ReadType)
             /\ QueueFits(stack[c], popover[c], declined, posted, request, Tail(reads[c]))
             /\ QueueFits(stack[c], popover[c], declined', posted', request', Tail(reads[c]))
  <2>1. /\ Tail(reads[c]) \in Seq(ReadType)
        /\ QueueFits(stack[c], popover[c], declined, posted, request, Tail(reads[c]))
    BY <1>0, <1>3, TailFits
  <2>2. QueueFits(stack[c], popover[c], declined', posted', request', Tail(reads[c]))
    BY <1>0, <1>1, <2>1, KeptQueue
  <2> QED
    BY <2>1, <2>2
<1> QED
  BY <1>2, <1>3

\* A step that changes only the queue of c, or raises a fault.
LEMMA QueueStep ==
    ASSUME Screens, GhostsGrow, NEW c \in Client, NEW q \in Seq(ReadType),
           NEW f \in {"none", "cast", "index"},
           stack' = stack, popover' = popover,
           reads' = [reads EXCEPT ![c] = q], fault' = [fault EXCEPT ![c] = f],
           QueueFits(stack[c], popover[c], declined', posted', request', q)
    PROVE  Screens'
<1>1. /\ stack'[c] = stack[c] /\ popover'[c] = popover[c] /\ reads'[c] = q /\ fault'[c] = f
      /\ OnlyOf(c)
  BY DEF Screens, ScreenTypeOK, OnlyOf
<1>2. /\ stack[c] \in Seq(VCType) /\ popover[c] \in [row : Nat, job : Job \cup {Null}]
      /\ TowerFits(stack[c], popover[c])
  BY ClientFacts
<1> QED
  BY <1>1, <1>2, FrameStep

LEMMA SameFault ==
    ASSUME Screens, NEW c \in Client
    PROVE  fault = [fault EXCEPT ![c] = fault[c]] /\ fault[c] \in {"none", "cast", "index"}
  BY DEF Screens, ScreenTypeOK

\* The callback runs and leaves the screens alone.
LEMMA DoneStep ==
    ASSUME Screens, GhostsGrow, NEW c \in Client, reads[c] /= <<>>,
           NEW f \in {"none", "cast", "index"},
           stack' = stack, popover' = popover, Done(c), fault' = [fault EXCEPT ![c] = f]
    PROVE  Screens'
<1>1. reads' = [reads EXCEPT ![c] = Tail(reads[c])]
  BY DEF Done
<1>2. /\ Tail(reads[c]) \in Seq(ReadType)
      /\ QueueFits(stack[c], popover[c], declined', posted', request', Tail(reads[c]))
  BY QueueHere
<1> QED
  BY <1>1, <1>2, QueueStep

LEMMA TrapStep ==
    ASSUME Screens, GhostsGrow, NEW c \in Client, reads[c] /= <<>>,
           NEW f \in {"cast", "index"}, Trap(c, f)
    PROVE  Screens'
<1>1. stack' = stack /\ popover' = popover /\ Done(c) /\ fault' = [fault EXCEPT ![c] = f]
  BY DEF Trap
<1> QED
  BY <1>1, DoneStep

LEMMA TapStep ==
    ASSUME BoardInv, Trees, Screens, GhostsGrow, NEW c \in Client, NEW r \in ReadType,
           Tap(c, r), r.snap = NoSnap, Fits(stack[c], popover[c], declined', r)
    PROVE  Screens'
<1> DEFINE v == Sync!View(server, puts[c])
           q == Observe(reads[c], <<r>>, v)
<1>1. /\ stack' = stack /\ popover' = popover /\ fault' = fault
      /\ reads' = [reads EXCEPT ![c] = q]
  BY DEF Tap
<1>2. v \in Sync!DB /\ TreeTrue(v, posted', request')
  BY ViewsTrue, TrueGrows
<1> HIDE DEF v
<1>3. /\ <<r>> \in Seq(ReadType)
      /\ \A i \in 1..Len(<<r>>) : /\ <<r>>[i].snap = NoSnap
                                  /\ Fits(stack[c], popover[c], declined', <<r>>[i])
  BY OneRead
<1>4. QueueFits(stack[c], popover[c], declined', posted', request', reads[c])
      /\ reads[c] \in Seq(ReadType)
  BY QueueHere, ClientFacts
<1>5. q \in Seq(ReadType) /\ QueueFits(stack[c], popover[c], declined', posted', request', q)
  BY <1>2, <1>3, <1>4, ObserveFits
<1> HIDE DEF q
<1> QED
  BY <1>1, <1>5, SameFault, QueueStep

\* The buttons of the popovers.
LEMMA PopoverReadFits ==
    ASSUME Screens, NEW c \in Client, NEW kind \in {"ApplyToJob", "RemoveJob"}, NEW dec,
           Running(c), popover[c] /= NoPopover, Visible(c).screen = ScreenOf(kind)
    PROVE  /\ PopoverRead(c, kind) \in ReadType
           /\ PopoverRead(c, kind).snap = NoSnap
           /\ Fits(stack[c], popover[c], dec, PopoverRead(c, kind))
<1>1. stack[c] \in Seq(VCType) /\ stack[c] /= <<>> /\ Len(stack[c]) \in Nat
      /\ popover[c] \in [row : Nat, job : Job \cup {Null}]
  BY ClientFacts DEF Running
<1>2. Len(stack[c]) \in 1..Len(stack[c])
  BY <1>1
<1>3. /\ PopoverRead(c, kind) \in ReadType
      /\ PopoverRead(c, kind).snap = NoSnap /\ PopoverRead(c, kind).vc = Len(stack[c])
      /\ PopoverRead(c, kind).kind = kind
  BY <1>1 DEF PopoverRead, Read, ReadType, Level, Kind
<1>4. stack[c][Len(stack[c])].screen = ScreenOf(kind)
  BY DEF Visible, Level
<1> QED
  BY <1>2, <1>3, <1>4 DEF Fits

LEMMA TapDeclineStep ==
    ASSUME BoardInv, Trees, Screens, GhostsGrow, NEW c \in Client, NEW r, TapDecline(c, r)
    PROVE  Screens'
<1> DEFINE n == Len(stack[c])
           x == [Read("DeclineApplicant", Level(c)) EXCEPT !.row = r]
<1>1. /\ Running(c) /\ stack[c][n].screen = "ShowApplicantsVC"
      /\ r \in DOMAIN stack[c][n].list /\ Tap(c, x)
  BY DEF TapDecline, Active, Visible, Level
<1>2. stack[c] \in Seq(VCType) /\ stack[c] /= <<>> /\ n \in Nat
  BY <1>1, ClientFacts DEF Running
<1>3. n \in 1..n /\ stack[c][n] \in VCType
  BY <1>2
<1>4. r \in Nat /\ r \in 1..Len(stack[c][n].list)
  BY <1>1, <1>3 DEF VCType
<1>5. /\ x \in ReadType /\ x.vc = n /\ x.kind = "DeclineApplicant" /\ x.row = r
      /\ x.over = FALSE /\ x.snap = NoSnap
  BY <1>2, <1>4 DEF Read, ReadType, Kind, Level
<1> HIDE DEF x
<1>6. Fits(stack[c], popover[c], declined', x)
  BY <1>1, <1>3, <1>4, <1>5 DEF Fits, ScreenOf
<1> QED
  BY <1>1, <1>5, <1>6, TapStep

LEMMA DeliverStep ==
    ASSUME BoardInv, Trees, Screens, GhostsGrow, NEW c \in Client, Deliver(c)
    PROVE  Screens'
<1> DEFINE v == Sync!View(server, puts[c])
<1>1. /\ stack' = stack /\ popover' = popover /\ fault' = fault
      /\ reads' = [reads EXCEPT ![c] = Answered(reads[c], v)]
  BY DEF Deliver, Answered
<1>2. v \in Sync!DB /\ TreeTrue(v, posted', request')
  BY ViewsTrue, TrueGrows
<1>3. QueueFits(stack[c], popover[c], declined', posted', request', reads[c])
      /\ reads[c] \in Seq(ReadType)
  BY QueueHere, ClientFacts
<1> HIDE DEF v
<1>4. /\ Answered(reads[c], v) \in Seq(ReadType)
      /\ QueueFits(stack[c], popover[c], declined', posted', request', Answered(reads[c], v))
  BY <1>2, <1>3, AnsweredFits
<1> QED
  BY <1>1, <1>4, SameFault, QueueStep

\* The popover comes or goes.
LEMMA SelectStep ==
    ASSUME RowsOrdered, Screens, GhostsGrow, NEW c \in Client, NEW r, Select(c, r)
    PROVE  Screens'
<1> DEFINE n == Len(stack[c])
           row == RowAt(stack[c][n].list, r)
<1>1. /\ stack[c] /= <<>> /\ popover[c] = NoPopover /\ r \in DOMAIN stack[c][n].list
      /\ stack' = stack /\ reads' = reads
      /\ \/ popover' = [popover EXCEPT ![c] = [row |-> r, job |-> row.job]] /\ fault' = fault
         \/ fault' = [fault EXCEPT ![c] = "cast"] /\ popover' = popover
  BY DEF Select, Active, Running, Visible, Level
<1>2. /\ stack[c] \in Seq(VCType) /\ n \in Nat /\ reads[c] \in Seq(ReadType)
      /\ TowerFits(stack[c], popover[c])
      /\ QueueFits(stack[c], popover[c], declined, posted, request, reads[c])
  BY ClientFacts
<1>q. QueueFits(stack[c], popover[c], declined', posted', request', reads[c])
  BY QueueHere
<1>3. n \in 1..n /\ stack[c][n] \in VCType
  BY <1>1, <1>2
<1>4. stack[c][n].list \in Seq(Row) /\ r \in 1..Len(stack[c][n].list) /\ r \in Nat \ {0}
  BY <1>1, <1>3 DEF VCType
<1>5. \E i \in 1..Len(stack[c][n].list) : row = stack[c][n].list[i]
  BY <1>4, RowAtFacts
<1>6. row.job \in Job
  <2>1. row \in Row
    BY <1>4, <1>5
  <2> QED
    BY <2>1 DEF Row
<1> HIDE DEF row
<1>7. CASE popover' = [popover EXCEPT ![c] = [row |-> r, job |-> row.job]] /\ fault' = fault
  <2> DEFINE pop == [row |-> r, job |-> row.job]
  <2>1. /\ stack'[c] = stack[c] /\ popover'[c] = pop /\ reads'[c] = reads[c]
        /\ fault'[c] = fault[c] /\ OnlyOf(c)
    BY <1>1, <1>7 DEF Screens, ScreenTypeOK, OnlyOf
  <2>2. pop \in [row : Nat, job : Job \cup {Null}] /\ pop.row \in Nat \ {0} /\ pop.job \in Job
    BY <1>4, <1>6
  <2> HIDE DEF pop
  <2>3. TowerFits(stack[c], pop)
    BY <1>1, <1>2, <2>2 DEF TowerFits
  <2>4. Grown(stack[c], stack[c]) /\ SamePopover(stack[c], popover[c], stack[c], pop)
    BY <1>1, <1>2, GrownSame DEF SamePopover
  <2>5. QueueFits(stack[c], pop, declined', posted', request', reads[c])
    BY <1>2, <2>4, KeptQueue
  <2> QED
    BY <1>2, <2>1, <2>2, <2>3, <2>5, SameFault, FrameStep
<1>8. CASE fault' = [fault EXCEPT ![c] = "cast"] /\ popover' = popover
  <2>1. reads' = [reads EXCEPT ![c] = reads[c]]
    BY <1>1 DEF Screens, ScreenTypeOK
  <2> QED
    BY <1>1, <1>2, <1>8, <1>q, <2>1, QueueStep
<1> QED
  BY <1>1, <1>7, <1>8

\* The popover of c is closed, with the requests that belong to it.
LEMMA CloseStep ==
    ASSUME Screens, GhostsGrow, NEW c \in Client, NEW q \in Seq(ReadType),
           QueueFits(stack[c], popover[c], declined, posted, request, q),
           stack' = stack, fault' = fault, Close(c), reads' = [reads EXCEPT ![c] = Closed(q)]
    PROVE  Screens'
<1>1. /\ stack[c] \in Seq(VCType) /\ TowerFits(stack[c], popover[c])
      /\ Grown(stack[c], stack[c])
  BY ClientFacts, GrownSame
<1>2. /\ stack'[c] = stack[c] /\ popover'[c] = NoPopover /\ reads'[c] = Closed(q)
      /\ fault'[c] = fault[c] /\ OnlyOf(c)
  BY DEF Screens, ScreenTypeOK, OnlyOf, Close
<1>3. NoPopover \in [row : Nat, job : Job \cup {Null}]
  BY DEF NoPopover
<1>4. TowerFits(stack[c], NoPopover)
  BY <1>1 DEF TowerFits
<1>5. /\ QueueFits(stack[c], NoPopover, declined', posted', request', Closed(q))
      /\ Closed(q) \in Seq(ReadType)
  BY <1>1, KeptClosed
<1> QED
  BY <1>1, <1>2, <1>3, <1>4, <1>5, SameFault, FrameStep

LEMMA KillScreens ==
    ASSUME Screens, GhostsGrow, NEW c \in Client, Kill(c)
    PROVE  Screens'
<1>1. /\ stack'[c] = <<>> /\ popover'[c] = NoPopover /\ reads'[c] = <<>> /\ fault'[c] = "none"
      /\ OnlyOf(c)
  BY DEF Screens, ScreenTypeOK, OnlyOf, Kill
<1>2. NoPopover \in [row : Nat, job : Job \cup {Null}]
  BY DEF NoPopover
<1>3. TowerFits(<<>>, NoPopover)
  BY DEF TowerFits
<1>4. QueueFits(<<>>, NoPopover, declined', posted', request', <<>>)
  BY DEF QueueFits, Uniform
<1>5. <<>> \in Seq(VCType) /\ <<>> \in Seq(ReadType)
  OBVIOUS
<1> QED
  BY <1>1, <1>2, <1>3, <1>4, <1>5, FrameStep

\* Rows join a list, and the cells of the visible screen are drawn.
LEMMA LoadStep ==
    ASSUME Screens, GhostsGrow, NEW c \in Client, reads[c] /= <<>>,
           NEW rows \in Seq(Row), Load(c, rows),
           \A i \in 1..Len(rows) : RowFits(stack[c][Head(reads[c]).vc].screen, rows[i])
    PROVE  Screens'
<1> DEFINE vc == Head(reads[c]).vc
           stk == stack[c]
           list == stk[vc].list \o rows
           stk2 == WithList(stk, vc, list)
<1>0. /\ stk \in Seq(VCType) /\ Len(stk) \in Nat
      /\ popover[c] \in [row : Nat, job : Job \cup {Null}]
      /\ TowerFits(stk, popover[c])
      /\ Tail(reads[c]) \in Seq(ReadType)
      /\ QueueFits(stk, popover[c], declined, posted, request, Tail(reads[c]))
  BY ClientFacts, QueueHere
<1>1. vc \in 1..Len(stk)
  BY HeadFits DEF ReadFits, Fits
<1>2. stk[vc] \in VCType
  BY <1>0, <1>1
<1>3. stk[vc].list \in Seq(Row)
  BY <1>2 DEF VCType
<1>4. \E f \in {"none", "cast", "index"} : fault' = [fault EXCEPT ![c] = f]
  <2>1. fault[c] \in {"none", "cast", "index"}
    BY ClientFacts
  <2> QED
    BY <2>1 DEF Load
<1>5. /\ stack' = [stack EXCEPT ![c] = stk2] /\ popover' = popover
      /\ reads' = [reads EXCEPT ![c] = Tail(reads[c])]
  BY <1>0, <1>1 DEF Load, Done, WithList
<1> HIDE DEF vc, stk
<1>6. /\ list \in Seq(Row) /\ Len(list) = Len(stk[vc].list) + Len(rows)
      /\ \A i \in 1..Len(list) : list[i] = IF i <= Len(stk[vc].list) THEN stk[vc].list[i]
                                           ELSE rows[i - Len(stk[vc].list)]
  BY <1>3, ConcatProperties
<1>7. \A i \in 1..Len(list) : RowFits(stk[vc].screen, list[i])
  <2> SUFFICES ASSUME NEW i \in 1..Len(list) PROVE RowFits(stk[vc].screen, list[i])
    OBVIOUS
  <2>n. PICK n \in Nat : n = Len(stk[vc].list)
    BY <1>3
  <2>m. Len(rows) \in Nat /\ \A k \in 1..Len(rows) : RowFits(stk[vc].screen, rows[k])
    BY DEF vc, stk
  <2> HIDE DEF list
  <2>1. CASE i <= n
    <3>1. i \in 1..n /\ list[i] = stk[vc].list[i]
      BY <1>6, <2>n, <2>1
    <3> QED
      BY <1>0, <1>1, <2>n, <3>1 DEF TowerFits
  <2>2. CASE ~(i <= n)
    <3>1. i - n \in 1..Len(rows) /\ list[i] = rows[i - n]
      BY <1>6, <2>n, <2>m, <2>2
    <3> QED
      BY <2>m, <3>1
  <2> QED
    BY <2>1, <2>2
<1>8. Len(stk[vc].list) <= Len(list)
  <2>1. Len(stk[vc].list) \in Nat /\ Len(rows) \in Nat
    BY <1>3
  <2> QED
    BY <1>6, <2>1
<1> HIDE DEF list
<1>9. /\ stk2 \in Seq(VCType) /\ Len(stk2) = Len(stk)
      /\ stk2[vc].screen = stk[vc].screen /\ stk2[vc].list = list
      /\ \A m \in 1..Len(stk) : m /= vc => stk2[m] = stk[m]
  BY <1>0, <1>1, <1>6, TowerUpdate
<1> HIDE DEF stk2
<1>10. Grown(stk, stk2)
  <2>1. Grown(stk, stk)
    BY <1>0, GrownSame
  <2> QED
    BY <1>0, <1>8, <1>9, <2>1 DEF Grown
<1>11. TowerFits(stk2, popover[c])
  <2>1. ASSUME NEW n \in 1..Len(stk2), NEW i \in 1..Len(stk2[n].list)
        PROVE  RowFits(stk2[n].screen, stk2[n].list[i])
    <3>1. CASE n = vc
      BY <1>7, <1>9, <3>1
    <3>2. CASE n /= vc
      BY <1>0, <1>9, <3>2 DEF TowerFits
    <3> QED
      BY <3>1, <3>2
  <2>2. popover[c] /= NoPopover => /\ popover[c].row \in Nat \ {0} /\ popover[c].job \in Job
                                   /\ stk2 /= <<>>
    <3>1. stk2 /= <<>>
      BY <1>1, <1>9
    <3> QED
      BY <1>0, <3>1 DEF TowerFits
  <2> QED
    BY <2>1, <2>2 DEF TowerFits
<1>12. QueueFits(stk2, popover[c], declined', posted', request', Tail(reads[c]))
  <2>1. SamePopover(stk, popover[c], stk2, popover[c])
    BY <1>9 DEF SamePopover
  <2> QED
    BY <1>0, <1>9, <1>10, <2>1, KeptQueue
<1>13. PICK f \in {"none", "cast", "index"} : fault' = [fault EXCEPT ![c] = f]
  BY <1>4
<1>14. /\ stack'[c] = stk2 /\ reads'[c] = Tail(reads[c]) /\ popover'[c] = popover[c]
       /\ fault'[c] = f /\ OnlyOf(c)
  BY <1>5, <1>13 DEF Screens, ScreenTypeOK, OnlyOf
<1> QED
  BY <1>0, <1>9, <1>11, <1>12, <1>14, FrameStep

\* A row of a job in a true snapshot.
LEMMA JobRowFits ==
    ASSUME SharedTypeOK, NEW db \in Sync!DB, TreeTrue(db, posted, request), NEW j \in Job
    PROVE  /\ JobRow(db, j) \in Row
           /\ JobRow(db, j).job = j /\ JobRow(db, j).data["title"] \in Title \cup {Null}
           /\ JobRow(db, j).data = Fields(db, j)
<1>1. Fields(db, j) \in [Field -> Value \cup {Null}]
  BY FieldFacts DEF Fields, Sync!DB
<1>2. Fields(db, j)["title"] = db[<<j, "title">>]
  BY PathFacts DEF Fields
<1>3. db[<<j, "title">>] \in Title \cup {Null}
  BY TrueTypes
<1> QED
  BY <1>1, <1>2, <1>3 DEF JobRow, Row

\* What the callback that runs has in its hands.
LEMMA RunsFacts ==
    ASSUME Screens, NEW c \in Client, NEW kind, Runs(c, kind)
    PROVE  /\ reads[c] /= <<>> /\ Head(reads[c]) \in ReadType
           /\ Head(reads[c]).kind = kind
           /\ Head(reads[c]).snap \in Sync!DB
           /\ TreeTrue(Head(reads[c]).snap, posted, request)
           /\ Fits(stack[c], popover[c], declined, Head(reads[c]))
<1>1. reads[c] /= <<>> /\ Head(reads[c]).kind = kind /\ Head(reads[c]).snap /= NoSnap
  BY DEF Runs
<1>2. /\ Head(reads[c]) \in ReadType
      /\ ReadFits(stack[c], popover[c], declined, posted, request, Head(reads[c]))
  BY <1>1, HeadFits
<1>3. Head(reads[c]).snap \in Sync!DB
  BY <1>1, <1>2 DEF ReadType
<1> QED
  BY <1>1, <1>2, <1>3 DEF ReadFits

LEMMA NewJobsStep ==
    ASSUME SharedTypeOK, Screens, GhostsGrow, NEW c \in Client, SetNewJobs(c)
    PROVE  Screens'
<1> DEFINE db == Head(reads[c]).snap
           ord == Enum(Keys(db))
           rows == [i \in DOMAIN ord |-> JobRow(db, ord[Len(ord) + 1 - i])]
<1>1. Load(c, rows) /\ Runs(c, "SetNewJobs")
  BY DEF SetNewJobs
<1>2. /\ reads[c] /= <<>> /\ db \in Sync!DB /\ TreeTrue(db, posted, request)
      /\ stack[c][Head(reads[c]).vc].screen = "ExploreVC"
  BY <1>1, RunsFacts DEF Fits, ScreenOf
<1>3. ord \in Seq(Job)
  BY EnumFacts DEF Keys
<1> HIDE DEF db, ord
<1>n. PICK n \in Nat : n = Len(ord) /\ DOMAIN ord = 1..n
  BY <1>3
<1>4. \A i \in 1..n : ord[n + 1 - i] \in Job
  BY <1>3, <1>n
<1>5. \A i \in 1..n : /\ JobRow(db, ord[n + 1 - i]) \in Row
                      /\ JobRow(db, ord[n + 1 - i]).data["title"] \in Title \cup {Null}
  BY <1>2, <1>4, JobRowFits
<1>6. rows = [i \in 1..n |-> JobRow(db, ord[n + 1 - i])]
  BY <1>n
<1> HIDE DEF rows
<1>7. rows \in [1..n -> Row]
  BY <1>5, <1>6
<1>8. rows \in Seq(Row) /\ Len(rows) = n
  BY <1>7
<1>9. \A i \in 1..n : RowFits("ExploreVC", rows[i])
  BY <1>5, <1>6 DEF RowFits
<1> QED
  BY <1>1, <1>2, <1>8, <1>9, LoadStep

LEMMA MyJobsStep ==
    ASSUME SharedTypeOK, Screens, GhostsGrow, NEW c \in Client, SetMyPostedJobs(c)
    PROVE  Screens'
<1> DEFINE db == Head(reads[c]).snap
           ord == Chosen(Enum(Keys(db)), {j \in Job : db[<<j, "jobPoster">>] = c})
           rows == [i \in DOMAIN ord |-> JobRow(db, ord[i])]
<1>1. Runs(c, "SetMyPostedJobs") /\ (Trap(c, "cast") \/ Load(c, rows))
  BY DEF SetMyPostedJobs
<1>2. /\ reads[c] /= <<>> /\ db \in Sync!DB /\ TreeTrue(db, posted, request)
      /\ stack[c][Head(reads[c]).vc].screen = "PostedJobsVC"
  BY <1>1, RunsFacts DEF Fits, ScreenOf
<1>3. ord \in Seq(Job)
  <2>1. Enum(Keys(db)) \in Seq(Job)
    BY EnumFacts DEF Keys
  <2>2. ord \in Seq({j \in Job : db[<<j, "jobPoster">>] = c} \cap Job)
    BY <2>1, ChosenFacts
  <2> HIDE DEF ord
  <2> QED
    BY <2>2, SeqMono
<1> HIDE DEF db, ord
<1>n. PICK n \in Nat : n = Len(ord) /\ DOMAIN ord = 1..n
  BY <1>3
<1>4. \A i \in 1..n : ord[i] \in Job
  BY <1>3, <1>n
<1>5. \A i \in 1..n : /\ JobRow(db, ord[i]) \in Row
                      /\ JobRow(db, ord[i]).data["title"] \in Title \cup {Null}
  BY <1>2, <1>4, JobRowFits
<1>6. rows = [i \in 1..n |-> JobRow(db, ord[i])]
  BY <1>n
<1> HIDE DEF rows
<1>7. rows \in [1..n -> Row]
  BY <1>5, <1>6
<1>8. rows \in Seq(Row) /\ Len(rows) = n
  BY <1>7
<1>9. \A i \in 1..n : RowFits("PostedJobsVC", rows[i])
  BY <1>5, <1>6 DEF RowFits
<1>10. CASE Trap(c, "cast")
  BY <1>2, <1>10, TrapStep
<1>11. CASE Load(c, rows)
  BY <1>2, <1>8, <1>9, <1>11, LoadStep
<1> QED
  BY <1>1, <1>10, <1>11

LEMMA ApplicantsStep ==
    ASSUME SharedTypeOK, Screens, GhostsGrow, NEW c \in Client, SetApplicants(c)
    PROVE  Screens'
<1> DEFINE db == Head(reads[c]).snap
           all == {q \in Job \X App : db[q] /= Null}
           ord == Chosen(Enum(all), {q \in Job \X App : db[<<q[1], "jobPoster">>] = c})
           row(q) == [JobRow(db, q[1]) EXCEPT !.email = db[q]]
           rows == [i \in DOMAIN ord |-> row(ord[i])]
<1>1. Runs(c, "SetApplicants") /\ (Trap(c, "cast") \/ Load(c, rows))
  BY DEF SetApplicants
<1>2. /\ reads[c] /= <<>> /\ db \in Sync!DB /\ TreeTrue(db, posted, request)
      /\ stack[c][Head(reads[c]).vc].screen = "ShowApplicantsVC"
  <2>1. /\ reads[c] /= <<>> /\ db \in Sync!DB /\ TreeTrue(db, posted, request)
        /\ Head(reads[c]).kind = "SetApplicants"
        /\ Fits(stack[c], popover[c], declined, Head(reads[c]))
    BY <1>1, RunsFacts
  <2> HIDE DEF db
  <2> QED
    BY <2>1 DEF Fits, ScreenOf
<1>3. ord \in Seq(all)
  <2>1. Enum(all) \in Seq(all)
    <3>1. all \in SUBSET (Job \X App)
      OBVIOUS
    <3> HIDE DEF all
    <3> QED
      BY <3>1, EnumAssumption DEF IsEnumeration
  <2>2. ord \in Seq({q \in Job \X App : db[<<q[1], "jobPoster">>] = c} \cap all)
    BY <2>1, ChosenFacts
  <2> HIDE DEF ord, all
  <2> QED
    BY <2>2, SeqMono
<1> HIDE DEF db, ord
<1>n. PICK n \in Nat : n = Len(ord) /\ DOMAIN ord = 1..n
  BY <1>3
<1>4. \A i \in 1..n : ord[i] \in all
  <2> HIDE DEF all
  <2> QED
    BY <1>3, <1>n
<1>5. ASSUME NEW i \in 1..n
      PROVE  row(ord[i]) \in Row /\ RowFits("ShowApplicantsVC", row(ord[i]))
  <2>1. PICK j \in Job, a \in App : ord[i] = <<j, a>> /\ db[<<j, a>>] /= Null
    BY <1>4
  <2>2. db[<<j, a>>] \in Client
    BY <1>2, <2>1, TrueTypes
  <2>3. JobRow(db, j) \in Row /\ JobRow(db, j).data["title"] \in Title \cup {Null}
    BY <1>2, JobRowFits
  <2>4. PICK x : x = JobRow(db, j)
    OBVIOUS
  <2>5. row(ord[i]) = [x EXCEPT !.email = db[<<j, a>>]]
    BY <2>1, <2>4
  <2> HIDE DEF row
  <2> QED
    BY <2>2, <2>3, <2>4, <2>5 DEF Row, RowFits
<1>6. rows = [i \in 1..n |-> row(ord[i])]
  BY <1>n
<1> HIDE DEF rows, row
<1>7. rows \in [1..n -> Row]
  BY <1>5, <1>6
<1>8. rows \in Seq(Row) /\ Len(rows) = n
  BY <1>7
<1>9. \A i \in 1..n : RowFits("ShowApplicantsVC", rows[i])
  BY <1>5, <1>6
<1>10. CASE Trap(c, "cast")
  BY <1>2, <1>10, TrapStep
<1>11. CASE Load(c, rows)
  BY <1>2, <1>8, <1>9, <1>11, LoadStep
<1> QED
  BY <1>1, <1>10, <1>11

\* The popover of the callback that runs is closed, if it is still there.
LEMMA OwnPopover ==
    ASSUME Screens, GhostsGrow, NEW c \in Client, reads[c] /= <<>>, CloseOwn(c),
           NEW stk2 \in Seq(VCType), Grown(stack[c], stk2), Len(stk2) = Len(stack[c]),
           NEW q, q = (IF Head(reads[c]).over THEN Closed(Tail(reads[c])) ELSE Tail(reads[c]))
    PROVE  /\ q \in Seq(ReadType)
           /\ QueueFits(stk2, popover'[c], declined', posted', request', q)
           /\ popover' = [popover EXCEPT ![c] = popover'[c]]
           /\ popover'[c] \in {popover[c], NoPopover}
<1>0. /\ stack[c] \in Seq(VCType) /\ Tail(reads[c]) \in Seq(ReadType)
      /\ QueueFits(stack[c], popover[c], declined, posted, request, Tail(reads[c]))
  BY ClientFacts, QueueHere
<1>t. popover \in [Client -> [row : Nat, job : Job \cup {Null}]]
  BY DEF Screens, ScreenTypeOK
<1>1. CASE Head(reads[c]).over
  <2>1. /\ popover'[c] = NoPopover /\ popover' = [popover EXCEPT ![c] = popover'[c]]
        /\ q = Closed(Tail(reads[c]))
    BY <1>1, <1>t DEF CloseOwn, Close
  <2>2. QueueFits(stk2, NoPopover, declined', posted', request', Closed(Tail(reads[c])))
        /\ Closed(Tail(reads[c])) \in Seq(ReadType)
    BY <1>0, KeptClosed
  <2> QED
    BY <2>1, <2>2
<1>2. CASE ~Head(reads[c]).over
  <2>1. /\ popover'[c] = popover[c] /\ popover' = [popover EXCEPT ![c] = popover'[c]]
        /\ q = Tail(reads[c])
    BY <1>2, <1>t DEF CloseOwn
  <2>2. SamePopover(stack[c], popover[c], stk2, popover[c])
    BY DEF SamePopover
  <2>3. QueueFits(stk2, popover[c], declined', posted', request', Tail(reads[c]))
    BY <1>0, <2>2, KeptQueue
  <2> QED
    BY <1>0, <2>1, <2>3
<1> QED
  BY <1>1, <1>2

LEMMA ApplyStepScreens ==
    ASSUME Screens, GhostsGrow, NEW c \in Client, ApplyToJob(c)
    PROVE  Screens'
<1>0. Runs(c, "ApplyToJob") /\ stack' = stack /\ reads[c] /= <<>>
  BY DEF ApplyToJob, Runs
<1>1. \/ Done(c) /\ popover' = popover /\ fault' = fault
      \/ Trap(c, "index")
      \/ /\ CloseOwn(c) /\ fault' = fault
         /\ reads' = [reads EXCEPT ![c] = IF Head(reads[c]).over THEN Closed(Tail(reads[c]))
                                          ELSE Tail(reads[c])]
  BY DEF ApplyToJob
<1>2. CASE Done(c) /\ popover' = popover /\ fault' = fault
  BY <1>0, <1>2, SameFault, DoneStep
<1>3. CASE Trap(c, "index")
  BY <1>0, <1>3, TrapStep
<1>4. ASSUME NEW q, CloseOwn(c), fault' = fault, reads' = [reads EXCEPT ![c] = q],
             q = (IF Head(reads[c]).over THEN Closed(Tail(reads[c])) ELSE Tail(reads[c]))
      PROVE  Screens'
  <2>0. /\ stack[c] \in Seq(VCType) /\ TowerFits(stack[c], popover[c])
        /\ popover[c] \in [row : Nat, job : Job \cup {Null}]
        /\ fault[c] \in {"none", "cast", "index"}
        /\ Grown(stack[c], stack[c])
    BY ClientFacts, GrownSame
  <2>1. /\ q \in Seq(ReadType)
        /\ QueueFits(stack[c], popover'[c], declined', posted', request', q)
        /\ popover' = [popover EXCEPT ![c] = popover'[c]]
        /\ popover'[c] \in {popover[c], NoPopover}
    BY <1>0, <1>4, <2>0, OwnPopover
  <2>2. /\ stack'[c] = stack[c] /\ reads'[c] = q /\ fault'[c] = fault[c] /\ OnlyOf(c)
    BY <1>0, <1>4, <2>1 DEF Screens, ScreenTypeOK, OnlyOf
  <2>3. popover'[c] \in [row : Nat, job : Job \cup {Null}]
    BY <2>0, <2>1 DEF NoPopover
  <2>4. TowerFits(stack[c], popover'[c])
    BY <2>0, <2>1 DEF TowerFits
  <2> QED
    BY <2>0, <2>1, <2>2, <2>3, <2>4, FrameStep
<1> QED
  BY <1>1, <1>2, <1>3, <1>4

LEMMA RemoveStepScreens ==
    ASSUME BoardInv', Trees', Screens, GhostsGrow, NEW c \in Client, RemoveJob(c)
    PROVE  Screens'
<1> DEFINE r == Head(reads[c])
           v == Sync!View(server, puts'[c])
           p == <<Read("SetMyPostedJobs", r.vc)>>
<1>0. Runs(c, "RemoveJob") /\ reads[c] /= <<>>
  BY DEF RemoveJob, Runs
<1>1. \/ Trap(c, "cast")
      \/ Done(c) /\ stack' = stack /\ popover' = popover /\ fault' = fault
      \/ \E q : /\ q = (IF r.over THEN Closed(Tail(reads[c])) ELSE Tail(reads[c]))
                /\ server' = server /\ CloseOwn(c) /\ fault' = fault
                /\ stack' = [stack EXCEPT ![c][r.vc].list = <<>>]
                /\ reads' = [reads EXCEPT ![c] = Observe(q, p, v)]
  BY DEF RemoveJob, Sync!Issue
<1>2. CASE Trap(c, "cast")
  BY <1>0, <1>2, TrapStep
<1>3. CASE Done(c) /\ stack' = stack /\ popover' = popover /\ fault' = fault
  BY <1>0, <1>3, SameFault, DoneStep
<1>4. ASSUME NEW q, q = (IF r.over THEN Closed(Tail(reads[c])) ELSE Tail(reads[c])),
             server' = server, CloseOwn(c), fault' = fault,
             stack' = [stack EXCEPT ![c][r.vc].list = <<>>],
             reads' = [reads EXCEPT ![c] = Observe(q, p, v)]
      PROVE  Screens'
  <2> DEFINE stk == stack[c]
             stk2 == WithList(stk, r.vc, <<>>)
  <2>0. /\ stk \in Seq(VCType) /\ TowerFits(stk, popover[c]) /\ Len(stk) \in Nat
        /\ popover[c] \in [row : Nat, job : Job \cup {Null}]
        /\ fault[c] \in {"none", "cast", "index"}
    BY ClientFacts
  <2>1. r.vc \in 1..Len(stk) /\ stk[r.vc].screen = "PostedJobsVC" /\ r.vc \in Nat
    <3>1. Fits(stack[c], popover[c], declined, r) /\ r.kind = "RemoveJob"
      BY <1>0, RunsFacts
    <3> QED
      BY <2>0, <3>1 DEF Fits, ScreenOf
  <2>2. stack' = [stack EXCEPT ![c] = stk2]
    BY <1>4 DEF WithList
  <2>3. v \in Sync!DB /\ TreeTrue(v, posted', request')
    BY <1>4, ViewsTrueNext
  <2> HIDE DEF r, v, stk
  <2>4. /\ stk2 \in Seq(VCType) /\ Len(stk2) = Len(stk)
        /\ stk2[r.vc].screen = "PostedJobsVC" /\ stk2[r.vc].list = <<>>
        /\ \A m \in 1..Len(stk) : m /= r.vc => stk2[m] = stk[m]
    <3>0. <<>> \in Seq(Row)
      OBVIOUS
    <3>1. PICK n \in 1..Len(stk) : n = r.vc
      BY <2>1
    <3>2. \A e \in Seq(Row) :
             /\ WithList(stk, n, e) \in Seq(VCType) /\ Len(WithList(stk, n, e)) = Len(stk)
             /\ WithList(stk, n, e)[n].screen = stk[n].screen
             /\ WithList(stk, n, e)[n].list = e
             /\ \A m \in 1..Len(stk) : m /= n => WithList(stk, n, e)[m] = stk[m]
      BY <2>0, TowerUpdate
    <3>3. stk2 = WithList(stk, n, <<>>)
      BY <3>1
    <3> HIDE DEF stk2
    <3> QED
      BY <2>1, <3>0, <3>1, <3>2, <3>3
  <2> HIDE DEF stk2
  <2>5. Grown(stk, stk2)
    <3>1. Grown(stk, stk)
      BY <2>0, GrownSame
    <3> QED
      BY <2>0, <2>1, <2>4, <3>1 DEF Grown
  <2>6. /\ q \in Seq(ReadType)
        /\ QueueFits(stk2, popover'[c], declined', posted', request', q)
        /\ popover' = [popover EXCEPT ![c] = popover'[c]]
        /\ popover'[c] \in {popover[c], NoPopover}
    BY <1>0, <1>4, <2>4, <2>5, OwnPopover DEF r, stk
  <2>7. /\ p \in Seq(ReadType)
        /\ \A i \in 1..Len(p) : p[i].snap = NoSnap /\ Fits(stk2, popover'[c], declined', p[i])
    <3>1. "SetMyPostedJobs" \in Kind
      BY DEF Kind
    <3>2. PICK x \in ReadType : /\ x = Read("SetMyPostedJobs", r.vc) /\ x.kind = "SetMyPostedJobs"
                                /\ x.vc = r.vc /\ x.over = FALSE /\ x.snap = NoSnap
      BY <2>1, <3>1, NewRead
    <3>3. p \in Seq(ReadType) /\ Len(p) = 1 /\ p[1] = x
      BY <3>2, OneRead
    <3>4. Fits(stk2, popover'[c], declined', x)
      BY <2>1, <2>4, <3>2 DEF Fits, ScreenOf
    <3> QED
      BY <3>2, <3>3, <3>4
  <2> HIDE DEF p
  <2>8. /\ Observe(q, p, v) \in Seq(ReadType)
        /\ QueueFits(stk2, popover'[c], declined', posted', request', Observe(q, p, v))
    BY <2>3, <2>6, <2>7, ObserveFits
  <2>9. /\ stack'[c] = stk2 /\ reads'[c] = Observe(q, p, v) /\ fault'[c] = fault[c] /\ OnlyOf(c)
    BY <1>4, <2>2, <2>6 DEF Screens, ScreenTypeOK, OnlyOf
  <2>10. popover'[c] \in [row : Nat, job : Job \cup {Null}]
    BY <2>0, <2>6 DEF NoPopover
  <2>11. TowerFits(stk2, popover'[c])
    <3>1. ASSUME NEW n \in 1..Len(stk2), NEW i \in 1..Len(stk2[n].list)
          PROVE  RowFits(stk2[n].screen, stk2[n].list[i])
      <4>1. n /= r.vc
        BY <2>4
      <4> QED
        BY <2>0, <2>4, <4>1 DEF TowerFits
    <3>2. stk2 /= <<>>
      BY <2>1, <2>4
    <3> QED
      BY <2>0, <2>6, <3>1, <3>2 DEF TowerFits
  <2> QED
    BY <2>0, <2>4, <2>8, <2>9, <2>10, <2>11, FrameStep
<1> QED
  BY <1>1, <1>2, <1>3, <1>4

\* The row that DeclineApplicant looks for.
LEMMA DeclinedRow ==
    ASSUME RowsOrdered, Screens, NEW c \in Client, Runs(c, "DeclineApplicant")
    PROVE  LET r   == Head(reads[c])
               row == RowAt(stack[c][r.vc].list, r.row)
           IN  row.email \in Client /\ row.data["title"] \in Title \cup {Null}
<1> DEFINE r   == Head(reads[c])
           list == stack[c][r.vc].list
           row == RowAt(list, r.row)
<1>1. Fits(stack[c], popover[c], declined, r) /\ r.kind = "DeclineApplicant"
  BY RunsFacts
<1>2. r.vc \in 1..Len(stack[c]) /\ stack[c][r.vc].screen = "ShowApplicantsVC"
      /\ r.row \in 1..Len(list)
  BY <1>1 DEF Fits, ScreenOf
<1>3. stack[c] \in Seq(VCType) /\ TowerFits(stack[c], popover[c])
  BY ClientFacts
<1> HIDE DEF r
<1>4. stack[c][r.vc] \in VCType
  BY <1>2, <1>3
<1>5. list \in Seq(Row)
  BY <1>4 DEF VCType
<1>6. PICK i \in 1..Len(list) : row = list[i]
  BY <1>2, <1>5, RowAtFacts
<1>7. RowFits("ShowApplicantsVC", list[i])
  BY <1>2, <1>3 DEF TowerFits
<1>8. row.email \in Client /\ row.data["title"] \in Title \cup {Null}
  BY <1>6, <1>7 DEF RowFits
<1> QED
  BY <1>8 DEF r

LEMMA DeclineStepScreens ==
    ASSUME RowsOrdered, BoardInv, Trees, Screens, GhostsGrow, NEW c \in Client,
           DeclineApplicant(c)
    PROVE  Screens'
<1> DEFINE r    == Head(reads[c])
           db   == r.snap
           row  == RowAt(stack[c][r.vc].list, r.row)
           hits == {q \in Job \X App : /\ db[q] = row.email
                                       /\ db[<<q[1], "title">>] = row.data["title"]}
           ord  == Enum(hits)
           x    == [Read("RemoveApplication", r.vc) EXCEPT !.email = row.email,
                                                           !.title = row.data["title"]]
           p    == [i \in DOMAIN ord |-> x]
           v    == Sync!View(server, puts[c])
<1>0. Runs(c, "DeclineApplicant") /\ stack' = stack /\ popover' = popover /\ reads[c] /= <<>>
  BY DEF DeclineApplicant, Runs
<1>1. \/ Done(c) /\ fault' = fault
      \/ Trap(c, "cast")
      \/ /\ reads' = [reads EXCEPT ![c] = Observe(Tail(reads[c]), p, v)]
         /\ declined' = declined \cup {<<row.email, row.data["title"]>>}
         /\ fault' = fault
  BY DEF DeclineApplicant
<1>2. CASE Done(c) /\ fault' = fault
  BY <1>0, <1>2, SameFault, DoneStep
<1>3. CASE Trap(c, "cast")
  BY <1>0, <1>3, TrapStep
<1>4. CASE /\ reads' = [reads EXCEPT ![c] = Observe(Tail(reads[c]), p, v)]
           /\ declined' = declined \cup {<<row.email, row.data["title"]>>}
           /\ fault' = fault
  <2>1. row.email \in Client /\ row.data["title"] \in Title \cup {Null}
    BY <1>0, DeclinedRow
  <2>2. r.vc \in 1..Len(stack[c]) /\ stack[c][r.vc].screen = "ShowApplicantsVC" /\ r.vc \in Nat
    <3>1. Fits(stack[c], popover[c], declined, r) /\ r.kind = "DeclineApplicant"
          /\ Len(stack[c]) \in Nat
      BY <1>0, RunsFacts, ClientFacts
    <3> QED
      BY <3>1 DEF Fits, ScreenOf
  <2>3. v \in Sync!DB /\ TreeTrue(v, posted', request')
    BY ViewsTrue, TrueGrows
  <2>4. PICK n \in Nat : DOMAIN ord = 1..n
    <3>1. hits \in SUBSET (Job \X App)
      OBVIOUS
    <3> HIDE DEF hits
    <3>2. ord \in Seq(Job \X App)
      BY <3>1, EnumFacts
    <3> QED
      BY <3>2
  <2>5. /\ x \in ReadType /\ x.kind = "RemoveApplication" /\ x.vc = r.vc /\ x.over = FALSE
        /\ x.snap = NoSnap /\ x.email = row.email /\ x.title = row.data["title"]
    <3> HIDE DEF row, r
    <3> QED
      BY <2>1, <2>2 DEF Read, ReadType, Kind
  <2>6. p = [i \in 1..n |-> x]
    BY <2>4
  <2> HIDE DEF r, row, x, p, v
  <2>7. p \in Seq(ReadType) /\ Len(p) = n /\ \A i \in 1..n : p[i] = x
    <3>1. p \in [1..n -> ReadType]
      BY <2>5, <2>6
    <3> QED
      BY <2>6, <3>1
  <2>8. Fits(stack[c], popover[c], declined', x)
    BY <1>4, <2>1, <2>2, <2>5 DEF Fits, ScreenOf
  <2>9. \A i \in 1..Len(p) : p[i].snap = NoSnap /\ Fits(stack[c], popover[c], declined', p[i])
    BY <2>5, <2>7, <2>8
  <2>10. /\ Tail(reads[c]) \in Seq(ReadType)
         /\ QueueFits(stack[c], popover[c], declined', posted', request', Tail(reads[c]))
    BY <1>0, QueueHere
  <2>11. PICK o : o = Observe(Tail(reads[c]), p, v)
    OBVIOUS
  <2>12. o \in Seq(ReadType) /\ QueueFits(stack[c], popover[c], declined', posted', request', o)
    BY <2>3, <2>7, <2>9, <2>10, <2>11, ObserveFits
  <2> QED
    BY <1>0, <1>4, <2>11, <2>12, SameFault, QueueStep
<1> QED
  BY <1>1, <1>2, <1>3, <1>4

LEMMA RemovalStepScreens ==
    ASSUME BoardInv, Trees, Screens, GhostsGrow, NEW c \in Client, RemoveApplication(c)
    PROVE  Screens'
<1> DEFINE r == Head(reads[c])
           x == [Read("RemoveApplication2", r.vc) EXCEPT
                    !.email = r.email, !.title = r.title, !.keys = Keys(r.snap)]
           v == Sync!View(server, puts[c])
<1>0. /\ Runs(c, "RemoveApplication") /\ reads[c] /= <<>>
      /\ stack' = stack /\ popover' = popover /\ fault' = fault
      /\ reads' = [reads EXCEPT ![c] = Observe(Tail(reads[c]), <<x>>, v)]
  BY DEF RemoveApplication, Runs
<1>1. /\ r \in ReadType /\ r.kind = "RemoveApplication"
      /\ Fits(stack[c], popover[c], declined, r) /\ Len(stack[c]) \in Nat
  BY <1>0, RunsFacts, ClientFacts
<1>2. v \in Sync!DB /\ TreeTrue(v, posted', request')
  BY ViewsTrue, TrueGrows
<1> HIDE DEF r, v
<1>3. /\ r.vc \in 1..Len(stack[c]) /\ r.vc \in Nat
      /\ stack[c][r.vc].screen = "ShowApplicantsVC"
      /\ r.email \in Client /\ <<r.email, r.title>> \in declined'
  BY <1>1 DEF Fits, ScreenOf, GhostsGrow
<1>4. r.title \in Title \cup {Null} /\ Keys(r.snap) \in SUBSET Job
  BY <1>1 DEF ReadType, Keys
<1>5. /\ x \in ReadType /\ x.kind = "RemoveApplication2" /\ x.vc = r.vc /\ x.over = FALSE
      /\ x.snap = NoSnap /\ x.email = r.email /\ x.title = r.title
  BY <1>3, <1>4 DEF Read, ReadType, Kind
<1> HIDE DEF x
<1>6. Fits(stack[c], popover[c], declined', x)
  BY <1>3, <1>5 DEF Fits, ScreenOf
<1>7. /\ <<x>> \in Seq(ReadType)
      /\ \A i \in 1..Len(<<x>>) : /\ <<x>>[i].snap = NoSnap
                                  /\ Fits(stack[c], popover[c], declined', <<x>>[i])
  BY <1>5, <1>6, OneRead
<1>8. /\ Tail(reads[c]) \in Seq(ReadType)
      /\ QueueFits(stack[c], popover[c], declined', posted', request', Tail(reads[c]))
  BY <1>0, QueueHere
<1>9. PICK p : p = <<x>>
  OBVIOUS
<1>10. PICK o : o = Observe(Tail(reads[c]), p, v)
  OBVIOUS
<1>11. o \in Seq(ReadType) /\ QueueFits(stack[c], popover[c], declined', posted', request', o)
  BY <1>2, <1>7, <1>8, <1>9, <1>10, ObserveFits
<1> QED
  BY <1>0, <1>9, <1>10, <1>11, SameFault, QueueStep

LEMMA Removal2StepScreens ==
    ASSUME Screens, GhostsGrow, NEW c \in Client, RemoveApplication2(c)
    PROVE  Screens'
<1>1. reads[c] /= <<>> /\ stack' = stack /\ popover' = popover /\ Done(c)
  BY DEF RemoveApplication2, Runs
<1>2. fault' = [fault EXCEPT ![c] = "cast"] \/ fault' = [fault EXCEPT ![c] = fault[c]]
  BY DEF RemoveApplication2
<1>3. fault[c] \in {"none", "cast", "index"}
  BY ClientFacts
<1>4. PICK f \in {"none", "cast", "index"} : fault' = [fault EXCEPT ![c] = f]
  BY <1>2, <1>3
<1> QED
  BY <1>1, <1>4, DoneStep

-----------------------------------------------------------------------------
(* The invariant.                                                          *)

LEMMA ScreensInit == Init => Trees /\ Screens
<1> SUFFICES ASSUME Init PROVE Trees /\ Screens
  OBVIOUS
<1>1. Trees
  <2>1. \A c \in Client : Len(puts[c]) = 0
    BY DEF Init
  <2>2. TreeTrue(server, posted, request)
    <3> SUFFICES ASSUME NEW j \in Job
                 PROVE  /\ Board[<<j, "title">>] /= Null =>
                              Ads[j] /= Null /\ Board[<<j, "title">>] = Ads[j].title
                        /\ \A a \in App : Board[<<j, a>>] = Null
      BY DEF TreeTrue, Init
    <3>1. <<j, "title">> \in Path /\ "title" \in Field /\ "title" \notin App
          /\ \A a \in App : <<j, a>> \in Path
      BY PathFacts, LeafFacts
    <3> QED
      BY <3>1 DEF Board, FieldValue
  <2> QED
    BY <2>1, <2>2 DEF Trees
<1>2. Screens
  <2>1. ScreenTypeOK
    <3>1. NoPopover \in [row : Nat, job : Job \cup {Null}]
      BY DEF NoPopover
    <3>2. <<>> \in Seq(VCType) /\ <<>> \in Seq(ReadType)
      OBVIOUS
    <3> QED
      BY <3>1, <3>2 DEF Init, ScreenTypeOK
  <2>2. TowerFits(<<>>, NoPopover)
    BY DEF TowerFits
  <2>3. QueueFits(<<>>, NoPopover, declined, posted, request, <<>>)
    BY DEF QueueFits, Uniform
  <2>4. \A c \in Client : stack[c] = <<>> /\ popover[c] = NoPopover /\ reads[c] = <<>>
    BY DEF Init
  <2> QED
    BY <2>1, <2>2, <2>3, <2>4 DEF Screens
<1> QED
  BY <1>1, <1>2

LEMMA ScreensNext ==
    ASSUME RowsOrdered, ScreenInv, Inv', Trees', [Next]_vars
    PROVE  Screens'
<1>0. BoardInv /\ BoardInv' /\ SharedTypeOK /\ Trees /\ Screens
  BY DEF ScreenInv, Inv, BoardInv
<1>g. GhostsGrow
  BY <1>0, GrowNext
<1>1. ASSUME UNCHANGED <<stack, popover, reads, fault>>
      PROVE  Screens'
  <2>1. ScreenTypeOK'
    BY <1>0, <1>1 DEF Screens, ScreenTypeOK
  <2>2. ASSUME NEW c \in Client
        PROVE  /\ TowerFits(stack[c], popover[c])
               /\ QueueFits(stack[c], popover[c], declined', posted', request', reads[c])
    BY <1>0, <1>g, ClientFacts, QueueHere
  <2> QED
    BY <1>1, <2>1, <2>2 DEF Screens
<1>2. CASE UNCHANGED vars
  BY <1>1, <1>2 DEF vars, appVars
<1>3. ASSUME NEW c \in Client, User(c)
      PROVE  Screens'
  <2>1. CASE Launch(c)
    <3>1. stack[c] = <<>>
      BY <2>1 DEF Launch, Running
    <3>2. popover[c] = NoPopover
      BY <1>0, <3>1, ClientFacts DEF TowerFits
    <3>3. \E s \in Screen : Push(c, s)
      BY <2>1 DEF Launch, Screen
    <3>4. popover' = popover /\ fault' = fault
      BY <2>1 DEF Launch
    <3> QED
      BY <1>0, <1>g, <3>2, <3>3, <3>4, PushStep
  <2>2. ASSUME NEW s \in {"CreateJobVC", "PostedJobsVC", "ShowApplicantsVC"}, Present(c, s)
        PROVE  Screens'
    BY <1>0, <1>g, <2>2, PushStep DEF Present, Screen
  <2>3. CASE \E j \in Job, t \in Title : CreateJob(c, j, t)
    BY <1>1, <2>3 DEF CreateJob, appVars
  <2>4. ASSUME NEW r, Select(c, r) \/ TapDecline(c, r)
        PROVE  Screens'
    BY <1>0, <1>g, <2>4, SelectStep, TapDeclineStep
  <2>5. CASE TapApply(c) /\ Running(c)
    <3>1. /\ popover[c] /= NoPopover /\ Visible(c).screen = ScreenOf("ApplyToJob")
          /\ Tap(c, PopoverRead(c, "ApplyToJob"))
      BY <2>5 DEF TapApply, ScreenOf
    <3>2. PICK r : r = PopoverRead(c, "ApplyToJob")
      OBVIOUS
    <3>3. r \in ReadType /\ r.snap = NoSnap /\ Fits(stack[c], popover[c], declined', r)
      BY <1>0, <2>5, <3>1, <3>2, PopoverReadFits
    <3> QED
      BY <1>0, <1>g, <3>1, <3>2, <3>3, TapStep
  <2>6. CASE TapRemove(c) /\ Running(c)
    <3>1. /\ popover[c] /= NoPopover /\ Visible(c).screen = ScreenOf("RemoveJob")
          /\ Tap(c, PopoverRead(c, "RemoveJob"))
      BY <2>6 DEF TapRemove, ScreenOf
    <3>2. PICK r : r = PopoverRead(c, "RemoveJob")
      OBVIOUS
    <3>3. r \in ReadType /\ r.snap = NoSnap /\ Fits(stack[c], popover[c], declined', r)
      BY <1>0, <2>6, <3>1, <3>2, PopoverReadFits
    <3> QED
      BY <1>0, <1>g, <3>1, <3>2, <3>3, TapStep
  <2>7. CASE Dismiss(c)
    <3>1. reads[c] \in Seq(ReadType)
          /\ QueueFits(stack[c], popover[c], declined, posted, request, reads[c])
      BY <1>0, ClientFacts
    <3>2. /\ stack' = stack /\ fault' = fault /\ Close(c)
          /\ reads' = [reads EXCEPT ![c] = Closed(reads[c])]
      BY <2>7 DEF Dismiss
    <3> QED
      BY <1>0, <1>g, <3>1, <3>2, CloseStep
  <2> QED
    BY <1>3, <2>1, <2>2, <2>3, <2>4, <2>5, <2>6, <2>7 DEF User
<1>4. ASSUME NEW c \in Client, Callback(c)
      PROVE  Screens'
  BY <1>0, <1>g, <1>4, NewJobsStep, MyJobsStep, ApplicantsStep, ApplyStepScreens,
     RemoveStepScreens, DeclineStepScreens, RemovalStepScreens, Removal2StepScreens
     DEF Callback
<1>5. ASSUME NEW c \in Client, Apply(c) \/ Ack(c) \/ Connect(c) \/ Disconnect(c)
      PROVE  Screens'
  BY <1>1, <1>5 DEF Apply, Ack, Connect, Disconnect, appVars
<1>6. ASSUME NEW c \in Client, Deliver(c) \/ Kill(c)
      PROVE  Screens'
  BY <1>0, <1>g, <1>6, DeliverStep, KillScreens
<1> QED
  BY <1>2, <1>3, <1>4, <1>5, <1>6 DEF Next

LEMMA ScreenInvariant ==
    ASSUME RowsOrdered
    PROVE  Spec => []ScreenInv
<1>1. Init => ScreenInv
  BY InitInv, ScreensInit DEF ScreenInv
<1>2. ScreenInv /\ [Next]_vars => ScreenInv'
  <2> SUFFICES ASSUME ScreenInv, [Next]_vars
               PROVE  ScreenInv'
    OBVIOUS
  <2>1. Inv'
    BY NextInv DEF ScreenInv
  <2>2. Trees'
    BY <2>1, TreesNext
  <2>3. Screens'
    BY <2>1, <2>2, ScreensNext
  <2> QED
    BY <2>1, <2>2, <2>3 DEF ScreenInv
<1> QED
  BY <1>1, <1>2, PTL DEF Spec


-----------------------------------------------------------------------------
(* What follows from the invariant.                                        *)

LEMMA TypeFromScreens == ScreenInv => BoardTypeOK
<1> SUFFICES ASSUME ScreenInv PROVE BoardTypeOK
  OBVIOUS
<1>1. SharedTypeOK /\ Screens
  BY DEF ScreenInv, Inv, BoardInv
<1>2. ASSUME NEW c \in Client
      PROVE  /\ \A n \in DOMAIN stack[c] :
                   /\ stack[c][n].screen \in Screen
                   /\ \A i \in DOMAIN stack[c][n].list : stack[c][n].list[i] \in Row
             /\ \A i \in DOMAIN reads[c] :
                   /\ ReadOK(c, reads[c][i])
                   /\ reads[c][i].snap = NoSnap <=> reads[c][1].snap = NoSnap
             /\ popover[c] /= NoPopover => /\ popover[c].row \in Nat \ {0}
                                           /\ popover[c].job \in Job
             /\ fault[c] \in {"none", "cast", "index"}
  <2>1. /\ stack[c] \in Seq(VCType) /\ TowerFits(stack[c], popover[c])
        /\ Len(stack[c]) \in Nat /\ fault[c] \in {"none", "cast", "index"}
    BY <1>1, ClientFacts
  <2>2. /\ reads[c] \in Seq(ReadType)
        /\ QueueFits(stack[c], popover[c], declined, posted, request, reads[c])
    BY <1>1 DEF Screens, ScreenTypeOK
  <2>3. ASSUME NEW n \in DOMAIN stack[c]
        PROVE  /\ stack[c][n].screen \in Screen
               /\ \A i \in DOMAIN stack[c][n].list : stack[c][n].list[i] \in Row
    <3> HIDE DEF Row
    <3>1. stack[c][n] \in VCType
      BY <2>1
    <3>2. stack[c][n].screen \in Screen /\ stack[c][n].list \in Seq(Row)
      BY <3>1 DEF VCType
    <3> QED
      BY <3>2
  <2>4. ASSUME NEW i \in DOMAIN reads[c]
        PROVE  /\ ReadOK(c, reads[c][i])
               /\ reads[c][i].snap = NoSnap <=> reads[c][1].snap = NoSnap
    <3>1. i \in 1..Len(reads[c]) /\ 1 \in 1..Len(reads[c]) /\ reads[c][i] \in ReadType
      <4> HIDE DEF ReadType
      <4> QED
        BY <2>2
    <3>2. reads[c][i].snap = NoSnap <=> reads[c][1].snap = NoSnap
      BY <2>2, <3>1 DEF QueueFits, Uniform
    <3>3. Fits(stack[c], popover[c], declined, reads[c][i])
      BY <2>2, <3>1 DEF QueueFits, ReadFits
    <3>4. PICK r \in ReadType : r = reads[c][i]
      BY <3>1
    <3>5. ReadOK(c, r)
      BY <3>3, <3>4 DEF ReadOK, ReadType, Fits, Level
    <3> QED
      BY <3>2, <3>4, <3>5
  <2>5. popover[c] /= NoPopover => popover[c].row \in Nat \ {0} /\ popover[c].job \in Job
    BY <2>1 DEF TowerFits
  <2> QED
    BY <2>1, <2>3, <2>4, <2>5
<1> QED
  BY <1>1, <1>2 DEF BoardTypeOK

\* The whole state of the app keeps its type in every execution: a waiting
\* callback's view controller is in the tower of its client and of the
\* visible level while its popover is open, and the callbacks of a client all
\* have their snapshot or none has, whatever the taps, answers and deaths.
THEOREM BoardTypeCorrect ==
    ASSUME RowsOrdered
    PROVE  Spec => []BoardTypeOK
BY ScreenInvariant, TypeFromScreens, PTL

LEMMA DisappearStep ==
    ASSUME ScreenInv, [Next]_vars, NEW j \in Job, NEW a \in App,
           server[<<j, a>>] /= Null, server'[<<j, a>>] = Null
    PROVE  \/ j \in removed
           \/ <<request[a].by, posted[j].title>> \in declined
<1>0. SharedTypeOK /\ Trees
  BY DEF ScreenInv, Inv, BoardInv
<1>1. server' /= server
  OBVIOUS
<1>2. PICK c \in Client : Sync!ServerApply(c)
  <2>1. ~ UNCHANGED vars
    BY <1>1 DEF vars, syncVars
  <2>2. PICK c \in Client :
           \/ User(c) \/ Deliver(c) \/ Callback(c)
           \/ Apply(c) \/ Ack(c) \/ Connect(c) \/ Disconnect(c) \/ Kill(c)
    BY <2>1 DEF Next
  <2>3. ~ User(c)
    BY <1>1 DEF User, Launch, Present, CreateJob, Select, TapDecline, TapApply, TapRemove,
                Tap, Dismiss, Sync!Issue, syncVars
  <2>4. ~ Callback(c)
    BY <1>1 DEF Callback, SetNewJobs, SetMyPostedJobs, SetApplicants, ApplyToJob, RemoveJob,
                DeclineApplicant, RemoveApplication, RemoveApplication2, Sync!Issue, syncVars
  <2>5. ~ (Deliver(c) \/ Ack(c) \/ Connect(c) \/ Disconnect(c) \/ Kill(c))
    BY <1>1 DEF Deliver, Ack, Connect, Disconnect, Kill, syncVars,
                Sync!AckPut, Sync!RestoreState, Sync!OnDisconnect, Sync!LosePuts
  <2> QED
    BY <2>2, <2>3, <2>4, <2>5 DEF Apply
<1>n. PICK n \in Nat : n = applied[c] /\ n + 1 \in 1..Len(puts[c])
  BY <1>0, <1>2, TypeFacts DEF Sync!ServerApply
<1>3. \A x \in Path : server'[x] = IF x \in DOMAIN puts[c][n + 1]
                                   THEN puts[c][n + 1][x] ELSE server[x]
  BY <1>2, <1>n DEF Sync!ServerApply, Sync!ApplyWrite
<1>4. <<j, a>> \in DOMAIN puts[c][n + 1] /\ puts[c][n + 1][<<j, a>>] = Null
  BY <1>3, PathFacts
<1>5. PutTrue(puts[c][n + 1], posted, request, removed, declined)
  BY <1>0, <1>n DEF Trees
<1>6. request[a].job = j
  BY <1>0 DEF Trees, TreeTrue
<1> QED
  BY <1>4, <1>5, <1>6 DEF PutTrue

\* An application disappears from the server only if its job was removed or
\* its sender was declined for the title of its job: RemoveApplication looks
\* for the pair in every job and with every key it has seen, in a tree that
\* other clients change meanwhile, and still takes away nobody else's.
THEOREM OnlyTheDeclinedDisappear ==
    ASSUME RowsOrdered
    PROVE  Spec => OnlyDeclinedDisappear
<1>1. ScreenInv /\ [Next]_vars =>
         [\A j \in Job, a \in App :
             server[<<j, a>>] /= Null /\ server'[<<j, a>>] = Null
             => \/ j \in removed
                \/ <<request[a].by, posted[j].title>> \in declined]_vars
  BY DisappearStep
<1> QED
  BY <1>1, ScreenInvariant, PTL DEF Spec, OnlyDeclinedDisappear
=============================================================================

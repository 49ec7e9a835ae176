--------------------------- MODULE OwnWritesProofs --------------------------
(***************************************************************************)
(* A client reads its own writes, for every set of clients, paths, writes  *)
(* and batches.                                                            *)
(***************************************************************************)
EXTENDS OwnWrites, MaxLemma, SequenceTheorems, TLAPS

\* p is written by put i of queue q and by no later one.
Newest(q, p, i) ==
    /\ i \in 1..Len(q)
    /\ p \in DOMAIN q[i]
    /\ \A k \in i+1..Len(q) : p \notin DOMAIN q[k]

Untouched(q, p) == \A i \in 1..Len(q) : p \notin DOMAIN q[i]

\* View overlays the newest put, where there is one.
LEMMA ViewNewest ==
    ASSUME NEW W, NEW q \in Seq(W), NEW p \in Path, NEW db
    PROVE  \/ Untouched(q, p) /\ View(db, q)[p] = db[p]
           \/ \E m \in 1..Len(q) : Newest(q, p, m) /\ View(db, q)[p] = q[m][p]
<1>0. Len(q) \in Nat /\ DOMAIN q = 1..Len(q)
  OBVIOUS
<1>1. CASE Writers(q, p) = {}
  BY <1>0, <1>1 DEF View, Writers, Untouched
<1>2. CASE Writers(q, p) /= {}
  <2> DEFINE m == Max(Writers(q, p))
  <2>1. Writers(q, p) \subseteq 1..Len(q)
    BY <1>0 DEF Writers
  <2>2. m \in Writers(q, p) /\ \A k \in Writers(q, p) : k <= m
    BY <1>0, <1>2, <2>1, MaxExists
  <2> HIDE DEF m
  <2>3. Newest(q, p, m)
    <3>1. m \in 1..Len(q) /\ p \in DOMAIN q[m]
      BY <2>1, <2>2 DEF Writers
    <3>2. ASSUME NEW k \in m+1..Len(q), p \in DOMAIN q[k]
          PROVE  FALSE
      <4>1. k \in Writers(q, p) /\ k > m
        BY <1>0, <3>1, <3>2 DEF Writers
      <4> QED
        BY <1>0, <3>1, <4>1, <2>2
    <3> QED
      BY <3>1, <3>2 DEF Newest
  <2>4. View(db, q)[p] = q[m][p]
    BY <1>2 DEF View, m
  <2> QED
    BY <2>3, <2>4 DEF Newest
<1> QED
  BY <1>1, <1>2

-----------------------------------------------------------------------------
(* Types.                                                                  *)

LEMMA ViewType ==
    ASSUME NEW q \in Seq(Write), NEW db \in DB
    PROVE  View(db, q) \in DB
<1>1. ASSUME NEW p \in Path
      PROVE  View(db, q)[p] \in Value \cup {Null}
  <2>1. CASE View(db, q)[p] = db[p]
    BY <2>1 DEF DB
  <2>2. CASE \E m \in 1..Len(q) : Newest(q, p, m) /\ View(db, q)[p] = q[m][p]
    <3>1. PICK m \in 1..Len(q) : Newest(q, p, m) /\ View(db, q)[p] = q[m][p]
      BY <2>2
    <3>2. q[m] \in Write /\ p \in DOMAIN q[m]
      BY <3>1 DEF Newest
    <3> QED
      BY <3>1, <3>2, OwnWritesAssumption DEF AreWrites
  <2> QED
    BY <2>1, <2>2, ViewNewest
<1>2. View(db, q) = [p \in Path |-> View(db, q)[p]]
  BY DEF View
<1> QED
  BY <1>1, <1>2 DEF DB

LEMMA TypeStep == OwnTypeOK /\ [OwnNext]_ownVars => OwnTypeOK'
<1> SUFFICES ASSUME OwnTypeOK, [OwnNext]_ownVars
             PROVE  OwnTypeOK'
  OBVIOUS
<1> USE DEF OwnTypeOK, SyncTypeOK
<1>0. \A c \in Client : puts[c] \in Seq(Write) /\ Len(puts[c]) \in Nat
  OBVIOUS
<1>1. ASSUME NEW c \in Client, NEW ws \in Batch, OwnIssue(c, ws)
      PROVE  OwnTypeOK'
  <2>1. ws \in Seq(Write)
    BY OwnWritesAssumption
  <2>2. puts[c] \o ws \in Seq(Write) /\ Len(puts[c] \o ws) = Len(puts[c]) + Len(ws)
    BY <1>0, <2>1, ConcatProperties
  <2>3. mine' \in DB
    BY <1>1, <2>1, ViewType DEF OwnIssue, DB
  <2> QED
    BY <1>0, <1>1, <2>1, <2>2, <2>3 DEF OwnIssue, Issue
<1>2. ASSUME NEW c \in Client, ServerApply(c), UNCHANGED <<mine, drops, kills>>
      PROVE  OwnTypeOK'
  <2>1. puts[c][applied[c] + 1] \in Write
    BY <1>0, <1>2 DEF ServerApply
  <2>2. server' \in DB
    BY <1>2, <2>1, OwnWritesAssumption DEF ServerApply, ApplyWrite, DB, AreWrites
  <2> QED
    BY <1>0, <1>2, <2>2 DEF ServerApply
<1>3. ASSUME NEW c \in Client, AckPut(c), UNCHANGED <<mine, drops, kills>>
      PROVE  OwnTypeOK'
  <2>1. puts[c] /= <<>>
    BY <1>0, <1>3 DEF AckPut
  <2>2. Tail(puts[c]) \in Seq(Write) /\ Len(Tail(puts[c])) = Len(puts[c]) - 1
    BY <1>0, <2>1, HeadTailProperties
  <2> QED
    BY <1>0, <1>3, <2>2 DEF AckPut
<1>4. ASSUME NEW c \in Client, RestoreState(c), UNCHANGED <<mine, drops, kills>>
      PROVE  OwnTypeOK'
  BY <1>4 DEF RestoreState
<1>5. ASSUME NEW c \in Client, OwnDisconnect(c)
      PROVE  OwnTypeOK'
  BY <1>0, <1>5 DEF OwnDisconnect, OnDisconnect
<1>6. ASSUME NEW c \in Client, OwnKill(c)
      PROVE  OwnTypeOK'
  <2>1. mine' \in DB
    BY <1>6 DEF OwnKill, DB
  <2> QED
    BY <1>6, <2>1 DEF OwnKill, LosePuts
<1>7. CASE UNCHANGED ownVars
  BY <1>7 DEF ownVars, syncVars
<1> QED
  BY <1>1, <1>2, <1>3, <1>4, <1>5, <1>6, <1>7 DEF OwnNext, Transport

\* The state of the Firebase clients keeps its type.
THEOREM OwnTypeCorrect == OwnSpec => []OwnTypeOK
<1>1. OwnInit => OwnTypeOK
  BY DEF OwnInit, SyncInit, OwnTypeOK, SyncTypeOK, DB
<1> QED
  BY <1>1, TypeStep, PTL DEF OwnSpec

-----------------------------------------------------------------------------
(* Reading one's own writes.  The invariant needs four more facts: clients *)
(* keep out of each other's paths; the newest put of an owned path carries *)
(* the last written value; where no put is outstanding the server has it;  *)
(* and the executed part of the queue is what the server shows             *)
(* (ExecutedPrefix), without which an acknowledgement could take away a    *)
(* value that the server does not have.                                    *)

KeepOut ==
    \A c \in Client : \A i \in 1..Len(puts[c]) : \A p \in DOMAIN puts[c][i] :
        Owner[p] \in {c, Shared}

NewestIsMine ==
    \A c \in Client : \A p \in Owned(c) : \A i \in 1..Len(puts[c]) :
        Newest(puts[c], p, i) => puts[c][i][p] = mine[p]

UntouchedIsMine ==
    \A c \in Client : \A p \in Owned(c) :
        Untouched(puts[c], p) => server[p] = mine[p]

OwnInv == OwnTypeOK /\ KeepOut /\ NewestIsMine /\ UntouchedIsMine /\ ExecutedPrefix

LEMMA InvReads == OwnInv => ReadYourWrites
<1> SUFFICES ASSUME OwnInv, NEW c \in Client, NEW p \in Owned(c)
             PROVE  View(server, puts[c])[p] = mine[p]
  BY DEF ReadYourWrites
<1>1. puts[c] \in Seq(Write) /\ p \in Path
  BY DEF OwnInv, OwnTypeOK, SyncTypeOK, Owned
<1>2. CASE Untouched(puts[c], p) /\ View(server, puts[c])[p] = server[p]
  BY <1>2 DEF OwnInv, UntouchedIsMine
<1>3. CASE \E m \in 1..Len(puts[c]) :
             Newest(puts[c], p, m) /\ View(server, puts[c])[p] = puts[c][m][p]
  BY <1>3 DEF OwnInv, NewestIsMine
<1> QED
  BY <1>1, <1>2, <1>3, ViewNewest

LEMMA IssueInv ==
    ASSUME OwnInv, NEW c \in Client, NEW ws \in Batch, OwnIssue(c, ws)
    PROVE  KeepOut' /\ NewestIsMine' /\ UntouchedIsMine' /\ ExecutedPrefix'
<1> USE DEF OwnInv
<1> DEFINE q == puts[c]
           r == q \o ws
<1>0. /\ q \in Seq(Write) /\ ws \in Seq(Write)
      /\ Len(q) \in Nat /\ Len(ws) \in Nat /\ Len(r) = Len(q) + Len(ws)
      /\ \A i \in 1..Len(r) : r[i] = IF i <= Len(q) THEN q[i] ELSE ws[i - Len(q)]
  BY OwnWritesAssumption, ConcatProperties DEF OwnTypeOK, SyncTypeOK
<1>1. /\ puts' = [puts EXCEPT ![c] = r]
      /\ puts'[c] = r
      /\ \A d \in Client \ {c} : puts'[d] = puts[d]
      /\ server' = server /\ applied' = applied
  BY DEF OwnIssue, Issue, OwnTypeOK, SyncTypeOK
<1>2. \A p \in Path : mine'[p] = IF Owner[p] = c THEN View(mine, ws)[p] ELSE mine[p]
  BY DEF OwnIssue
<1> HIDE DEF r, q
<1>3. \A i \in 1..Len(ws) : \A p \in DOMAIN ws[i] : Owner[p] \in {c, Shared}
  BY <1>0 DEF OwnIssue, Allowed
<1>4. KeepOut'
  <2> SUFFICES ASSUME NEW d \in Client, NEW i \in 1..Len(puts'[d]),
                      NEW p \in DOMAIN puts'[d][i]
               PROVE  Owner[p] \in {d, Shared}
    BY DEF KeepOut
  <2>1. CASE d /= c
    BY <1>1, <2>1 DEF KeepOut
  <2>2. CASE d = c /\ i <= Len(q)
    BY <1>0, <1>1, <2>2 DEF KeepOut, q
  <2>3. CASE d = c /\ ~(i <= Len(q))
    <3>1. i - Len(q) \in 1..Len(ws) /\ r[i] = ws[i - Len(q)]
      BY <1>0, <1>1, <2>3
    <3> QED
      BY <1>1, <1>3, <2>3, <3>1
  <2> QED
    BY <2>1, <2>2, <2>3
<1>5. ASSUME NEW p \in Owned(c), Untouched(ws, p)
      PROVE  mine'[p] = mine[p]
  BY <1>0, <1>2, <1>5, ViewNewest DEF Owned, Untouched, Newest
<1>6. NewestIsMine'
  <2> SUFFICES ASSUME NEW d \in Client, NEW p \in Owned(d), NEW i \in 1..Len(puts'[d]),
                      Newest(puts'[d], p, i)
               PROVE  puts'[d][i][p] = mine'[p]
    BY DEF NewestIsMine, Owned
  <2>1. CASE d /= c
    BY <1>1, <1>2, <2>1 DEF NewestIsMine, Owned
  <2>2. CASE d = c /\ i <= Len(q)
    <3>1. Newest(q, p, i)
      BY <1>0, <1>1, <2>2 DEF Newest
    <3>2. Untouched(ws, p)
      <4> SUFFICES ASSUME NEW k \in 1..Len(ws), p \in DOMAIN ws[k]
                   PROVE  FALSE
        BY DEF Untouched
      <4>1. k + Len(q) \in i+1..Len(r) /\ r[k + Len(q)] = ws[k]
        <5>1. i \in Nat /\ k \in Nat /\ i <= Len(q) /\ k >= 1 /\ k <= Len(ws)
          BY <1>0, <1>1, <2>2
        <5>2. k + Len(q) \in 1..Len(r) /\ k + Len(q) \in i+1..Len(r)
          BY <1>0, <5>1
        <5>3. ~(k + Len(q) <= Len(q)) /\ (k + Len(q)) - Len(q) = k
          BY <1>0, <5>1
        <5> QED
          BY <1>0, <5>2, <5>3
      <4> QED
        BY <1>1, <2>2, <4>1 DEF Newest
    <3>3. q[i][p] = mine[p]
      BY <2>2, <3>1 DEF NewestIsMine, q, Newest
    <3> QED
      BY <1>0, <1>1, <1>5, <2>2, <3>2, <3>3
  <2>3. CASE d = c /\ ~(i <= Len(q))
    <3> DEFINE n == i - Len(q)
    <3>1. n \in 1..Len(ws) /\ r[i] = ws[n] /\ n \in Nat
      BY <1>0, <1>1, <2>3
    <3>2. ASSUME NEW k \in n+1..Len(ws)
          PROVE  p \notin DOMAIN ws[k]
      <4>1. k + Len(q) \in i+1..Len(r) /\ r[k + Len(q)] = ws[k]
        BY <1>0, <1>1, <2>3
      <4> QED
        BY <1>1, <2>3, <4>1 DEF Newest
    <3>3. p \in DOMAIN ws[n]
      BY <1>1, <2>3, <3>1 DEF Newest
    <3> HIDE DEF n
    <3>4. PICK m \in 1..Len(ws) : Newest(ws, p, m) /\ View(mine, ws)[p] = ws[m][p]
      <4>1. p \in Path
        BY DEF Owned
      <4>2. ~Untouched(ws, p)
        BY <3>1, <3>3 DEF Untouched
      <4> QED
        BY <1>0, <4>1, <4>2, ViewNewest
    <3>5. m = n
      BY <1>0, <3>1, <3>2, <3>3, <3>4 DEF Newest
    <3> QED
      BY <1>1, <1>2, <2>3, <3>1, <3>4, <3>5 DEF Owned
  <2> QED
    BY <2>1, <2>2, <2>3
<1>7. UntouchedIsMine'
  <2> SUFFICES ASSUME NEW d \in Client, NEW p \in Owned(d), Untouched(puts'[d], p)
               PROVE  server[p] = mine'[p]
    BY <1>1 DEF UntouchedIsMine, Owned
  <2>1. CASE d /= c
    BY <1>1, <1>2, <2>1 DEF UntouchedIsMine, Owned
  <2>2. CASE d = c
    <3>1. Untouched(q, p)
      BY <1>0, <1>1, <2>2 DEF Untouched
    <3>2. Untouched(ws, p)
      <4> SUFFICES ASSUME NEW k \in 1..Len(ws), p \in DOMAIN ws[k]
                   PROVE  FALSE
        BY DEF Untouched
      <4>1. k + Len(q) \in 1..Len(r) /\ r[k + Len(q)] = ws[k]
        BY <1>0
      <4> QED
        BY <1>1, <2>2, <4>1 DEF Untouched
    <3> QED
      BY <1>5, <2>2, <3>1, <3>2 DEF UntouchedIsMine, q
  <2> QED
    BY <2>1, <2>2
<1>8. ExecutedPrefix'
  <2> SUFFICES ASSUME NEW d \in Client, NEW p \in Owned(d), NEW i \in 1..applied[d],
                      p \in DOMAIN puts'[d][i],
                      \A k \in i+1..applied[d] : p \notin DOMAIN puts'[d][k]
               PROVE  server[p] = puts'[d][i][p]
    BY <1>1 DEF ExecutedPrefix, Owned
  <2>1. \A k \in 1..applied[d] : puts'[d][k] = puts[d][k]
    BY <1>0, <1>1 DEF OwnTypeOK, SyncTypeOK, q
  <2>2. i+1..applied[d] \subseteq 1..applied[d]
    BY DEF OwnTypeOK, SyncTypeOK
  <2> QED
    BY <2>1, <2>2 DEF ExecutedPrefix
<1> QED
  BY <1>4, <1>6, <1>7, <1>8

LEMMA ApplyInv ==
    ASSUME OwnInv, NEW c \in Client, ServerApply(c), mine' = mine
    PROVE  KeepOut' /\ NewestIsMine' /\ UntouchedIsMine' /\ ExecutedPrefix'
<1> USE DEF OwnInv
<1> DEFINE n == applied[c] + 1
           w == puts[c][n]
<1>0. /\ n \in 1..Len(puts[c]) /\ n \in Nat
      /\ puts' = puts
      /\ applied'[c] = n
      /\ \A d \in Client \ {c} : applied'[d] = applied[d]
      /\ \A p \in Path : server'[p] = IF p \in DOMAIN w THEN w[p] ELSE server[p]
  BY DEF ServerApply, ApplyWrite, OwnTypeOK, SyncTypeOK
<1>1. ASSUME NEW d \in Client, NEW p \in Owned(d), d /= c
      PROVE  p \notin DOMAIN w
  BY <1>0, <1>1, OwnWritesAssumption DEF KeepOut, Owned
<1>2. KeepOut' /\ NewestIsMine'
  BY <1>0 DEF KeepOut, NewestIsMine, Owned
<1> HIDE DEF n, w
<1>3. UntouchedIsMine'
  <2> SUFFICES ASSUME NEW d \in Client, NEW p \in Owned(d), Untouched(puts[d], p)
               PROVE  server'[p] = mine[p]
    BY <1>0 DEF UntouchedIsMine, Owned
  <2>1. p \notin DOMAIN w
    BY <1>0, <1>1 DEF Untouched, w
  <2> QED
    BY <1>0, <2>1 DEF UntouchedIsMine, Owned
<1>4. ExecutedPrefix'
  <2> SUFFICES ASSUME NEW d \in Client, NEW p \in Owned(d), NEW i \in 1..applied'[d],
                      p \in DOMAIN puts[d][i],
                      \A k \in i+1..applied'[d] : p \notin DOMAIN puts[d][k]
               PROVE  server'[p] = puts[d][i][p]
    BY <1>0 DEF ExecutedPrefix, Owned
  <2>0. p \in Path /\ applied[d] \in Nat
    BY DEF Owned, OwnTypeOK, SyncTypeOK
  <2>1. CASE d /= c
    BY <1>0, <1>1, <2>0, <2>1 DEF ExecutedPrefix
  <2>2. CASE d = c /\ i = n
    BY <1>0, <2>0, <2>2 DEF w
  <2>3. CASE d = c /\ i /= n
    <3>1. i \in 1..applied[c] /\ n \in i+1..applied'[c]
      BY <1>0, <2>0, <2>3 DEF n
    <3>2. p \notin DOMAIN w
      BY <2>3, <3>1 DEF w
    <3>3. i+1..applied[c] \subseteq i+1..applied'[c]
      BY <1>0, <2>0, <2>3, <3>1 DEF n
    <3> QED
      BY <1>0, <2>0, <2>3, <3>1, <3>2, <3>3 DEF ExecutedPrefix
  <2> QED
    BY <2>1, <2>2, <2>3
<1> QED
  BY <1>2, <1>3, <1>4

LEMMA AckInv ==
    ASSUME OwnInv, NEW c \in Client, AckPut(c), mine' = mine
    PROVE  KeepOut' /\ NewestIsMine' /\ UntouchedIsMine' /\ ExecutedPrefix'
<1> USE DEF OwnInv
<1> DEFINE q == puts[c]
           r == Tail(q)
<1>0. /\ q \in Seq(Write) /\ Len(q) \in Nat /\ applied[c] \in 1..Len(q)
      /\ Len(r) = Len(q) - 1
      /\ \A i \in 1..Len(r) : r[i] = q[i + 1]
  <2>1. q \in Seq(Write) /\ Len(q) \in Nat /\ applied[c] \in 1..Len(q)
    BY DEF AckPut, OwnTypeOK, SyncTypeOK
  <2>2. q /= <<>>
    BY <2>1
  <2> QED
    BY <2>1, <2>2, HeadTailProperties
<1>1. /\ puts'[c] = r
      /\ \A d \in Client \ {c} : puts'[d] = puts[d] /\ applied'[d] = applied[d]
      /\ applied'[c] = applied[c] - 1
      /\ server' = server
  BY DEF AckPut, OwnTypeOK, SyncTypeOK
<1> HIDE DEF q, r
<1>2. KeepOut'
  <2> SUFFICES ASSUME NEW d \in Client, NEW i \in 1..Len(puts'[d]),
                      NEW p \in DOMAIN puts'[d][i]
               PROVE  Owner[p] \in {d, Shared}
    BY DEF KeepOut
  <2>1. CASE d /= c
    BY <1>1, <2>1 DEF KeepOut
  <2>2. CASE d = c
    <3>1. i + 1 \in 1..Len(q) /\ puts'[c][i] = q[i + 1]
      BY <1>0, <1>1, <2>2
    <3> QED
      BY <2>2, <3>1 DEF KeepOut, q
  <2> QED
    BY <2>1, <2>2
<1>3. NewestIsMine'
  <2> SUFFICES ASSUME NEW d \in Client, NEW p \in Owned(d), NEW i \in 1..Len(puts'[d]),
                      Newest(puts'[d], p, i)
               PROVE  puts'[d][i][p] = mine[p]
    BY DEF NewestIsMine, Owned
  <2>1. CASE d /= c
    BY <1>1, <2>1 DEF NewestIsMine
  <2>2. CASE d = c
    <3>1. i + 1 \in 1..Len(q) /\ puts'[c][i] = q[i + 1]
      BY <1>0, <1>1, <2>2
    <3>2. ASSUME NEW k \in i+2..Len(q)
          PROVE  p \notin DOMAIN q[k]
      <4>1. k - 1 \in i+1..Len(r) /\ r[k - 1] = q[k]
        BY <1>0, <1>1, <2>2
      <4> QED
        BY <1>1, <2>2, <4>1 DEF Newest
    <3>3. Newest(q, p, i + 1)
      BY <1>0, <2>2, <3>1, <3>2 DEF Newest
    <3> QED
      BY <2>2, <3>1, <3>3 DEF NewestIsMine, q
  <2> QED
    BY <2>1, <2>2
<1>4. UntouchedIsMine'
  <2> SUFFICES ASSUME NEW d \in Client, NEW p \in Owned(d), Untouched(puts'[d], p)
               PROVE  server[p] = mine[p]
    BY <1>1 DEF UntouchedIsMine, Owned
  <2>1. CASE d /= c
    BY <1>1, <2>1 DEF UntouchedIsMine
  <2>2. CASE d = c
    <3>1. ASSUME NEW k \in 2..Len(q)
          PROVE  p \notin DOMAIN q[k]
      <4>1. k - 1 \in 1..Len(r) /\ r[k - 1] = q[k]
        BY <1>0
      <4> QED
        BY <1>1, <2>2, <4>1 DEF Untouched
    <3>2. CASE p \in DOMAIN q[1]
      <4>1. Newest(q, p, 1)
        BY <1>0, <3>1, <3>2 DEF Newest
      <4>2. q[1][p] = mine[p]
        BY <1>0, <2>2, <4>1 DEF NewestIsMine, q
      <4>3. \A k \in 2..applied[c] : p \notin DOMAIN q[k]
        BY <1>0, <3>1
      <4>4. server[p] = q[1][p]
        BY <1>0, <2>2, <3>2, <4>3 DEF ExecutedPrefix, q
      <4> QED
        BY <4>2, <4>4
    <3>3. CASE p \notin DOMAIN q[1]
      <4>1. Untouched(q, p)
        BY <1>0, <3>1, <3>3 DEF Untouched
      <4> QED
        BY <2>2, <4>1 DEF UntouchedIsMine, q
    <3> QED
      BY <3>2, <3>3
  <2> QED
    BY <2>1, <2>2
<1>5. ExecutedPrefix'
  <2> SUFFICES ASSUME NEW d \in Client, NEW p \in Owned(d), NEW i \in 1..applied'[d],
                      p \in DOMAIN puts'[d][i],
                      \A k \in i+1..applied'[d] : p \notin DOMAIN puts'[d][k]
               PROVE  server[p] = puts'[d][i][p]
    BY <1>1 DEF ExecutedPrefix, Owned
  <2>1. CASE d /= c
    BY <1>1, <2>1 DEF ExecutedPrefix
  <2>2. CASE d = c
    <3>1. i + 1 \in 1..applied[c] /\ puts'[c][i] = q[i + 1]
      BY <1>0, <1>1, <2>2
    <3>2. ASSUME NEW k \in i+2..applied[c]
          PROVE  p \notin DOMAIN q[k]
      <4>1. k - 1 \in i+1..applied'[c] /\ r[k - 1] = q[k]
        BY <1>0, <1>1, <2>2
      <4> QED
        BY <1>1, <2>2, <4>1
    <3> QED
      BY <1>0, <2>2, <3>1, <3>2 DEF ExecutedPrefix, q
  <2> QED
    BY <2>1, <2>2
<1> QED
  BY <1>2, <1>3, <1>4, <1>5

LEMMA OwnStep == OwnInv /\ [OwnNext]_ownVars => OwnInv'
<1> SUFFICES ASSUME OwnInv, [OwnNext]_ownVars
             PROVE  OwnInv'
  OBVIOUS
<1>0. OwnTypeOK'
  BY TypeStep DEF OwnInv
<1>1. ASSUME NEW c \in Client, NEW ws \in Batch, OwnIssue(c, ws)
      PROVE  OwnInv'
  BY <1>0, <1>1, IssueInv DEF OwnInv
<1>2. ASSUME NEW c \in Client, ServerApply(c), UNCHANGED <<mine, drops, kills>>
      PROVE  OwnInv'
  BY <1>0, <1>2, ApplyInv DEF OwnInv
<1>3. ASSUME NEW c \in Client, AckPut(c), UNCHANGED <<mine, drops, kills>>
      PROVE  OwnInv'
  BY <1>0, <1>3, AckInv DEF OwnInv
<1>4. ASSUME NEW c \in Client, RestoreState(c), UNCHANGED <<mine, drops, kills>>
      PROVE  OwnInv'
  BY <1>0, <1>4 DEF OwnInv, RestoreState, KeepOut, NewestIsMine, UntouchedIsMine,
                    ExecutedPrefix, Owned
<1>5. ASSUME NEW c \in Client, OwnDisconnect(c)
      PROVE  OwnInv'
  <2>1. KeepOut' /\ NewestIsMine' /\ UntouchedIsMine'
    BY <1>5 DEF OwnInv, OwnDisconnect, OnDisconnect, KeepOut, NewestIsMine,
                UntouchedIsMine, Owned
  <2>2. ExecutedPrefix'
    <3>1. /\ applied'[c] = 0 /\ puts' = puts /\ server' = server
          /\ \A d \in Client \ {c} : applied'[d] = applied[d]
      BY <1>5 DEF OwnInv, OwnDisconnect, OnDisconnect, OwnTypeOK, SyncTypeOK
    <3> QED
      BY <3>1 DEF OwnInv, ExecutedPrefix, Owned
  <2> QED
    BY <1>0, <2>1, <2>2 DEF OwnInv
<1>6. ASSUME NEW c \in Client, OwnKill(c)
      PROVE  OwnInv'
  <2>1. /\ puts'[c] = <<>> /\ applied'[c] = 0 /\ server' = server
        /\ \A d \in Client \ {c} : puts'[d] = puts[d] /\ applied'[d] = applied[d]
        /\ \A p \in Path : mine'[p] = IF Owner[p] = c THEN server[p] ELSE mine[p]
    BY <1>6 DEF OwnKill, LosePuts, OwnInv, OwnTypeOK, SyncTypeOK
  <2>2. KeepOut' /\ NewestIsMine'
    BY <2>1 DEF OwnInv, KeepOut, NewestIsMine, Owned, Newest
  <2>3. UntouchedIsMine'
    BY <2>1 DEF OwnInv, UntouchedIsMine, Owned
  <2>4. ExecutedPrefix'
    BY <2>1 DEF OwnInv, ExecutedPrefix, Owned
  <2> QED
    BY <1>0, <2>2, <2>3, <2>4 DEF OwnInv
<1>7. CASE UNCHANGED ownVars
  BY <1>0, <1>7 DEF OwnInv, ownVars, syncVars, KeepOut, NewestIsMine,
                    UntouchedIsMine, ExecutedPrefix, Owned
<1> QED
  BY <1>1, <1>2, <1>3, <1>4, <1>5, <1>6, <1>7 DEF OwnNext, Transport

LEMMA OwnInvariant == OwnSpec => []OwnInv
<1>1. OwnInit => OwnInv
  BY DEF OwnInit, SyncInit, OwnInv, OwnTypeOK, SyncTypeOK, DB, KeepOut,
         NewestIsMine, UntouchedIsMine, ExecutedPrefix, Owned, Newest
<1> QED
  BY <1>1, OwnStep, PTL DEF OwnSpec

\* Whatever the connection and the other clients do, a client reads the last
\* value that it wrote on every path of its own.
THEOREM ClientsReadTheirWrites == OwnSpec => []ReadYourWrites
<1>1. OwnInv => ReadYourWrites
  BY InvReads DEF OwnInv
<1> QED
  BY <1>1, OwnInvariant, PTL

\* The executed part of a client's queue is what the server shows of the
\* client's own paths: puts sent again by restoreState undo newer ones only
\* until those are executed again too.
THEOREM ExecutedPutsShow == OwnSpec => []ExecutedPrefix
<1>1. OwnInv => ExecutedPrefix
  BY DEF OwnInv
<1> QED
  BY <1>1, OwnInvariant, PTL
=============================================================================

--------------------------- MODULE JobBoardProofs ---------------------------
(***************************************************************************)
(* The posted jobs, for every set of clients, jobs, applications and       *)
(* titles, every list of fields, every enumeration order of dictionaries   *)
(* and every bound.                                                        *)
(***************************************************************************)
EXTENDS JobBoard, MaxLemma, SequenceTheorems, TLAPS

\* A field and an application are different leaves, a field holds text.
LEMMA LeafFacts ==
    /\ Field \subseteq Leaf /\ App \subseteq Leaf
    /\ \A f \in Field : f \notin App
    /\ \A t \in Title, c \in Client, f \in Field :
          FieldValue(t, c, f) \in Value /\ FieldValue(t, c, f) /= Null
  BY ClientAssumption DEF Leaf, FieldValue, Value

\* The four kinds of writes.
LEMMA WriteFacts ==
    ASSUME NEW w \in JobWrite
    PROVE  /\ DOMAIN w \subseteq Path
           /\ \A x \in DOMAIN w : w[x] \in Value \cup {Null}
<1>1. CASE \E j \in Job, f \in Field, v \in Value : w = PutField(j, f, v)
  BY <1>1 DEF PutField, Path, Leaf
<1>2. CASE \E j \in Job, a \in App, c \in Client : w = PutApplication(j, a, c)
  BY <1>2 DEF PutApplication, Path, Leaf, Value
<1>3. CASE \E q \in Job \X App : w = RemoveApplicationAt(q)
  BY <1>3 DEF RemoveApplicationAt, Path, Leaf
<1>4. CASE \E j \in Job : w = RemoveJobAt(j)
  BY <1>4 DEF RemoveJobAt, Path
<1> QED
  BY <1>1, <1>2, <1>3, <1>4 DEF JobWrite

-----------------------------------------------------------------------------
(* The inductive invariant.                                                *)

\* Put i of client c writes field f of job j.
Writes(c, i, j, f) == i \in 1..Len(puts[c]) /\ <<j, f>> \in DOMAIN puts[c][i]

\* v may be written to field f of job j: what its CreateJob was given, or
\* Null for a job that is being removed.
MayHold(v, j, f) ==
    \/ v = Null /\ j \in removed
    \/ posted[j] /= Null /\ v = FieldValue(posted[j].title, posted[j].poster, f)

PutsMayHold ==
    \A c \in Client : \A i \in Nat : \A j \in Job : \A f \in Field :
        Writes(c, i, j, f) => MayHold(puts[c][i][<<j, f>>], j, f)

ServerMayHold ==
    \A j \in Job : \A f \in Field :
        server[<<j, f>>] = Null \/ MayHold(server[<<j, f>>], j, f)

\* What was executed on this connection is there, unless it was removed.
ExecutedThere ==
    \A c \in Client : \A i \in 1..applied[c] : \A j \in Job \ removed : \A f \in Field :
        Writes(c, i, j, f) => server[<<j, f>>] /= Null

\* A field is on its way only behind all earlier fields of its job.
QueueInOrder ==
    \A c \in Client : \A i \in Nat : \A j \in Job \ removed : \A k, l \in FieldNo :
        Writes(c, i, j, FieldOrder[l]) /\ k < l
        => \/ server[<<j, FieldOrder[k]>>] /= Null
           \/ \E m \in 1..(i - 1) : Writes(c, m, j, FieldOrder[k])

ServerInOrder == \A j \in Job \ removed : InOrder(server, j)

\* MissingFieldExplained, in terms of Writes.
Explained ==
    \A j \in Job : \A f \in Field :
        posted[j] /= Null /\ server[<<j, f>>] = Null
        => \/ j \in removed \cup cut
           \/ \E i \in Nat : Writes(posted[j].poster, i, j, f)

FieldInv == /\ PutsMayHold /\ ServerMayHold /\ ExecutedThere
            /\ QueueInOrder /\ ServerInOrder /\ Explained

BoardInv == SharedTypeOK /\ FieldInv

\* The facts about types that the proofs use.
LEMMA TypeFacts ==
    ASSUME SharedTypeOK
    PROVE  /\ server \in [Path -> Value \cup {Null}]
           /\ puts \in [Client -> Seq(JobWrite)]
           /\ applied \in [Client -> Nat]
           /\ \A c \in Client : /\ puts[c] \in Seq(JobWrite)
                                /\ Len(puts[c]) \in Nat
                                /\ applied[c] \in Nat
                                /\ applied[c] <= Len(puts[c])
           /\ posted \in [Job -> [title : Title, poster : Poster] \cup {Null}]
           /\ removed \subseteq Job
  BY DEF SharedTypeOK, Sync!SyncTypeOK, Sync!DB

LEMMA FieldFacts ==
    /\ \A k \in FieldNo : FieldOrder[k] \in Field
    /\ \A f \in Field : \E k \in FieldNo : f = FieldOrder[k]
    /\ \A k, l \in FieldNo : FieldOrder[k] = FieldOrder[l] => k = l
    /\ FieldNo \subseteq Nat
    /\ \A j \in Job, f \in Field : <<j, f>> \in Path
  BY FieldAssumption DEF Field, FieldNo, Path, Leaf

\* Writes and the puts that Sync!Writers finds.
LEMMA WritersFacts ==
    ASSUME SharedTypeOK, NEW c \in Client, NEW j \in Job, NEW f \in Field
    PROVE  /\ \A i : Writes(c, i, j, f) <=> i \in Sync!Writers(puts[c], <<j, f>>)
           /\ Sync!Writers(puts[c], <<j, f>>) \subseteq 1..Len(puts[c])
           /\ Sync!Writers(puts[c], <<j, f>>) /= {} <=> \E i \in Nat : Writes(c, i, j, f)
<1>1. DOMAIN puts[c] = 1..Len(puts[c]) /\ Len(puts[c]) \in Nat
  BY TypeFacts
<1>2. Sync!Writers(puts[c], <<j, f>>) = {i \in 1..Len(puts[c]) : <<j, f>> \in DOMAIN puts[c][i]}
  BY <1>1 DEF Sync!Writers
<1>3. \A i : Writes(c, i, j, f) <=> i \in Sync!Writers(puts[c], <<j, f>>)
  BY <1>2 DEF Writes
<1>4. 1..Len(puts[c]) \subseteq Nat
  BY <1>1
<1> QED
  BY <1>2, <1>3, <1>4

-----------------------------------------------------------------------------
(* Issuing writes. What the four issuing actions have in common.           *)

LEMMA IssueStep ==
    ASSUME BoardInv,
           NEW c \in Client, NEW ws \in Seq(JobWrite),
           Sync!Issue(c, ws),
           cut' = cut,
           removed \subseteq removed',
           \A j \in Job : posted[j] /= Null => posted'[j] = posted[j],
           \A i \in 1..Len(ws) : \A j \in Job : \A f \in Field :
              <<j, f>> \in DOMAIN ws[i] => MayHold(ws[i][<<j, f>>], j, f)',
           \A i \in 1..Len(ws) : \A j \in Job \ removed' : \A k, l \in FieldNo :
              <<j, FieldOrder[l]>> \in DOMAIN ws[i] /\ k < l
              => \E m \in 1..(i - 1) : <<j, FieldOrder[k]>> \in DOMAIN ws[m],
           \A j \in Job : posted[j] = Null /\ posted'[j] /= Null =>
              /\ posted'[j].poster = c
              /\ \A f \in Field : \E i \in 1..Len(ws) : <<j, f>> \in DOMAIN ws[i]
    PROVE  FieldInv'
<1> DEFINE q == puts[c]
           r == q \o ws
<1>n. PICK n \in Nat : n = Len(puts[c])
  BY TypeFacts DEF BoardInv
<1>0. /\ q \in Seq(JobWrite) /\ n \in Nat /\ Len(ws) \in Nat /\ Len(r) = n + Len(ws)
      /\ \A i \in 1..n : r[i] = q[i]
      /\ \A i \in 1..Len(ws) : n + i \in Nat /\ r[n + i] = ws[i]
  <2>1. q \in Seq(JobWrite) /\ n \in Nat /\ Len(ws) \in Nat
    BY TypeFacts DEF BoardInv
  <2>2. /\ Len(r) = n + Len(ws)
        /\ \A i \in 1..Len(r) : r[i] = IF i <= n THEN q[i] ELSE ws[i - n]
    BY <1>n, <2>1, ConcatProperties
  <2> HIDE DEF q, r
  <2>3. \A i \in 1..n : r[i] = q[i]
    BY <2>1, <2>2
  <2>4. ASSUME NEW i \in 1..Len(ws)
        PROVE  n + i \in Nat /\ r[n + i] = ws[i]
    <3>1. n + i \in 1..Len(r) /\ ~(n + i <= n) /\ (n + i) - n = i
      BY <2>1, <2>2
    <3> QED
      BY <2>1, <2>2, <3>1
  <2> QED
    BY <2>1, <2>2, <2>3, <2>4
<1>1. /\ puts'[c] = r
      /\ \A d \in Client \ {c} : puts'[d] = puts[d]
      /\ server' = server /\ applied' = applied
  BY TypeFacts DEF Sync!Issue, BoardInv
<1> HIDE DEF q, r
\* Old puts are where they were, new ones behind them.
<1>2. \A d \in Client : \A i \in Nat : \A j \in Job : \A f \in Field :
         Writes(d, i, j, f) => Writes(d, i, j, f)' /\ puts'[d][i] = puts[d][i]
  BY <1>n, <1>0, <1>1 DEF Writes, q
<1>3. ASSUME NEW i \in Nat, NEW j \in Job, NEW f \in Field, Writes(c, i, j, f)'
      PROVE  \/ Writes(c, i, j, f)
             \/ \E m \in 1..Len(ws) : i = n + m /\ <<j, f>> \in DOMAIN ws[m]
                                      /\ puts'[c][i] = ws[m]
  <2>0. i \in 1..(n + Len(ws)) /\ <<j, f>> \in DOMAIN r[i]
    BY <1>0, <1>1, <1>3 DEF Writes
  <2>1. CASE i <= n
    BY <1>n, <1>0, <1>1, <2>0, <2>1 DEF Writes, q
  <2>2. CASE ~(i <= n)
    <3>1. (i - n) \in 1..Len(ws) /\ i = n + (i - n)
      BY <1>0, <2>0, <2>2
    <3>2. r[i] = ws[i - n]
      BY <1>0, <3>1
    <3> QED
      BY <1>1, <2>0, <3>1, <3>2
  <2> QED
    BY <2>1, <2>2
<1>4. \A d \in Client \ {c} : \A i \in Nat : \A j \in Job : \A f \in Field :
         Writes(d, i, j, f)' <=> Writes(d, i, j, f)
  BY <1>1 DEF Writes
<1>5. \A m \in 1..Len(ws) : \A j \in Job : \A f \in Field :
         <<j, f>> \in DOMAIN ws[m] => Writes(c, n + m, j, f)'
  <2> SUFFICES ASSUME NEW m \in 1..Len(ws), NEW j \in Job, NEW f \in Field,
                      <<j, f>> \in DOMAIN ws[m]
               PROVE  Writes(c, n + m, j, f)'
    OBVIOUS
  <2>1. n + m \in 1..Len(r)
    BY <1>0
  <2>2. n + m \in 1..Len(puts'[c]) /\ <<j, f>> \in DOMAIN puts'[c][n + m]
    BY <1>0, <1>1, <2>1
  <2> QED
    BY <2>2 DEF Writes
<1>6. \A j \in Job : \A f \in Field : \A v : MayHold(v, j, f) => MayHold(v, j, f)'
  BY DEF MayHold
<1>7. PutsMayHold'
  <2> SUFFICES ASSUME NEW d \in Client, NEW i \in Nat, NEW j \in Job, NEW f \in Field,
                      Writes(d, i, j, f)'
               PROVE  MayHold(puts[d][i][<<j, f>>], j, f)'
    BY DEF PutsMayHold
  <2>1. CASE Writes(d, i, j, f)
    BY <1>2, <1>6, <2>1 DEF BoardInv, FieldInv, PutsMayHold
  <2>2. CASE ~Writes(d, i, j, f)
    BY <1>3, <1>4, <2>2
  <2> QED
    BY <2>1, <2>2
<1>8. ServerMayHold'
  BY <1>1, <1>6 DEF BoardInv, FieldInv, ServerMayHold
<1>9. ExecutedThere'
  <2> SUFFICES ASSUME NEW d \in Client, NEW i \in 1..applied[d], NEW j \in Job \ removed',
                      NEW f \in Field, Writes(d, i, j, f)'
               PROVE  server[<<j, f>>] /= Null
    BY <1>1 DEF ExecutedThere
  <2>1. i \in Nat /\ i <= Len(puts[d]) /\ j \in Job \ removed
    BY TypeFacts DEF BoardInv
  <2>2. Writes(d, i, j, f)
    <3>1. CASE d = c
      <4>1. ~ \E m \in 1..Len(ws) : i = n + m
        BY <1>n, <1>0, <2>1, <3>1
      <4> QED
        BY <1>3, <2>1, <3>1, <4>1
    <3>2. CASE d /= c
      BY <1>4, <2>1, <3>2
    <3> QED
      BY <3>1, <3>2
  <2> QED
    BY <2>1, <2>2 DEF BoardInv, FieldInv, ExecutedThere
<1>10. QueueInOrder'
  <2> SUFFICES ASSUME NEW d \in Client, NEW i \in Nat, NEW j \in Job \ removed',
                      NEW k \in FieldNo, NEW l \in FieldNo,
                      Writes(d, i, j, FieldOrder[l])', k < l,
                      server[<<j, FieldOrder[k]>>] = Null
               PROVE  \E m \in 1..(i - 1) : Writes(d, m, j, FieldOrder[k])'
    BY <1>1 DEF QueueInOrder
  <2>0. j \in Job \ removed /\ FieldOrder[k] \in Field /\ FieldOrder[l] \in Field
    BY FieldFacts
  <2>1. CASE Writes(d, i, j, FieldOrder[l])
    <3>1. PICK m \in 1..(i - 1) : Writes(d, m, j, FieldOrder[k])
      BY <2>0, <2>1 DEF BoardInv, FieldInv, QueueInOrder
    <3>2. m \in Nat
      OBVIOUS
    <3> QED
      BY <1>2, <2>0, <3>1, <3>2
  <2>2. CASE ~Writes(d, i, j, FieldOrder[l])
    <3>1. d = c
      BY <1>4, <2>0, <2>2
    <3>2. PICK m \in 1..Len(ws) : i = n + m /\ <<j, FieldOrder[l]>> \in DOMAIN ws[m]
      BY <1>3, <2>0, <2>2, <3>1
    <3>3. PICK h \in 1..(m - 1) : <<j, FieldOrder[k]>> \in DOMAIN ws[h]
      BY <3>2
    <3>4. h \in 1..Len(ws) /\ n + h \in 1..(i - 1)
      BY <1>0, <3>2
    <3> QED
      BY <1>5, <2>0, <3>1, <3>3, <3>4
  <2> QED
    BY <2>1, <2>2
<1>11. ServerInOrder'
  BY <1>1 DEF BoardInv, FieldInv, ServerInOrder, InOrder
<1>12. Explained'
  <2> SUFFICES ASSUME NEW j \in Job, NEW f \in Field, posted'[j] /= Null,
                      server[<<j, f>>] = Null, j \notin removed' \cup cut
               PROVE  \E i \in Nat : Writes(posted[j].poster, i, j, f)'
    BY <1>1 DEF Explained
  <2>1. CASE posted[j] = Null
    <3>1. PICK m \in 1..Len(ws) : <<j, f>> \in DOMAIN ws[m]
      BY <2>1
    <3>2. Writes(c, n + m, j, f)' /\ n + m \in Nat
      BY <1>0, <1>5, <3>1
    <3>3. posted'[j].poster = c
      BY <2>1
    <3> QED
      BY <3>2, <3>3 DEF Writes
  <2>2. CASE posted[j] /= Null
    <3>1. PICK i \in Nat : Writes(posted[j].poster, i, j, f)
      BY <2>2 DEF BoardInv, FieldInv, Explained
    <3>2. posted[j].poster \in Client
      BY <2>2, TypeFacts DEF BoardInv, Client
    <3>3. posted'[j] = posted[j]
      BY <2>2
    <3> QED
      BY <1>2, <3>1, <3>2, <3>3 DEF Writes
  <2> QED
    BY <2>1, <2>2
<1> QED
  BY <1>7, <1>8, <1>9, <1>10, <1>11, <1>12 DEF FieldInv

-----------------------------------------------------------------------------
(* The other steps of the shared state.                                    *)

\* A step that writes nothing; a broken connection forgets what was executed.
LEMMA QuietStep ==
    ASSUME BoardInv,
           server' = server, puts' = puts,
           \A c \in Client : applied'[c] = applied[c] \/ applied'[c] = 0,
           posted' = posted, removed' = removed, cut' = cut
    PROVE  FieldInv'
<1>1. \A c, i, j, f : Writes(c, i, j, f)' <=> Writes(c, i, j, f)
  BY DEF Writes
<1>2. \A v, j, f : MayHold(v, j, f)' <=> MayHold(v, j, f)
  BY DEF MayHold
<1>3. PutsMayHold' /\ ServerMayHold'
  BY <1>1, <1>2 DEF BoardInv, FieldInv, PutsMayHold, ServerMayHold
<1>4. ExecutedThere'
  <2> SUFFICES ASSUME NEW c \in Client, NEW i \in 1..applied'[c], NEW j \in Job \ removed,
                      NEW f \in Field, Writes(c, i, j, f)
               PROVE  server[<<j, f>>] /= Null
    BY <1>1 DEF ExecutedThere
  <2>1. applied'[c] = applied[c]
    OBVIOUS
  <2> QED
    BY <2>1 DEF BoardInv, FieldInv, ExecutedThere
<1>5. QueueInOrder'
  BY <1>1 DEF BoardInv, FieldInv, QueueInOrder
<1>6. ServerInOrder'
  BY DEF BoardInv, FieldInv, ServerInOrder, InOrder
<1>7. Explained'
  BY <1>1 DEF BoardInv, FieldInv, Explained
<1> QED
  BY <1>3, <1>4, <1>5, <1>6, <1>7 DEF FieldInv

\* The server executes a put: of a job that nobody removed it only adds a
\* field, and the fields before it are there.
LEMMA ApplyStep ==
    ASSUME BoardInv, NEW c \in Client, Sync!ServerApply(c),
           posted' = posted, removed' = removed, cut' = cut
    PROVE  /\ FieldInv'
           /\ \A j \in Job \ removed : \A f \in Field :
                 server[<<j, f>>] /= Null => server'[<<j, f>>] /= Null
<1>n. PICK n \in Nat : n = applied[c] /\ n + 1 \in 1..Len(puts[c])
  BY TypeFacts DEF BoardInv, Sync!ServerApply
<1> DEFINE w == puts[c][n + 1]
<1>0. /\ puts' = puts /\ applied' = [applied EXCEPT ![c] = n + 1]
      /\ \A x \in Path : server'[x] = IF x \in DOMAIN w THEN w[x] ELSE server[x]
  BY <1>n DEF Sync!ServerApply, Sync!ApplyWrite
<1>1. \A d, i, j, f : Writes(d, i, j, f)' <=> Writes(d, i, j, f)
  BY <1>0 DEF Writes
<1>2. \A v, j, f : MayHold(v, j, f)' <=> MayHold(v, j, f)
  BY DEF MayHold
<1>3. \A j \in Job : \A f \in Field : <<j, f>> \in DOMAIN w <=> Writes(c, n + 1, j, f)
  BY <1>n DEF Writes
<1>4. \A j \in Job : \A f \in Field :
         <<j, f>> \in DOMAIN w => /\ MayHold(w[<<j, f>>], j, f)
                                  /\ server'[<<j, f>>] = w[<<j, f>>]
  BY <1>0, <1>3, FieldFacts DEF BoardInv, FieldInv, PutsMayHold
<1>5. \A j \in Job \ removed : \A f \in Field :
         <<j, f>> \in DOMAIN w => server'[<<j, f>>] /= Null
  <2> SUFFICES ASSUME NEW j \in Job \ removed, NEW f \in Field, <<j, f>> \in DOMAIN w
               PROVE  server'[<<j, f>>] /= Null
    OBVIOUS
  <2>1. posted[j] /= Null
        /\ server'[<<j, f>>] = FieldValue(posted[j].title, posted[j].poster, f)
    BY <1>4 DEF MayHold
  <2>2. posted[j].title \in Title /\ posted[j].poster \in Client
    BY <2>1, TypeFacts DEF BoardInv, Client
  <2> QED
    BY <2>1, <2>2, LeafFacts
<1>6. \A j \in Job : \A f \in Field :
         <<j, f>> \notin DOMAIN w => server'[<<j, f>>] = server[<<j, f>>]
  BY <1>0, FieldFacts
<1>7. \A j \in Job \ removed : \A f \in Field :
         server[<<j, f>>] /= Null => server'[<<j, f>>] /= Null
  BY <1>5, <1>6
<1> HIDE DEF w
<1>8. PutsMayHold' /\ ServerMayHold'
  <2>1. PutsMayHold'
    BY <1>0, <1>1, <1>2 DEF BoardInv, FieldInv, PutsMayHold
  <2>2. ServerMayHold'
    BY <1>2, <1>4, <1>6 DEF BoardInv, FieldInv, ServerMayHold
  <2> QED
    BY <2>1, <2>2
<1>9. ExecutedThere'
  <2> SUFFICES ASSUME NEW d \in Client, NEW i \in 1..applied'[d], NEW j \in Job \ removed,
                      NEW f \in Field, Writes(d, i, j, f)
               PROVE  server'[<<j, f>>] /= Null
    BY <1>1 DEF ExecutedThere
  <2>1. CASE i \in 1..applied[d]
    BY <1>7, <2>1 DEF BoardInv, FieldInv, ExecutedThere
  <2>2. CASE i \notin 1..applied[d]
    <3>1. d = c /\ i = n + 1
      BY <1>n, <1>0, <2>2, TypeFacts DEF BoardInv
    <3> QED
      BY <1>3, <1>5, <3>1
  <2> QED
    BY <2>1, <2>2
<1>10. QueueInOrder'
  BY <1>1, <1>7, FieldFacts DEF BoardInv, FieldInv, QueueInOrder
<1>11. ServerInOrder'
  <2> SUFFICES ASSUME NEW j \in Job \ removed, NEW k \in FieldNo, NEW l \in FieldNo, k < l,
                      server'[<<j, FieldOrder[l]>>] /= Null
               PROVE  server'[<<j, FieldOrder[k]>>] /= Null
    BY DEF ServerInOrder, InOrder
  <2>0. FieldOrder[k] \in Field /\ FieldOrder[l] \in Field
    BY FieldFacts
  <2>1. CASE server[<<j, FieldOrder[l]>>] /= Null
    BY <1>7, <2>0, <2>1 DEF BoardInv, FieldInv, ServerInOrder, InOrder
  <2>2. CASE server[<<j, FieldOrder[l]>>] = Null
    <3>1. Writes(c, n + 1, j, FieldOrder[l])
      BY <1>3, <1>6, <2>0, <2>2
    <3>2. \/ server[<<j, FieldOrder[k]>>] /= Null
          \/ \E m \in 1..((n + 1) - 1) : Writes(c, m, j, FieldOrder[k])
      BY <3>1 DEF BoardInv, FieldInv, QueueInOrder
    <3>3. server[<<j, FieldOrder[k]>>] /= Null
      BY <1>n, <2>0, <3>2 DEF BoardInv, FieldInv, ExecutedThere
    <3> QED
      BY <1>7, <2>0, <3>3
  <2> QED
    BY <2>1, <2>2
<1>12. Explained'
  BY <1>1, <1>7 DEF BoardInv, FieldInv, Explained
<1> QED
  BY <1>7, <1>8, <1>9, <1>10, <1>11, <1>12 DEF FieldInv

\* An acknowledged put was executed, so that forgetting it loses nothing.
LEMMA AckStep ==
    ASSUME BoardInv, NEW c \in Client, Sync!AckPut(c),
           posted' = posted, removed' = removed, cut' = cut
    PROVE  FieldInv'
<1>n. PICK n \in Nat : n = Len(puts[c]) /\ n > 0
  BY TypeFacts DEF BoardInv, Sync!AckPut
<1>0. /\ server' = server
      /\ applied[c] \in Nat \ {0} /\ applied'[c] = applied[c] - 1
      /\ Len(puts'[c]) = n - 1
      /\ \A i \in 1..(n - 1) : puts'[c][i] = puts[c][i + 1]
      /\ \A d \in Client \ {c} : puts'[d] = puts[d] /\ applied'[d] = applied[d]
  <2>1. puts[c] \in Seq(JobWrite) /\ puts[c] /= <<>>
    BY <1>n, TypeFacts DEF BoardInv
  <2>2. /\ Len(Tail(puts[c])) = n - 1
        /\ \A i \in 1..(n - 1) : Tail(puts[c])[i] = puts[c][i + 1]
    BY <1>n, <2>1, HeadTailProperties
  <2>3. puts'[c] = Tail(puts[c])
    BY TypeFacts DEF BoardInv, Sync!AckPut
  <2> QED
    BY <2>2, <2>3, TypeFacts DEF BoardInv, Sync!AckPut
<1>1. \A i \in Nat, j \in Job, f \in Field : Writes(c, i, j, f)' =>
         /\ i \in Nat \ {0} /\ Writes(c, i + 1, j, f) /\ puts'[c][i] = puts[c][i + 1]
  BY <1>n, <1>0 DEF Writes
<1>2. \A i \in Nat, j \in Job, f \in Field :
         Writes(c, i, j, f) => i = 1 \/ (i - 1 \in Nat \ {0} /\ Writes(c, i - 1, j, f)')
  <2> SUFFICES ASSUME NEW i \in Nat, NEW j \in Job, NEW f \in Field,
                      Writes(c, i, j, f), i /= 1
               PROVE  i - 1 \in Nat \ {0} /\ Writes(c, i - 1, j, f)'
    OBVIOUS
  <2>1. i - 1 \in 1..(n - 1) /\ (i - 1) + 1 = i
    BY <1>n DEF Writes
  <2>2. puts'[c][i - 1] = puts[c][i]
    BY <1>0, <2>1
  <2> QED
    BY <1>0, <2>1, <2>2 DEF Writes
<1>3. \A d \in Client \ {c} : \A i, j, f : Writes(d, i, j, f)' <=> Writes(d, i, j, f)
  BY <1>0 DEF Writes
<1>4. \A v, j, f : MayHold(v, j, f)' <=> MayHold(v, j, f)
  BY DEF MayHold
<1>5. PutsMayHold'
  <2> SUFFICES ASSUME NEW d \in Client, NEW i \in Nat, NEW j \in Job, NEW f \in Field,
                      Writes(d, i, j, f)'
               PROVE  MayHold(puts'[d][i][<<j, f>>], j, f)
    BY <1>4 DEF PutsMayHold
  <2>1. CASE d = c
    BY <1>1, <2>1 DEF BoardInv, FieldInv, PutsMayHold
  <2>2. CASE d /= c
    BY <1>0, <1>3, <2>2 DEF BoardInv, FieldInv, PutsMayHold
  <2> QED
    BY <2>1, <2>2
<1>6. ServerMayHold'
  BY <1>0, <1>4 DEF BoardInv, FieldInv, ServerMayHold
<1>7. ExecutedThere'
  <2> SUFFICES ASSUME NEW d \in Client, NEW i \in 1..applied'[d], NEW j \in Job \ removed,
                      NEW f \in Field, Writes(d, i, j, f)'
               PROVE  server[<<j, f>>] /= Null
    BY <1>0 DEF ExecutedThere
  <2>1. CASE d = c
    <3>1. i \in Nat /\ i + 1 \in 1..applied[c]
      BY <1>0, <2>1
    <3> QED
      BY <1>1, <2>1, <3>1 DEF BoardInv, FieldInv, ExecutedThere
  <2>2. CASE d /= c
    BY <1>0, <1>3, <2>2 DEF BoardInv, FieldInv, ExecutedThere
  <2> QED
    BY <2>1, <2>2
<1>8. QueueInOrder'
  <2> SUFFICES ASSUME NEW d \in Client, NEW i \in Nat, NEW j \in Job \ removed,
                      NEW k \in FieldNo, NEW l \in FieldNo,
                      Writes(d, i, j, FieldOrder[l])', k < l,
                      server[<<j, FieldOrder[k]>>] = Null
               PROVE  \E m \in 1..(i - 1) : Writes(d, m, j, FieldOrder[k])'
    BY <1>0 DEF QueueInOrder
  <2>0. FieldOrder[k] \in Field /\ FieldOrder[l] \in Field
    BY FieldFacts
  <2>1. CASE d = c
    <3>1. i + 1 \in Nat /\ Writes(c, i + 1, j, FieldOrder[l])
      BY <1>1, <2>0, <2>1
    <3>2. PICK m \in 1..((i + 1) - 1) : Writes(c, m, j, FieldOrder[k])
      BY <3>1 DEF BoardInv, FieldInv, QueueInOrder
    <3>3. m /= 1
      BY <1>0, <2>0, <3>2 DEF BoardInv, FieldInv, ExecutedThere
    <3>4. m \in Nat /\ m - 1 \in 1..(i - 1)
      BY <3>3
    <3> QED
      BY <1>2, <2>0, <2>1, <3>2, <3>3, <3>4
  <2>2. CASE d /= c
    BY <1>3, <2>0, <2>2 DEF BoardInv, FieldInv, QueueInOrder
  <2> QED
    BY <2>1, <2>2
<1>9. ServerInOrder'
  BY <1>0 DEF BoardInv, FieldInv, ServerInOrder, InOrder
<1>10. Explained'
  <2> SUFFICES ASSUME NEW j \in Job, NEW f \in Field, posted[j] /= Null,
                      server[<<j, f>>] = Null, j \notin removed \cup cut
               PROVE  \E i \in Nat : Writes(posted[j].poster, i, j, f)'
    BY <1>0 DEF Explained, Writes
  <2>1. PICK i \in Nat : Writes(posted[j].poster, i, j, f)
    BY DEF BoardInv, FieldInv, Explained
  <2>2. CASE posted[j].poster = c
    <3>1. i /= 1
      BY <1>0, <2>1, <2>2 DEF BoardInv, FieldInv, ExecutedThere
    <3> QED
      BY <1>2, <2>1, <2>2, <3>1 DEF Writes
  <2>3. CASE posted[j].poster /= c
    <3>1. posted[j].poster \in Client \ {c}
      BY <2>3, TypeFacts DEF BoardInv, Client
    <3> QED
      BY <1>3, <2>1, <3>1 DEF Writes
  <2> QED
    BY <2>2, <2>3
<1> QED
  BY <1>5, <1>6, <1>7, <1>8, <1>9, <1>10 DEF FieldInv

\* A killed process leaves its jobs as they are: cut names them.
LEMMA KillStep ==
    ASSUME BoardInv, NEW c \in Client, Sync!LosePuts(c),
           posted' = posted, removed' = removed, cut' = cut \cup InFlight(c)
    PROVE  FieldInv'
<1>0. /\ server' = server /\ puts'[c] = <<>> /\ applied'[c] = 0
      /\ \A d \in Client \ {c} : puts'[d] = puts[d] /\ applied'[d] = applied[d]
  BY TypeFacts DEF BoardInv, Sync!LosePuts
<1>1. \A i, j, f : ~Writes(c, i, j, f)'
  BY <1>0 DEF Writes
<1>2. \A d \in Client \ {c} : \A i, j, f : Writes(d, i, j, f)' <=> Writes(d, i, j, f)
  BY <1>0 DEF Writes
<1>3. \A v, j, f : MayHold(v, j, f)' <=> MayHold(v, j, f)
  BY DEF MayHold
<1>4. PutsMayHold' /\ ServerMayHold'
  BY <1>0, <1>1, <1>2, <1>3 DEF BoardInv, FieldInv, PutsMayHold, ServerMayHold
<1>5. ExecutedThere'
  BY <1>0, <1>1, <1>2 DEF BoardInv, FieldInv, ExecutedThere
<1>6. QueueInOrder'
  BY <1>0, <1>1, <1>2 DEF BoardInv, FieldInv, QueueInOrder
<1>7. ServerInOrder'
  BY <1>0 DEF BoardInv, FieldInv, ServerInOrder, InOrder
<1>8. Explained'
  <2> SUFFICES ASSUME NEW j \in Job, NEW f \in Field, posted[j] /= Null,
                      server[<<j, f>>] = Null, j \notin removed \cup cut',
                      posted[j].poster \in Client
               PROVE  \E i \in Nat : Writes(posted[j].poster, i, j, f)'
    BY <1>0, TypeFacts DEF BoardInv, Explained, Writes, Client
  <2>1. PICK i \in Nat : Writes(posted[j].poster, i, j, f)
    BY DEF BoardInv, FieldInv, Explained
  <2>2. posted[j].poster /= c
    <3>1. Writes(c, i, j, f) => j \in InFlight(c)
      BY WritersFacts DEF BoardInv, InFlight
    <3> QED
      BY <2>1, <3>1
  <2> QED
    BY <1>2, <2>1, <2>2 DEF Writes
<1> QED
  BY <1>4, <1>5, <1>6, <1>7, <1>8 DEF FieldInv

-----------------------------------------------------------------------------
(* Callbacks: the keys a closure has captured are keys of jobs.            *)

GoodRead(r) == "keys" \in DOMAIN r /\ r.keys \subseteq Job
GoodReads(q) == \E S : q \in Seq(S) /\ \A r \in S : GoodRead(r)
ReadsOK == /\ reads = [c \in Client |-> reads[c]]
           /\ \A c \in Client : GoodReads(reads[c])

LEMMA GoodIntro ==
    ASSUME NEW q, NEW S, q \in Seq(S), \A r \in S : GoodRead(r)
    PROVE  GoodReads(q)
  BY DEF GoodReads

\* A sequence given by a function constructor.
LEMMA GoodFunction ==
    ASSUME NEW n \in Nat, NEW q, q = [i \in 1..n |-> q[i]],
           \A i \in 1..n : GoodRead(q[i])
    PROVE  GoodReads(q)
<1> DEFINE S == {q[i] : i \in 1..n}
<1>1. q \in [1..n -> S]
  OBVIOUS
<1>3. \A r \in S : GoodRead(r)
  OBVIOUS
<1> HIDE DEF S
<1>2. q \in Seq(S)
  BY ONLY <1>1, n \in Nat
<1> QED
  BY <1>2, <1>3, GoodIntro

LEMMA GoodTail ==
    ASSUME NEW q, GoodReads(q), q /= <<>>
    PROVE  GoodRead(Head(q)) /\ GoodReads(Tail(q))
<1>1. PICK S : q \in Seq(S) /\ \A r \in S : GoodRead(r)
  BY DEF GoodReads
<1>2. Head(q) \in S /\ Tail(q) \in Seq(S)
  BY <1>1, HeadTailProperties
<1> QED
  BY <1>1, <1>2 DEF GoodReads

LEMMA GoodConcat ==
    ASSUME NEW q, NEW p, GoodReads(q), GoodReads(p)
    PROVE  GoodReads(q \o p)
<1>1. PICK S : q \in Seq(S) /\ \A r \in S : GoodRead(r)
  BY DEF GoodReads
<1>2. PICK T : p \in Seq(T) /\ \A r \in T : GoodRead(r)
  BY DEF GoodReads
<1>3. q \in Seq(S \cup T) /\ p \in Seq(S \cup T)
  <2>1. q \in Seq(S \cup T)
    BY <1>1
  <2>2. p \in Seq(S \cup T)
    BY <1>2
  <2> QED
    BY <2>1, <2>2
<1>4. q \o p \in Seq(S \cup T)
  BY <1>3, ConcatProperties
<1> QED
  BY <1>1, <1>2, <1>4 DEF GoodReads

\* Snapshots and closed popovers leave the keys alone.
LEMMA GoodUpdates ==
    ASSUME NEW q, GoodReads(q)
    PROVE  /\ GoodReads(Closed(q))
           /\ \A v : GoodReads([i \in DOMAIN q |-> [q[i] EXCEPT !.snap = v]])
<1>1. PICK S : q \in Seq(S) /\ \A r \in S : GoodRead(r)
  BY DEF GoodReads
<1>2. PICK n \in Nat : DOMAIN q = 1..n /\ n = Len(q)
  BY <1>1
<1>3. \A i \in 1..n : GoodRead(q[i])
  BY <1>1, <1>2
<1>4. GoodReads(Closed(q))
  <2>1. Closed(q) = [i \in 1..n |-> Closed(q)[i]]
    BY <1>2 DEF Closed
  <2>2. \A i \in 1..n : GoodRead(Closed(q)[i])
    BY <1>2, <1>3 DEF Closed, GoodRead
  <2> HIDE DEF GoodReads
  <2> QED
    BY <2>1, <2>2, GoodFunction
<1>5. ASSUME NEW v
      PROVE  GoodReads([i \in DOMAIN q |-> [q[i] EXCEPT !.snap = v]])
  <2> DEFINE p == [i \in DOMAIN q |-> [q[i] EXCEPT !.snap = v]]
  <2>1. p = [i \in 1..n |-> p[i]]
    BY <1>2
  <2>2. \A i \in 1..n : GoodRead(p[i])
    BY <1>2, <1>3 DEF GoodRead
  <2> HIDE DEF p
  <2>3. GoodReads(p)
    BY <2>1, <2>2, GoodFunction
  <2> QED
    BY <2>3 DEF p
<1> QED
  BY <1>4, <1>5

LEMMA GoodObserve ==
    ASSUME NEW q, NEW p, NEW v, GoodReads(q), GoodReads(p)
    PROVE  GoodReads(Observe(q, p, v))
<1>1. GoodReads([i \in DOMAIN p |-> [p[i] EXCEPT !.snap = v]])
  BY GoodUpdates
<1>2. CASE \E i \in DOMAIN q : q[i].snap /= NoSnap
  BY <1>1, <1>2, GoodConcat DEF Observe
<1>3. CASE ~ \E i \in DOMAIN q : q[i].snap /= NoSnap
  BY <1>3, GoodConcat DEF Observe
<1> QED
  BY <1>2, <1>3

LEMMA GoodOne ==
    ASSUME NEW r, GoodRead(r)
    PROVE  GoodReads(<<r>>)
<1> DEFINE S == {r}
<1>1. <<r>> \in Seq(S) /\ \A x \in S : GoodRead(x)
  OBVIOUS
<1> HIDE DEF S
<1> QED
  BY <1>1, GoodIntro

LEMMA GoodEmpty == GoodReads(<<>>)
<1> DEFINE S == {}
<1>1. <<>> \in Seq(S) /\ \A x \in S : GoodRead(x)
  OBVIOUS
<1> HIDE DEF S
<1> QED
  BY <1>1, GoodIntro

LEMMA GoodLoad ==
    ASSUME NEW screen \in Screen, NEW vc
    PROVE  GoodReads(LoadOf(screen, vc))
<1>1. \A k : GoodRead(Read(k, vc))
  BY DEF GoodRead, Read
<1>2. LoadOf(screen, vc) = <<>> \/ \E k : LoadOf(screen, vc) = <<Read(k, vc)>>
  BY DEF Screen, LoadOf
<1> QED
  BY <1>1, <1>2, GoodOne, GoodEmpty

LEMMA ReadsChange ==
    ASSUME ReadsOK, NEW c \in Client, NEW q, GoodReads(q),
           reads' = [reads EXCEPT ![c] = q]
    PROVE  ReadsOK'
<1>1. DOMAIN reads = Client
  BY DEF ReadsOK
<1>2. reads'[c] = q /\ \A d \in Client \ {c} : reads'[d] = reads[d]
  BY <1>1
<1>3. reads' = [d \in Client |-> reads'[d]]
  BY <1>1
<1>4. \A d \in Client : GoodReads(reads'[d])
  BY <1>2 DEF ReadsOK
<1>5. \A d \in Client : GoodReads(reads[d])'
  BY <1>4 DEF GoodReads, GoodRead
<1> QED
  BY <1>3, <1>5 DEF ReadsOK

LEMMA ReadsDone ==
    ASSUME ReadsOK, NEW c \in Client, Done(c), reads[c] /= <<>>
    PROVE  ReadsOK'
<1>1. reads' = [reads EXCEPT ![c] = Tail(reads[c])]
  BY DEF Done
<1>2. GoodReads(Tail(reads[c]))
  BY GoodTail DEF ReadsOK
<1> QED
  BY <1>1, <1>2, ReadsChange

LEMMA ReadsObserve ==
    ASSUME ReadsOK, NEW c \in Client, NEW p, NEW v, GoodReads(p),
           reads' = [reads EXCEPT ![c] = Observe(reads[c], p, v)]
    PROVE  ReadsOK'
<1>1. GoodReads(Observe(reads[c], p, v))
  BY GoodObserve DEF ReadsOK
<1> QED
  BY <1>1, ReadsChange

LEMMA ReadsTap ==
    ASSUME ReadsOK, NEW c \in Client, NEW r, GoodRead(r), Tap(c, r)
    PROVE  ReadsOK'
<1>1. GoodReads(<<r>>)
  BY GoodOne
<1>2. reads' = [reads EXCEPT ![c] = Observe(reads[c], <<r>>, Sync!View(server, puts[c]))]
  BY DEF Tap
<1> QED
  BY <1>1, <1>2, ReadsObserve

LEMMA ReadsPush ==
    ASSUME ReadsOK, NEW c \in Client, NEW s \in Screen, Push(c, s)
    PROVE  ReadsOK'
<1>1. GoodReads(LoadOf(s, Level(c) + 1))
  BY GoodLoad
<1>2. reads' = [reads EXCEPT ![c] =
                   Observe(reads[c], LoadOf(s, Level(c) + 1), Sync!View(server, puts[c]))]
  BY DEF Push
<1> QED
  BY <1>1, <1>2, ReadsObserve

LEMMA ReadsUser ==
    ASSUME ReadsOK, NEW c \in Client, User(c)
    PROVE  ReadsOK'
<1>1. CASE Launch(c)
  BY <1>1, ReadsPush DEF Launch, Screen
<1>2. CASE \E s \in {"CreateJobVC", "PostedJobsVC", "ShowApplicantsVC"} : Present(c, s)
  BY <1>2, ReadsPush DEF Present, Screen
<1>3. CASE reads' = reads
  BY <1>3 DEF ReadsOK, GoodReads, GoodRead
<1>4. CASE \E r : TapDecline(c, r)
  <2>1. \A r : GoodRead([Read("DeclineApplicant", Level(c)) EXCEPT !.row = r])
    BY DEF GoodRead, Read
  <2> QED
    BY <1>4, <2>1, ReadsTap DEF TapDecline
<1>5. CASE TapApply(c) \/ TapRemove(c)
  <2>1. GoodRead(PopoverRead(c, "ApplyToJob")) /\ GoodRead(PopoverRead(c, "RemoveJob"))
    BY DEF GoodRead, PopoverRead, Read
  <2> QED
    BY <1>5, <2>1, ReadsTap DEF TapApply, TapRemove
<1>6. CASE Dismiss(c)
  <2>1. reads' = [reads EXCEPT ![c] = Closed(reads[c])]
    BY <1>6 DEF Dismiss
  <2>2. GoodReads(Closed(reads[c]))
    BY GoodUpdates DEF ReadsOK
  <2> QED
    BY <2>1, <2>2, ReadsChange
<1>7. CASE \E j \in Job, t \in Title : CreateJob(c, j, t)
  BY <1>3, <1>7 DEF CreateJob, appVars
<1>8. CASE \E r : Select(c, r)
  BY <1>3, <1>8 DEF Select
<1> QED
  BY <1>1, <1>2, <1>4, <1>5, <1>6, <1>7, <1>8 DEF User

LEMMA ReadsCallback ==
    ASSUME ReadsOK, NEW c \in Client, Callback(c)
    PROVE  ReadsOK'
<1>0. reads[c] /= <<>>
  BY DEF Callback, SetNewJobs, SetMyPostedJobs, SetApplicants, ApplyToJob, RemoveJob,
         DeclineApplicant, RemoveApplication, RemoveApplication2, Runs
<1>1. GoodRead(Head(reads[c])) /\ GoodReads(Tail(reads[c])) /\ GoodReads(Closed(Tail(reads[c])))
  BY <1>0, GoodTail, GoodUpdates DEF ReadsOK
<1>2. CASE Done(c)
  BY <1>0, <1>2, ReadsDone
<1>3. \A q, p, v : /\ GoodReads(q) /\ GoodReads(p)
                   /\ reads' = [reads EXCEPT ![c] = Observe(q, p, v)]
                   => ReadsOK'
  BY GoodObserve, ReadsChange
<1>4. CASE SetNewJobs(c) \/ SetMyPostedJobs(c) \/ SetApplicants(c)
  BY <1>2, <1>4 DEF SetNewJobs, SetMyPostedJobs, SetApplicants, Load, Trap
<1>5. CASE ApplyToJob(c)
  <2>1. \/ Done(c)
        \/ reads' = [reads EXCEPT ![c] = Closed(Tail(reads[c]))]
        \/ reads' = [reads EXCEPT ![c] = Tail(reads[c])]
    BY <1>5 DEF ApplyToJob, Trap
  <2> QED
    BY <1>1, <1>2, <2>1, ReadsChange
<1>6. CASE RemoveJob(c)
  <2>1. \/ Done(c)
        \/ \E vc, v : \E q \in {Tail(reads[c]), Closed(Tail(reads[c]))} :
              reads' = [reads EXCEPT ![c] = Observe(q, <<Read("SetMyPostedJobs", vc)>>, v)]
    BY <1>6 DEF RemoveJob, Trap
  <2>2. \A vc : GoodReads(<<Read("SetMyPostedJobs", vc)>>)
    BY GoodOne DEF GoodRead, Read
  <2> QED
    BY <1>1, <1>2, <1>3, <2>1, <2>2
<1>7. CASE DeclineApplicant(c)
  <2> DEFINE r    == Head(reads[c])
             row  == RowAt(stack[c][r.vc].list, r.row)
             hits == {q \in Job \X App : /\ r.snap[q] = row.email
                                         /\ r.snap[<<q[1], "title">>] = row.data["title"]}
             p    == [i \in DOMAIN Enum(hits) |->
                        [Read("RemoveApplication", r.vc) EXCEPT
                           !.email = row.email, !.title = row.data["title"]]]
             v    == Sync!View(server, puts[c])
  <2>1. Done(c) \/ reads' = [reads EXCEPT ![c] = Observe(Tail(reads[c]), p, v)]
    BY <1>7 DEF DeclineApplicant, Trap
  <2>2. hits \in SUBSET (Job \X App)
    OBVIOUS
  <2> HIDE DEF hits
  <2>3. PICK n \in Nat : DOMAIN Enum(hits) = 1..n
    BY <2>2, EnumAssumption DEF IsEnumeration
  <2>4. p = [i \in 1..n |-> p[i]]
    BY <2>3
  <2>5. \A i \in 1..n : GoodRead(p[i])
    BY <2>3 DEF GoodRead, Read
  <2> HIDE DEF p, v
  <2>6. GoodReads(p)
    BY <2>4, <2>5, GoodFunction
  <2> QED
    BY <1>1, <1>2, <1>3, <2>1, <2>6
<1>8. CASE RemoveApplication(c)
  <2> DEFINE r == Head(reads[c])
             n == [Read("RemoveApplication2", r.vc) EXCEPT
                     !.email = r.email, !.title = r.title, !.keys = Keys(r.snap)]
             p == <<n>>
             v == Sync!View(server, puts[c])
  <2>1. reads' = [reads EXCEPT ![c] = Observe(Tail(reads[c]), p, v)]
    BY <1>8 DEF RemoveApplication
  <2>2. GoodRead(n)
    BY DEF GoodRead, Read, Keys
  <2> HIDE DEF n
  <2>3. GoodReads(p)
    BY <2>2, GoodOne
  <2> HIDE DEF p, v
  <2> QED
    BY <1>1, <1>3, <2>1, <2>3
<1>9. CASE RemoveApplication2(c)
  BY <1>2, <1>9 DEF RemoveApplication2
<1> QED
  BY <1>4, <1>5, <1>6, <1>7, <1>8, <1>9 DEF Callback

LEMMA ReadsNext ==
    ASSUME ReadsOK, [Next]_vars
    PROVE  ReadsOK'
<1>1. CASE reads' = reads
  BY <1>1 DEF ReadsOK, GoodReads, GoodRead
<1>2. CASE UNCHANGED vars
  BY <1>1, <1>2 DEF vars, appVars
<1>3. ASSUME NEW c \in Client, Deliver(c)
      PROVE  ReadsOK'
  <2> DEFINE v == Sync!View(server, puts[c])
             q == [i \in DOMAIN reads[c] |-> [reads[c][i] EXCEPT !.snap = v]]
  <2>1. reads' = [reads EXCEPT ![c] = q]
    BY <1>3 DEF Deliver
  <2>2. GoodReads(q)
    BY GoodUpdates DEF ReadsOK
  <2> HIDE DEF q
  <2> QED
    BY <2>1, <2>2, ReadsChange
<1>4. ASSUME NEW c \in Client, Kill(c)
      PROVE  ReadsOK'
  BY <1>4, GoodEmpty, ReadsChange DEF Kill
<1>5. ASSUME NEW c \in Client, Apply(c) \/ Ack(c) \/ Connect(c) \/ Disconnect(c)
      PROVE  ReadsOK'
  BY <1>1, <1>5 DEF Apply, Ack, Connect, Disconnect, appVars
<1> QED
  BY <1>2, <1>3, <1>4, <1>5, ReadsUser, ReadsCallback DEF Next

-----------------------------------------------------------------------------
(* Types, and the steps that issue writes.                                 *)

LEMMA SyncTypes ==
    ASSUME SharedTypeOK, NEW c \in Client
    PROVE  /\ \A ws \in Seq(JobWrite) : Sync!Issue(c, ws) => Sync!SyncTypeOK(JobWrite)'
           /\ Sync!ServerApply(c) => Sync!SyncTypeOK(JobWrite)'
           /\ Sync!AckPut(c) => Sync!SyncTypeOK(JobWrite)'
           /\ Sync!OnDisconnect(c) => Sync!SyncTypeOK(JobWrite)'
           /\ Sync!RestoreState(c) => Sync!SyncTypeOK(JobWrite)'
           /\ Sync!LosePuts(c) => Sync!SyncTypeOK(JobWrite)'
<1>0. Sync!SyncTypeOK(JobWrite)
  BY DEF SharedTypeOK
<1>1. ASSUME NEW ws \in Seq(JobWrite), Sync!Issue(c, ws)
      PROVE  Sync!SyncTypeOK(JobWrite)'
  <2>1. puts[c] \in Seq(JobWrite) /\ applied[c] <= Len(puts[c])
    BY TypeFacts
  <2>2. puts[c] \o ws \in Seq(JobWrite) /\ Len(puts[c] \o ws) = Len(puts[c]) + Len(ws)
    BY <2>1, ConcatProperties
  <2>3. applied[c] <= Len(puts[c] \o ws)
    BY <2>1, <2>2, TypeFacts
  <2>4. /\ puts' = [puts EXCEPT ![c] = puts[c] \o ws]
        /\ server' = server /\ applied' = applied /\ online' = online
    BY <1>1 DEF Sync!Issue
  <2> QED
    BY <1>0, <2>2, <2>3, <2>4 DEF Sync!SyncTypeOK
<1>2. ASSUME Sync!ServerApply(c)
      PROVE  Sync!SyncTypeOK(JobWrite)'
  <2>1. PICK n \in Nat : n = applied[c] /\ n + 1 \in 1..Len(puts[c])
    BY <1>2, TypeFacts DEF Sync!ServerApply
  <2>2. PICK w \in JobWrite : w = puts[c][n + 1]
    BY <2>1, TypeFacts
  <2>3. server' = [x \in Path |-> IF x \in DOMAIN w THEN w[x] ELSE server[x]]
    BY <1>2, <2>1, <2>2 DEF Sync!ServerApply, Sync!ApplyWrite
  <2>4. server' \in Sync!DB
    BY <2>2, <2>3, TypeFacts, WriteFacts DEF Sync!DB
  <2>5. applied' \in [Client -> Nat] /\ \A d \in Client : applied'[d] <= Len(puts[d])
    BY <1>2, <2>1, TypeFacts DEF Sync!ServerApply
  <2> QED
    BY <1>0, <1>2, <2>4, <2>5 DEF Sync!SyncTypeOK, Sync!ServerApply
<1>3. ASSUME Sync!AckPut(c)
      PROVE  Sync!SyncTypeOK(JobWrite)'
  <2>1. puts[c] \in Seq(JobWrite) /\ puts[c] /= <<>>
    BY <1>3, TypeFacts DEF Sync!AckPut
  <2>2. Tail(puts[c]) \in Seq(JobWrite) /\ Len(Tail(puts[c])) = Len(puts[c]) - 1
    BY <2>1, HeadTailProperties
  <2>3. puts' \in [Client -> Seq(JobWrite)]
    BY <1>3, <2>2, TypeFacts DEF Sync!AckPut
  <2>4. applied' \in [Client -> Nat] /\ \A d \in Client : applied'[d] <= Len(puts'[d])
    <3>1. applied[c] - 1 \in Nat /\ applied[c] - 1 <= Len(Tail(puts[c]))
      BY <1>3, <2>2, TypeFacts DEF Sync!AckPut
    <3>2. /\ applied' = [applied EXCEPT ![c] = applied[c] - 1]
          /\ puts' = [puts EXCEPT ![c] = Tail(puts[c])]
      BY <1>3 DEF Sync!AckPut
    <3> QED
      BY <3>1, <3>2, TypeFacts
  <2> QED
    BY <1>0, <1>3, <2>3, <2>4 DEF Sync!SyncTypeOK, Sync!AckPut
<1>4. Sync!OnDisconnect(c) => Sync!SyncTypeOK(JobWrite)'
  BY <1>0, TypeFacts DEF Sync!SyncTypeOK, Sync!OnDisconnect
<1>5. Sync!RestoreState(c) => Sync!SyncTypeOK(JobWrite)'
  BY <1>0 DEF Sync!SyncTypeOK, Sync!RestoreState
<1>6. Sync!LosePuts(c) => Sync!SyncTypeOK(JobWrite)'
  BY <1>0, TypeFacts DEF Sync!SyncTypeOK, Sync!LosePuts
<1> QED
  BY <1>1, <1>2, <1>3, <1>4, <1>5, <1>6

\* The seven updates, as a queue.
LEMMA JobPutsFacts ==
    ASSUME NEW j \in Job, NEW t \in Title, NEW c \in Client
    PROVE  /\ JobPuts(j, t, c) \in Seq(JobWrite)
           /\ Len(JobPuts(j, t, c)) = Len(FieldOrder) /\ Len(FieldOrder) \in Nat
           /\ \A k \in FieldNo :
                 /\ DOMAIN JobPuts(j, t, c)[k] = {<<j, FieldOrder[k]>>}
                 /\ JobPuts(j, t, c)[k][<<j, FieldOrder[k]>>]
                       = FieldValue(t, c, FieldOrder[k])
<1> DEFINE q == JobPuts(j, t, c)
<1>0. FieldNo = 1..Len(FieldOrder) /\ Len(FieldOrder) \in Nat
  BY FieldAssumption DEF FieldNo
<1>1. \A k \in FieldNo : q[k] = PutField(j, FieldOrder[k], FieldValue(t, c, FieldOrder[k]))
  BY DEF JobPuts
<1>2. \A k \in FieldNo : q[k] \in JobWrite
  BY <1>1, FieldFacts, LeafFacts DEF JobWrite
<1>3. q \in [1..Len(FieldOrder) -> JobWrite]
  BY <1>0, <1>2 DEF JobPuts
<1>4. q \in Seq(JobWrite) /\ Len(q) = Len(FieldOrder)
  BY <1>0, <1>3
<1>5. \A k \in FieldNo :
         /\ DOMAIN q[k] = {<<j, FieldOrder[k]>>}
         /\ q[k][<<j, FieldOrder[k]>>] = FieldValue(t, c, FieldOrder[k])
  BY <1>1 DEF PutField
<1> QED
  BY <1>0, <1>4, <1>5

LEMMA CreateJobStep ==
    ASSUME BoardInv, NEW c \in Client, NEW j \in Job, NEW t \in Title, CreateJob(c, j, t)
    PROVE  BoardInv'
<1> DEFINE ws == JobPuts(j, t, c)
<1>0. /\ ws \in Seq(JobWrite) /\ Len(ws) = Len(FieldOrder) /\ FieldNo = 1..Len(ws)
      /\ \A k \in FieldNo : /\ DOMAIN ws[k] = {<<j, FieldOrder[k]>>}
                            /\ ws[k][<<j, FieldOrder[k]>>] = FieldValue(t, c, FieldOrder[k])
  BY JobPutsFacts DEF FieldNo
<1>1. /\ c \in Poster /\ posted[j] = Null
      /\ posted' = [posted EXCEPT ![j] = [title |-> t, poster |-> c]]
      /\ Sync!Issue(c, ws)
      /\ cut' = cut /\ removed' = removed /\ request' = request /\ gone' = gone
  BY DEF CreateJob
<1> HIDE DEF ws
<1>2. /\ posted'[j] = [title |-> t, poster |-> c] /\ posted'[j] /= Null
      /\ \A i \in Job \ {j} : posted'[i] = posted[i]
      /\ posted' \in [Job -> [title : Title, poster : Poster] \cup {Null}]
  BY <1>1, TypeFacts, ClientAssumption DEF BoardInv
<1>3. SharedTypeOK'
  BY <1>0, <1>1, <1>2, SyncTypes DEF BoardInv, SharedTypeOK
<1>4. \A i \in 1..Len(ws) : \A h \in Job : \A f \in Field :
         <<h, f>> \in DOMAIN ws[i] => h = j /\ f = FieldOrder[i]
  <2> SUFFICES ASSUME NEW i \in 1..Len(ws), NEW h \in Job, NEW f \in Field,
                      <<h, f>> \in DOMAIN ws[i]
               PROVE  h = j /\ f = FieldOrder[i]
    OBVIOUS
  <2>1. DOMAIN ws[i] = {<<j, FieldOrder[i]>>}
    BY <1>0
  <2> QED
    BY <2>1
<1>5. \A i \in 1..Len(ws) : \A h \in Job : \A f \in Field :
         <<h, f>> \in DOMAIN ws[i] => MayHold(ws[i][<<h, f>>], h, f)'
  <2> SUFFICES ASSUME NEW i \in 1..Len(ws), NEW h \in Job, NEW f \in Field,
                      <<h, f>> \in DOMAIN ws[i]
               PROVE  MayHold(ws[i][<<h, f>>], h, f)'
    OBVIOUS
  <2>1. h = j /\ f = FieldOrder[i] /\ ws[i][<<h, f>>] = FieldValue(t, c, f)
    BY <1>0, <1>4
  <2>2. posted'[h].title = t /\ posted'[h].poster = c /\ posted'[h] /= Null
    BY <1>2, <2>1
  <2>3. ws[i][<<h, f>>] = FieldValue(posted'[h].title, posted'[h].poster, f)
    BY <2>1, <2>2
  <2>4. ws' = ws
    BY DEF ws, JobPuts
  <2> QED
    BY <2>2, <2>3, <2>4 DEF MayHold, FieldValue
<1>6. \A i \in 1..Len(ws) : \A h \in Job \ removed' : \A k, l \in FieldNo :
         <<h, FieldOrder[l]>> \in DOMAIN ws[i] /\ k < l
         => \E m \in 1..(i - 1) : <<h, FieldOrder[k]>> \in DOMAIN ws[m]
  <2> SUFFICES ASSUME NEW i \in 1..Len(ws), NEW h \in Job, NEW k \in FieldNo,
                      NEW l \in FieldNo, <<h, FieldOrder[l]>> \in DOMAIN ws[i], k < l
               PROVE  \E m \in 1..(i - 1) : <<h, FieldOrder[k]>> \in DOMAIN ws[m]
    OBVIOUS
  <2>1. h = j /\ l = i
    BY <1>0, <1>4, FieldFacts
  <2>2. k \in 1..(i - 1)
    BY <1>0, <2>1
  <2> QED
    BY <1>0, <2>1, <2>2
<1>7. \A h \in Job : posted[h] = Null /\ posted'[h] /= Null =>
         /\ posted'[h].poster = c
         /\ \A f \in Field : \E i \in 1..Len(ws) : <<h, f>> \in DOMAIN ws[i]
  <2>1. \A f \in Field : \E i \in 1..Len(ws) : <<j, f>> \in DOMAIN ws[i]
    BY <1>0, FieldFacts
  <2> QED
    BY <1>2, <2>1
<1>8. \A h \in Job : posted[h] /= Null => posted'[h] = posted[h]
  BY <1>1, <1>2
<1>9. FieldInv'
  BY <1>0, <1>1, <1>5, <1>6, <1>7, <1>8, IssueStep
<1> QED
  BY <1>3, <1>9 DEF BoardInv

\* Writes below an application touch no field.
LEMMA ApplicationStep ==
    ASSUME BoardInv, NEW c \in Client, NEW ws \in Seq(JobWrite), Sync!Issue(c, ws),
           \A i \in 1..Len(ws) : \E h \in Job, a \in App : DOMAIN ws[i] = {<<h, a>>},
           posted' = posted, removed' = removed, cut' = cut
    PROVE  FieldInv'
<1>1. \A i \in 1..Len(ws) : \A h \in Job : \A f \in Field : <<h, f>> \notin DOMAIN ws[i]
  BY LeafFacts
<1>2. \A i \in 1..Len(ws) : \A h \in Job \ removed' : \A k \in FieldNo :
         <<h, FieldOrder[k]>> \notin DOMAIN ws[i]
  BY <1>1, FieldFacts
<1> QED
  BY <1>1, <1>2, IssueStep

LEMMA EnumFacts ==
    /\ \A S \in SUBSET Job : /\ Enum(S) \in Seq(Job)
                             /\ \A i \in DOMAIN Enum(S) : Enum(S)[i] \in S
    /\ \A S \in SUBSET (Job \X App) : /\ Enum(S) \in Seq(Job \X App)
                                      /\ \A i \in DOMAIN Enum(S) : Enum(S)[i] \in S
<1>1. \A S \in SUBSET Job : Enum(S) \in Seq(S)
  BY EnumAssumption DEF IsEnumeration
<1>2. \A S \in SUBSET (Job \X App) : Enum(S) \in Seq(S)
  BY EnumAssumption DEF IsEnumeration
<1>3. ASSUME NEW T, NEW S \in SUBSET T, NEW q \in Seq(S)
      PROVE  q \in Seq(T) /\ \A i \in DOMAIN q : q[i] \in S
  OBVIOUS
<1> QED
  BY <1>1, <1>2, <1>3

LEMMA OneWrite ==
    ASSUME NEW w \in JobWrite
    PROVE  \E ws \in Seq(JobWrite) : ws = <<w>> /\ Len(ws) = 1 /\ ws[1] = w
<1>1. <<w>> \in Seq(JobWrite) /\ Len(<<w>>) = 1 /\ <<w>>[1] = w
  OBVIOUS
<1> WITNESS <<w>> \in Seq(JobWrite)
<1> QED
  BY <1>1

LEMMA ApplyToJobStep ==
    ASSUME BoardInv, NEW c \in Client, ApplyToJob(c)
    PROVE  BoardInv'
<1>0. posted' = posted /\ removed' = removed /\ cut' = cut /\ gone' = gone
  BY DEF ApplyToJob
<1>1. CASE UNCHANGED <<syncVars, request>>
  <2>1. FieldInv'
    BY <1>0, <1>1, QuietStep DEF syncVars
  <2>2. SharedTypeOK'
    BY <1>0, <1>1 DEF BoardInv, SharedTypeOK, Sync!SyncTypeOK, syncVars
  <2> QED
    BY <2>1, <2>2 DEF BoardInv
<1>2. CASE \E h \in Job, a \in App :
              /\ request' = [request EXCEPT ![a] = [job |-> h, by |-> c]]
              /\ Sync!Issue(c, <<PutApplication(h, a, c)>>)
  <2>1. PICK h \in Job, a \in App :
              /\ request' = [request EXCEPT ![a] = [job |-> h, by |-> c]]
              /\ Sync!Issue(c, <<PutApplication(h, a, c)>>)
    BY <1>2
  <2>2. PutApplication(h, a, c) \in JobWrite /\ DOMAIN PutApplication(h, a, c) = {<<h, a>>}
    BY DEF JobWrite, PutApplication
  <2>3. PICK ws \in Seq(JobWrite) : /\ ws = <<PutApplication(h, a, c)>>
                                    /\ Len(ws) = 1 /\ ws[1] = PutApplication(h, a, c)
    BY <2>2, OneWrite
  <2>4. FieldInv'
    <3>0. DOMAIN ws[1] = {<<h, a>>}
      BY <2>2, <2>3
    <3>1. ASSUME NEW i \in 1..Len(ws)
          PROVE  \E x \in Job, y \in App : DOMAIN ws[i] = {<<x, y>>}
      <4>1. i = 1
        BY <2>3
      <4> WITNESS h \in Job, a \in App
      <4> QED
        BY <3>0, <4>1
    <3> QED
      BY <1>0, <2>1, <2>3, <3>1, ApplicationStep
  <2>5. SharedTypeOK'
    BY <1>0, <2>1, <2>3, SyncTypes DEF BoardInv, SharedTypeOK
  <2> QED
    BY <2>4, <2>5 DEF BoardInv
<1>3. \A k : k \in DOMAIN Enum(Keys(Head(reads[c]).snap)) =>
             Enum(Keys(Head(reads[c]).snap))[k] \in Job
  BY EnumFacts DEF Keys
<1> QED
  BY <1>1, <1>2, <1>3 DEF ApplyToJob

LEMMA RemoveJobStep ==
    ASSUME BoardInv, NEW c \in Client, RemoveJob(c)
    PROVE  BoardInv'
<1>0. posted' = posted /\ cut' = cut /\ gone' = gone /\ request' = request
  BY DEF RemoveJob
<1>1. CASE UNCHANGED <<syncVars, removed>>
  <2>1. FieldInv'
    BY <1>0, <1>1, QuietStep DEF syncVars
  <2>2. SharedTypeOK'
    BY <1>0, <1>1 DEF BoardInv, SharedTypeOK, Sync!SyncTypeOK, syncVars
  <2> QED
    BY <2>1, <2>2 DEF BoardInv
<1>2. CASE \E h \in Job : removed' = removed \cup {h} /\ Sync!Issue(c, <<RemoveJobAt(h)>>)
  <2>1. PICK h \in Job : removed' = removed \cup {h} /\ Sync!Issue(c, <<RemoveJobAt(h)>>)
    BY <1>2
  <2>2. /\ RemoveJobAt(h) \in JobWrite
        /\ \A j \in Job, f \in Field : <<j, f>> \in DOMAIN RemoveJobAt(h) =>
              j = h /\ RemoveJobAt(h)[<<j, f>>] = Null
    BY DEF JobWrite, RemoveJobAt
  <2>3. PICK ws \in Seq(JobWrite) : /\ ws = <<RemoveJobAt(h)>> /\ Len(ws) = 1
                                    /\ ws[1] = RemoveJobAt(h)
    BY <2>2, OneWrite
  <2>4. FieldInv'
    <3>1. \A i \in 1..Len(ws) : \A j \in Job : \A f \in Field :
             <<j, f>> \in DOMAIN ws[i] => j = h /\ ws[i][<<j, f>>] = Null
      BY <2>2, <2>3
    <3>2. \A i \in 1..Len(ws) : \A j \in Job : \A f \in Field :
             <<j, f>> \in DOMAIN ws[i] => MayHold(ws[i][<<j, f>>], j, f)'
      BY <2>1, <3>1 DEF MayHold
    <3>3. \A i \in 1..Len(ws) : \A j \in Job \ removed' : \A k \in FieldNo :
             <<j, FieldOrder[k]>> \notin DOMAIN ws[i]
      BY <2>1, <3>1, FieldFacts
    <3>4. removed \subseteq removed' /\ Sync!Issue(c, ws)
      BY <2>1, <2>3
    <3> QED
      BY <1>0, <3>2, <3>3, <3>4, IssueStep
  <2>5. SharedTypeOK'
    BY <1>0, <2>1, <2>3, SyncTypes DEF BoardInv, SharedTypeOK
  <2> QED
    BY <2>4, <2>5 DEF BoardInv
<1>3. \A k : k \in DOMAIN Enum(Keys(Head(reads[c]).snap)) =>
             Enum(Keys(Head(reads[c]).snap))[k] \in Job
  BY EnumFacts DEF Keys
<1> QED
  BY <1>1, <1>2, <1>3 DEF RemoveJob, Trap

LEMMA RemoveApplication2Step ==
    ASSUME BoardInv, ReadsOK, NEW c \in Client, RemoveApplication2(c)
    PROVE  BoardInv'
<1>0. posted' = posted /\ removed' = removed /\ cut' = cut /\ gone' = gone /\ request' = request
  BY DEF RemoveApplication2, ghostVars
<1>1. \E K \in SUBSET Job : \E H \in SUBSET App :
         Sync!Issue(c, [i \in DOMAIN Enum(K \X H) |-> RemoveApplicationAt(Enum(K \X H)[i])])
  <2> DEFINE r    == Head(reads[c])
             jobs == Enum(Keys(r.snap))
             bad  == {i \in DOMAIN jobs : /\ \E a \in App : r.snap[<<jobs[i], a>>] = r.email
                                          /\ r.snap[<<jobs[i], "title">>] = Null}
             done == {i \in DOMAIN jobs : \A k \in bad : i < k}
             hits == UNION {Matches(r.snap, r.email, r.title, jobs[i]) : i \in done}
             ord  == Enum(r.keys \X hits)
  <2>1. Sync!Issue(c, [i \in DOMAIN ord |-> RemoveApplicationAt(ord[i])])
    BY DEF RemoveApplication2
  <2>2. hits \in SUBSET App
    BY DEF Matches
  <2>3. r.keys \in SUBSET Job
    BY GoodTail DEF ReadsOK, GoodRead, RemoveApplication2, Runs
  <2> HIDE DEF r, hits
  <2> WITNESS r.keys \in SUBSET Job
  <2> WITNESS hits \in SUBSET App
  <2> QED
    BY <2>1
<1>2. PICK K \in SUBSET Job, H \in SUBSET App :
         Sync!Issue(c, [i \in DOMAIN Enum(K \X H) |-> RemoveApplicationAt(Enum(K \X H)[i])])
  BY <1>1
<1> DEFINE ord == Enum(K \X H)
           ws  == [i \in DOMAIN ord |-> RemoveApplicationAt(ord[i])]
<1>3. ord \in Seq(Job \X App)
  <2>1. K \X H \in SUBSET (Job \X App)
    OBVIOUS
  <2> QED
    BY <2>1, EnumFacts
<1>8. Sync!Issue(c, ws)
  BY <1>2
<1> HIDE DEF ord
<1>4. PICK n \in Nat : DOMAIN ord = 1..n /\ \A i \in 1..n : ord[i] \in Job \X App
  BY <1>3
<1>w. ws = [i \in 1..n |-> RemoveApplicationAt(ord[i])]
  BY <1>4
<1> HIDE DEF ws
<1>5. ASSUME NEW i \in 1..n
      PROVE  /\ ws[i] \in JobWrite
             /\ \E h \in Job, a \in App : DOMAIN ws[i] = {<<h, a>>}
  <2>1. PICK x \in Job \X App : x = ord[i] /\ ws[i] = RemoveApplicationAt(x)
    BY <1>4, <1>w
  <2>2. DOMAIN ws[i] = {x}
    BY <2>1 DEF RemoveApplicationAt
  <2> QED
    BY <2>1, <2>2 DEF JobWrite
<1>6. ws \in Seq(JobWrite) /\ Len(ws) = n
  <2>1. ws \in [1..n -> JobWrite]
    BY <1>w, <1>5
  <2> QED
    BY <2>1
<1>7. \A i \in 1..Len(ws) : \E h \in Job, a \in App : DOMAIN ws[i] = {<<h, a>>}
  BY <1>5, <1>6
<1>9. FieldInv'
  BY <1>0, <1>6, <1>7, <1>8, ApplicationStep
<1>10. SharedTypeOK'
  BY <1>0, <1>6, <1>8, SyncTypes DEF BoardInv, SharedTypeOK
<1> QED
  BY <1>9, <1>10 DEF BoardInv

-----------------------------------------------------------------------------
(* The invariant.                                                          *)

Inv == BoardInv /\ ReadsOK

LEMMA InitInv == Init => Inv
<1> SUFFICES ASSUME Init PROVE Inv
  OBVIOUS
<1>1. \A j \in Job, f \in Field : Board[<<j, f>>] =
         IF Ads[j] = Null THEN Null ELSE FieldValue(Ads[j].title, Ads[j].poster, f)
  BY FieldFacts, LeafFacts DEF Board
<1>2. \A j \in Job : Ads[j] /= Null => Ads[j].title \in Title /\ Ads[j].poster \in Client
  BY AdsAssumption DEF Client
<1>3. Board \in Sync!DB
  <2> SUFFICES ASSUME NEW x \in Path, Ads[x[1]] /= Null, x[2] \notin App
               PROVE  FieldValue(Ads[x[1]].title, Ads[x[1]].poster, x[2]) \in Value
    BY DEF Board, Sync!DB
  <2>1. x[1] \in Job /\ x[2] \in Field
    BY DEF Path, Leaf
  <2> QED
    BY <1>2, <2>1, LeafFacts
<1>4. SharedTypeOK
  BY <1>3, AdsAssumption DEF Init, SharedTypeOK, Sync!SyncTypeOK
<1>5. \A c \in Client : \A i, j, f : ~Writes(c, i, j, f)
  BY DEF Init, Writes
<1>6. PutsMayHold /\ ExecutedThere /\ QueueInOrder
  BY <1>5 DEF PutsMayHold, ExecutedThere, QueueInOrder
<1>7. ServerMayHold
  BY <1>1 DEF Init, ServerMayHold, MayHold
<1>8. \A j \in Job, f \in Field : server[<<j, f>>] = Null <=> posted[j] = Null
  BY <1>1, <1>2, LeafFacts DEF Init
<1>9. ServerInOrder /\ Explained
  BY <1>8, FieldFacts DEF ServerInOrder, InOrder, Explained
<1>10. ReadsOK
  BY GoodEmpty DEF Init, ReadsOK
<1> QED
  BY <1>4, <1>6, <1>7, <1>9, <1>10 DEF Inv, BoardInv, FieldInv

\* A step that leaves the shared state alone.
LEMMA StillStep ==
    ASSUME BoardInv, UNCHANGED <<syncVars, posted, request, removed, gone, cut>>
    PROVE  BoardInv'
<1>1. FieldInv'
  BY QuietStep DEF syncVars
<1>2. SharedTypeOK'
  BY DEF BoardInv, SharedTypeOK, Sync!SyncTypeOK, syncVars
<1> QED
  BY <1>1, <1>2 DEF BoardInv

LEMMA NextInv == Inv /\ [Next]_vars => Inv'
<1> SUFFICES ASSUME Inv, [Next]_vars PROVE BoardInv'
  BY ReadsNext DEF Inv
<1> USE DEF Inv
<1>1. CASE UNCHANGED vars
  BY <1>1, StillStep DEF vars, ghostVars
<1>2. ASSUME NEW c \in Client, User(c)
      PROVE  BoardInv'
  <2>1. CASE \E j \in Job, t \in Title : CreateJob(c, j, t)
    BY <2>1, CreateJobStep
  <2>2. CASE ~ \E j \in Job, t \in Title : CreateJob(c, j, t)
    BY <1>2, <2>2, StillStep DEF User, Launch, Present, Select, Dismiss, TapApply, TapRemove,
                                 TapDecline, Tap, ghostVars
  <2> QED
    BY <2>1, <2>2
<1>3. ASSUME NEW c \in Client, Callback(c)
      PROVE  BoardInv'
  <2>1. CASE ApplyToJob(c) \/ RemoveJob(c) \/ RemoveApplication2(c)
    BY <2>1, ApplyToJobStep, RemoveJobStep, RemoveApplication2Step
  <2>2. CASE SetNewJobs(c) \/ SetMyPostedJobs(c) \/ SetApplicants(c)
    BY <2>2, StillStep DEF SetNewJobs, SetMyPostedJobs, SetApplicants, ghostVars
  <2>3. CASE DeclineApplicant(c)
    BY <2>3, StillStep DEF DeclineApplicant
  <2>4. CASE RemoveApplication(c)
    BY <2>4, StillStep DEF RemoveApplication, ghostVars
  <2> QED
    BY <1>3, <2>1, <2>2, <2>3, <2>4 DEF Callback
<1>4. ASSUME NEW c \in Client, Deliver(c)
      PROVE  BoardInv'
  BY <1>4, StillStep DEF Deliver, ghostVars
<1>5. ASSUME NEW c \in Client, Apply(c)
      PROVE  BoardInv'
  <2>1. /\ Sync!ServerApply(c) /\ posted' = posted /\ removed' = removed /\ cut' = cut
        /\ request' = request /\ gone' \subseteq gone \cup Job
    BY <1>5 DEF Apply
  <2>2. SharedTypeOK'
    BY <2>1, SyncTypes DEF BoardInv, SharedTypeOK
  <2> QED
    BY <2>1, <2>2, ApplyStep DEF BoardInv
<1>6. ASSUME NEW c \in Client, Ack(c)
      PROVE  BoardInv'
  <2>1. /\ Sync!AckPut(c) /\ posted' = posted /\ removed' = removed /\ cut' = cut
        /\ request' = request /\ gone' = gone
    BY <1>6 DEF Ack, ghostVars
  <2>2. SharedTypeOK'
    BY <2>1, SyncTypes DEF BoardInv, SharedTypeOK
  <2> QED
    BY <2>1, <2>2, AckStep DEF BoardInv
<1>7. ASSUME NEW c \in Client, Connect(c) \/ Disconnect(c)
      PROVE  BoardInv'
  <2>1. /\ Sync!RestoreState(c) \/ Sync!OnDisconnect(c)
        /\ posted' = posted /\ removed' = removed /\ cut' = cut
        /\ request' = request /\ gone' = gone
    BY <1>7 DEF Connect, Disconnect, ghostVars
  <2>2. SharedTypeOK'
    BY <2>1, SyncTypes DEF BoardInv, SharedTypeOK
  <2>3. /\ server' = server /\ puts' = puts
        /\ \A d \in Client : applied'[d] = applied[d] \/ applied'[d] = 0
    BY <2>1, TypeFacts DEF BoardInv, Sync!RestoreState, Sync!OnDisconnect
  <2>4. FieldInv'
    BY <2>1, <2>3, QuietStep
  <2> QED
    BY <2>2, <2>4 DEF BoardInv
<1>8. ASSUME NEW c \in Client, Kill(c)
      PROVE  BoardInv'
  <2>1. /\ Sync!LosePuts(c) /\ posted' = posted /\ removed' = removed
        /\ cut' = cut \cup InFlight(c) /\ request' = request /\ gone' = gone
    BY <1>8 DEF Kill
  <2>2. SharedTypeOK'
    BY <2>1, SyncTypes DEF BoardInv, SharedTypeOK, InFlight
  <2> QED
    BY <2>1, <2>2, KillStep DEF BoardInv
<1> QED
  BY <1>1, <1>2, <1>3, <1>4, <1>5, <1>6, <1>7, <1>8 DEF Next

LEMMA Invariant == Spec => []Inv
<1>1. Init => Inv
  BY InitInv
<1>2. Inv /\ [Next]_vars => Inv'
  BY NextInv
<1> QED
  BY <1>1, <1>2, PTL DEF Spec

-----------------------------------------------------------------------------
(* What the clients read.                                                  *)

\* A client reads its newest own put of a field, else the server's value.
LEMMA ViewFacts ==
    ASSUME SharedTypeOK, NEW c \in Client, NEW j \in Job, NEW f \in Field
    PROVE  \/ /\ \A i : ~Writes(c, i, j, f)
              /\ Sync!View(server, puts[c])[<<j, f>>] = server[<<j, f>>]
           \/ \E i \in Nat : /\ Writes(c, i, j, f)
                             /\ Sync!View(server, puts[c])[<<j, f>>] = puts[c][i][<<j, f>>]
<1> DEFINE S == Sync!Writers(puts[c], <<j, f>>)
           m == Sync!Max(S)
<1>1. Sync!View(server, puts[c])[<<j, f>>] =
         IF S = {} THEN server[<<j, f>>] ELSE puts[c][m][<<j, f>>]
  BY FieldFacts DEF Sync!View
<1>2. (\A i : Writes(c, i, j, f) <=> i \in S) /\ S \subseteq 1..Len(puts[c])
  BY WritersFacts
<1>3. Len(puts[c]) \in Nat
  BY TypeFacts
<1>4. m = Max(S)
  BY DEF Sync!Max, Max
<1> HIDE DEF S, m
<1>5. CASE S = {}
  BY <1>1, <1>2, <1>5
<1>6. CASE S /= {}
  <2>1. m \in S
    BY <1>2, <1>3, <1>4, <1>6, MaxExists
  <2>2. m \in Nat
    BY <1>2, <1>3, <2>1
  <2> QED
    BY <1>1, <1>2, <1>6, <2>1, <2>2
<1> QED
  BY <1>5, <1>6

\* A field that may be held by a job that nobody removed is text.
LEMMA HeldText ==
    ASSUME SharedTypeOK, NEW j \in Job \ removed, NEW f \in Field, NEW v, MayHold(v, j, f)
    PROVE  v /= Null
<1>1. posted[j] /= Null /\ v = FieldValue(posted[j].title, posted[j].poster, f)
  BY DEF MayHold
<1>2. posted[j].title \in Title /\ posted[j].poster \in Client
  BY <1>1, TypeFacts DEF Client
<1> QED
  BY <1>1, <1>2, LeafFacts

LEMMA OrderFromInv == Inv => FieldsInOrder
<1> SUFFICES ASSUME Inv, NEW j \in Job \ removed PROVE
        /\ InOrder(server, j)
        /\ \A c \in Client : InOrder(Sync!View(server, puts[c]), j)
  BY DEF FieldsInOrder
<1>1. SharedTypeOK /\ FieldInv
  BY DEF Inv, BoardInv
<1>2. InOrder(server, j)
  BY <1>1 DEF FieldInv, ServerInOrder
<1>3. ASSUME NEW c \in Client, NEW k \in FieldNo, NEW l \in FieldNo, k < l,
             Sync!View(server, puts[c])[<<j, FieldOrder[l]>>] /= Null
      PROVE  Sync!View(server, puts[c])[<<j, FieldOrder[k]>>] /= Null
  <2> DEFINE V == Sync!View(server, puts[c])
             f == FieldOrder[k]
             g == FieldOrder[l]
  <2>0. f \in Field /\ g \in Field
    BY FieldFacts
  <2>1. CASE \E i \in Nat : Writes(c, i, j, f) /\ V[<<j, f>>] = puts[c][i][<<j, f>>]
    BY <1>1, <2>0, <2>1, HeldText DEF FieldInv, PutsMayHold
  <2>2. CASE (\A i : ~Writes(c, i, j, f)) /\ V[<<j, f>>] = server[<<j, f>>]
    <3>1. CASE \E i \in Nat : Writes(c, i, j, g)
      <4>1. server[<<j, f>>] /= Null
        BY <1>1, <1>3, <2>2, <3>1 DEF FieldInv, QueueInOrder
      <4> QED
        BY <2>2, <4>1
    <3>2. CASE V[<<j, g>>] = server[<<j, g>>]
      BY <1>2, <1>3, <2>2, <3>2 DEF InOrder
    <3> QED
      BY <1>1, <2>0, <3>1, <3>2, ViewFacts
  <2> QED
    BY <1>1, <2>0, <2>1, <2>2, ViewFacts
<1> QED
  BY <1>2, <1>3 DEF InOrder

LEMMA ExplainedFromInv == Inv => MissingFieldExplained
<1> SUFFICES ASSUME Inv, NEW j \in Job, NEW f \in Field, posted[j] /= Null,
                    server[<<j, f>>] = Null, j \notin removed \cup cut
             PROVE  Sync!Writers(puts[posted[j].poster], <<j, f>>) /= {}
  BY DEF MissingFieldExplained
<1>1. SharedTypeOK /\ Explained
  BY DEF Inv, BoardInv, FieldInv
<1>2. posted[j].poster \in Client
  BY <1>1, TypeFacts DEF Client
<1>3. \E i \in Nat : Writes(posted[j].poster, i, j, f)
  BY <1>1 DEF Explained
<1> QED
  BY <1>1, <1>2, <1>3, WritersFacts

LEMMA NotTornFromInv == Inv => NoTornJob
<1> SUFFICES ASSUME Inv, NEW j \in Job, NEW f \in Field
             PROVE  LET own == IF posted[j] = Null THEN {Null}
                               ELSE {Null, FieldValue(posted[j].title, posted[j].poster, f)}
                    IN  /\ server[<<j, f>>] \in own
                        /\ \A c \in Client : Sync!View(server, puts[c])[<<j, f>>] \in own
  BY DEF NoTornJob
<1> DEFINE own == IF posted[j] = Null THEN {Null}
                  ELSE {Null, FieldValue(posted[j].title, posted[j].poster, f)}
<1>1. SharedTypeOK /\ PutsMayHold /\ ServerMayHold
  BY DEF Inv, BoardInv, FieldInv
<1>2. \A v : v = Null \/ MayHold(v, j, f) => v \in own
  BY DEF MayHold
<1> HIDE DEF own
<1>3. server[<<j, f>>] \in own
  BY <1>1, <1>2 DEF ServerMayHold
<1>4. \A c \in Client : Sync!View(server, puts[c])[<<j, f>>] \in own
  BY <1>1, <1>2, <1>3, ViewFacts DEF PutsMayHold
<1> QED
  BY <1>3, <1>4 DEF own

-----------------------------------------------------------------------------
(* The theorems.                                                           *)

\* The shared tree, the queues and the ghosts keep their types: no handler
\* issues a write outside the tree, and no more puts count as executed than
\* are outstanding.
THEOREM SharedTypeCorrect == Spec => []SharedTypeOK
<1>1. Inv => SharedTypeOK
  BY DEF Inv, BoardInv
<1> QED
  BY <1>1, Invariant, PTL

\* CreateJob's separate updates never appear out of order, neither on the
\* server nor in what any client reads.
THEOREM FieldsAppearInOrder == Spec => []FieldsInOrder
  BY OrderFromInv, Invariant, PTL

\* A field of a posted job is missing only for one of the three reasons.
THEOREM MissingFieldsAreExplained == Spec => []MissingFieldExplained
  BY ExplainedFromInv, Invariant, PTL

\* No job mixes the data of two CreateJobs.
THEOREM JobsAreNotTorn == Spec => []NoTornJob
  BY NotTornFromInv, Invariant, PTL

-----------------------------------------------------------------------------
(* The board implements JobLifecycle.                                      *)

\* Which steps change the tree, and which jobs count as removed.
LEMMA TreeSteps ==
    ASSUME Inv, [Next]_vars
    PROVE  \/ server' = server /\ removed' = removed
           \/ \E h \in Job : server' = server /\ removed' = removed \cup {h}
           \/ \E c \in Client : Apply(c)
<1>1. CASE UNCHANGED vars
  BY <1>1 DEF vars, syncVars, ghostVars
<1>2. ASSUME NEW c \in Client, User(c)
      PROVE  server' = server /\ removed' = removed
  <2>1. CASE \E j \in Job, t \in Title : CreateJob(c, j, t)
    BY <2>1 DEF CreateJob, Sync!Issue
  <2>2. CASE ~ \E j \in Job, t \in Title : CreateJob(c, j, t)
    BY <1>2, <2>2 DEF User, Launch, Present, Select, Dismiss, TapApply, TapRemove,
                      TapDecline, Tap, ghostVars, syncVars
  <2> QED
    BY <2>1, <2>2
<1>3. ASSUME NEW c \in Client, Callback(c), ~RemoveJob(c)
      PROVE  server' = server /\ removed' = removed
  <2>1. CASE ApplyToJob(c)
    BY <2>1 DEF ApplyToJob, Sync!Issue, syncVars
  <2>2. CASE SetNewJobs(c) \/ SetMyPostedJobs(c) \/ SetApplicants(c)
    BY <2>2 DEF SetNewJobs, SetMyPostedJobs, SetApplicants, ghostVars, syncVars
  <2>3. CASE DeclineApplicant(c)
    BY <2>3 DEF DeclineApplicant, syncVars
  <2>4. CASE RemoveApplication(c)
    BY <2>4 DEF RemoveApplication, ghostVars, syncVars
  <2>5. CASE RemoveApplication2(c)
    BY <2>5 DEF RemoveApplication2, ghostVars, Sync!Issue
  <2> QED
    BY <1>3, <2>1, <2>2, <2>3, <2>4, <2>5 DEF Callback
<1>4. ASSUME NEW c \in Client, RemoveJob(c)
      PROVE  \/ server' = server /\ removed' = removed
             \/ \E h \in Job : server' = server /\ removed' = removed \cup {h}
  <2>1. \A k : k \in DOMAIN Enum(Keys(Head(reads[c]).snap)) =>
               Enum(Keys(Head(reads[c]).snap))[k] \in Job
    BY EnumFacts DEF Keys
  <2> QED
    BY <1>4, <2>1 DEF RemoveJob, syncVars, Sync!Issue
<1>5. ASSUME NEW c \in Client, Deliver(c) \/ Ack(c) \/ Connect(c) \/ Disconnect(c) \/ Kill(c)
      PROVE  server' = server /\ removed' = removed
  BY <1>5 DEF Deliver, Ack, Connect, Disconnect, Kill, ghostVars, syncVars,
              Sync!AckPut, Sync!RestoreState, Sync!OnDisconnect, Sync!LosePuts
<1> QED
  BY <1>1, <1>2, <1>3, <1>4, <1>5 DEF Next

\* The put that the server executes writes one field, or none, of a job that
\* nobody removed.
LEMMA OneField ==
    ASSUME Inv, NEW w \in JobWrite, NEW j \in Job \ removed, NEW f \in Field,
           <<j, f>> \in DOMAIN w, MayHold(w[<<j, f>>], j, f)
    PROVE  DOMAIN w = {<<j, f>>}
<1>0. w[<<j, f>>] /= Null
  BY HeldText DEF Inv, BoardInv
<1>1. CASE \E i \in Job, g \in Field, v \in Value : w = PutField(i, g, v)
  <2>1. PICK i \in Job, g \in Field : DOMAIN w = {<<i, g>>}
    BY <1>1 DEF PutField
  <2> QED
    BY <2>1
<1>2. CASE \E i \in Job, a \in App, c \in Client : w = PutApplication(i, a, c)
  <2>1. PICK i \in Job, a \in App : DOMAIN w = {<<i, a>>}
    BY <1>2 DEF PutApplication
  <2> QED
    BY <2>1
<1>3. CASE \E q \in Job \X App : w = RemoveApplicationAt(q)
  BY <1>0, <1>3 DEF RemoveApplicationAt
<1>4. CASE \E i \in Job : w = RemoveJobAt(i)
  BY <1>0, <1>4 DEF RemoveJobAt
<1> QED
  BY <1>1, <1>2, <1>3, <1>4 DEF JobWrite

\* The fields of a job in order, with field k the first one missing.
LEMMA PrefixStage ==
    ASSUME NEW db, NEW j, InOrder(db, j), NEW k \in FieldNo,
           db[<<j, FieldOrder[k]>>] = Null,
           \A h \in FieldNo : h < k => db[<<j, FieldOrder[h]>>] /= Null
    PROVE  {h \in FieldNo : db[<<j, FieldOrder[h]>>] /= Null} = 1..(k - 1)
<1>1. \A h \in FieldNo : db[<<j, FieldOrder[h]>>] /= Null => h < k
  <2> SUFFICES ASSUME NEW h \in FieldNo, db[<<j, FieldOrder[h]>>] /= Null, ~(h < k)
               PROVE  FALSE
    OBVIOUS
  <2>1. h /= k
    OBVIOUS
  <2>2. k < h
    BY <2>1, FieldFacts
  <2> QED
    BY <2>2 DEF InOrder
<1>2. FieldNo = 1..Len(FieldOrder) /\ Len(FieldOrder) \in Nat
  BY FieldAssumption DEF FieldNo
<1>3. \A h : h \in 1..(k - 1) <=> h \in FieldNo /\ h < k
  BY <1>2
<1> QED
  BY <1>1, <1>3

\* Executing a put makes the next field of one job visible, or nothing.
LEMMA ApplyFollows ==
    ASSUME Inv, NEW c \in Client, Apply(c)
    PROVE  \/ \A j \in Job : Stage(j)' = Stage(j)
           \/ \E j \in Job, k \in FieldNo :
                 /\ Stage(j) = 1..(k - 1) /\ Stage(j)' = 1..k
                 /\ \A i \in Job \ {j} : Stage(i)' = Stage(i)
<1>0. SharedTypeOK /\ BoardInv /\ FieldInv
  BY DEF Inv, BoardInv
<1>1. Sync!ServerApply(c) /\ posted' = posted /\ removed' = removed /\ cut' = cut
  BY DEF Apply
<1>n. PICK n \in Nat : n = applied[c] /\ n + 1 \in 1..Len(puts[c])
  BY <1>0, <1>1, TypeFacts DEF Sync!ServerApply
<1>w. PICK w \in JobWrite : w = puts[c][n + 1]
  BY <1>0, <1>n, TypeFacts
<1>2. \A j \in Job, f \in Field : server'[<<j, f>>] =
         IF <<j, f>> \in DOMAIN w THEN w[<<j, f>>] ELSE server[<<j, f>>]
  BY <1>1, <1>n, <1>w, FieldFacts DEF Sync!ServerApply, Sync!ApplyWrite
<1>3. \A j \in Job, f \in Field : <<j, f>> \in DOMAIN w =>
         Writes(c, n + 1, j, f) /\ MayHold(w[<<j, f>>], j, f)
  <2> SUFFICES ASSUME NEW j \in Job, NEW f \in Field, <<j, f>> \in DOMAIN w
               PROVE  Writes(c, n + 1, j, f) /\ MayHold(w[<<j, f>>], j, f)
    OBVIOUS
  <2>1. Writes(c, n + 1, j, f) /\ n + 1 \in Nat
    BY <1>n, <1>w DEF Writes
  <2> QED
    BY <1>0, <1>w, <2>1 DEF FieldInv, PutsMayHold
<1>4. \A j \in removed : Stage(j)' = Stage(j)
  BY <1>1 DEF Stage
<1>5. \A j \in Job \ removed :
         /\ Stage(j) = {k \in FieldNo : server[<<j, FieldOrder[k]>>] /= Null}
         /\ Stage(j)' = {k \in FieldNo : server'[<<j, FieldOrder[k]>>] /= Null}
  BY <1>1 DEF Stage
<1>8. ASSUME NEW j \in Job,
             \A k \in FieldNo : server'[<<j, FieldOrder[k]>>] /= Null
                                <=> server[<<j, FieldOrder[k]>>] /= Null
      PROVE  Stage(j)' = Stage(j)
  <2>1. CASE j \in removed
    BY <1>4, <2>1
  <2>2. CASE j \notin removed
    <3>1. /\ Stage(j) = {k \in FieldNo : server[<<j, FieldOrder[k]>>] /= Null}
          /\ Stage(j)' = {k \in FieldNo : server'[<<j, FieldOrder[k]>>] /= Null}
      BY <1>5, <2>2
    <3> QED
      BY <1>8, <3>1
  <2> QED
    BY <2>1, <2>2
<1>6. CASE \E j \in Job \ removed, k \in FieldNo :
              <<j, FieldOrder[k]>> \in DOMAIN w /\ server[<<j, FieldOrder[k]>>] = Null
  <2>1. PICK j \in Job \ removed, k \in FieldNo :
              <<j, FieldOrder[k]>> \in DOMAIN w /\ server[<<j, FieldOrder[k]>>] = Null
    BY <1>6
  <2>2. FieldOrder[k] \in Field
    BY FieldFacts
  <2>3. /\ DOMAIN w = {<<j, FieldOrder[k]>>}
        /\ w[<<j, FieldOrder[k]>>] /= Null
    BY <1>0, <1>3, <2>1, <2>2, OneField, HeldText
  <2>4. \A h \in FieldNo : h < k => server[<<j, FieldOrder[h]>>] /= Null
    <3> SUFFICES ASSUME NEW h \in FieldNo, h < k
                 PROVE  server[<<j, FieldOrder[h]>>] /= Null
      OBVIOUS
    <3>1. Writes(c, n + 1, j, FieldOrder[k]) /\ n + 1 \in Nat
      BY <1>3, <2>1, <2>2
    <3>2. \/ server[<<j, FieldOrder[h]>>] /= Null
          \/ \E m \in 1..((n + 1) - 1) : Writes(c, m, j, FieldOrder[h])
      BY <1>0, <3>1 DEF FieldInv, QueueInOrder
    <3> QED
      BY <1>0, <1>n, <3>2, FieldFacts DEF FieldInv, ExecutedThere
  <2>5. InOrder(server, j)
    BY <1>0 DEF FieldInv, ServerInOrder
  <2>6. Stage(j) = 1..(k - 1)
    <3>1. {h \in FieldNo : server[<<j, FieldOrder[h]>>] /= Null} = 1..(k - 1)
      BY <2>1, <2>4, <2>5, PrefixStage
    <3> QED
      BY <1>5, <3>1
  <2>7. \A h \in FieldNo : server'[<<j, FieldOrder[h]>>] /= Null
                           <=> h = k \/ server[<<j, FieldOrder[h]>>] /= Null
    <3> SUFFICES ASSUME NEW h \in FieldNo
                 PROVE  server'[<<j, FieldOrder[h]>>] /= Null
                        <=> h = k \/ server[<<j, FieldOrder[h]>>] /= Null
      OBVIOUS
    <3>1. FieldOrder[h] \in Field /\ (FieldOrder[h] = FieldOrder[k] <=> h = k)
      BY FieldFacts
    <3>2. <<j, FieldOrder[h]>> \in DOMAIN w <=> h = k
      BY <2>3, <3>1
    <3> QED
      BY <1>2, <2>2, <2>3, <3>1, <3>2
  <2>8. Stage(j)' = 1..k
    <3>1. \A h : h \in Stage(j)' <=> h \in FieldNo /\ (h = k \/ h \in Stage(j))
      BY <1>5, <2>7
    <3>2. FieldNo = 1..Len(FieldOrder) /\ Len(FieldOrder) \in Nat
      BY FieldAssumption DEF FieldNo
    <3>3. \A h : h \in Stage(j)' <=> h \in 1..k
      BY <2>6, <3>1, <3>2
    <3>4. Stage(j)' = {h \in FieldNo : server'[<<j, FieldOrder[h]>>] /= Null}
      BY <1>5
    <3> QED
      BY <3>3, <3>4
  <2>9. \A i \in Job \ {j} : Stage(i)' = Stage(i)
    <3>1. \A i \in Job \ {j} : \A h \in FieldNo :
             server'[<<i, FieldOrder[h]>>] = server[<<i, FieldOrder[h]>>]
      BY <1>2, <2>3, FieldFacts
    <3> QED
      BY <1>8, <3>1
  <2> QED
    BY <2>6, <2>8, <2>9
<1>7. CASE ~ \E j \in Job \ removed, k \in FieldNo :
              <<j, FieldOrder[k]>> \in DOMAIN w /\ server[<<j, FieldOrder[k]>>] = Null
  <2>1. ASSUME NEW j \in Job \ removed, NEW k \in FieldNo
        PROVE  server'[<<j, FieldOrder[k]>>] /= Null <=> server[<<j, FieldOrder[k]>>] /= Null
    <3>1. FieldOrder[k] \in Field
      BY FieldFacts
    <3>2. CASE <<j, FieldOrder[k]>> \in DOMAIN w
      <4>1. w[<<j, FieldOrder[k]>>] /= Null
        BY <1>0, <1>3, <3>1, <3>2, HeldText
      <4> QED
        BY <1>2, <1>7, <3>1, <3>2, <4>1
    <3>3. CASE <<j, FieldOrder[k]>> \notin DOMAIN w
      BY <1>2, <3>1, <3>3
    <3> QED
      BY <3>2, <3>3
  <2>2. \A j \in Job : Stage(j)' = Stage(j)
    BY <1>4, <1>8, <2>1
  <2> QED
    BY <2>2
<1> QED
  BY <1>6, <1>7

LEMMA StepFollows ==
    Inv /\ [Next]_vars => [Lifecycle!LifecycleNext]_([j \in Job |-> Stage(j)])
<1> SUFFICES ASSUME Inv, [Next]_vars
             PROVE  \/ Lifecycle!LifecycleNext
                    \/ [j \in Job |-> Stage(j)]' = [j \in Job |-> Stage(j)]
  OBVIOUS
<1> DEFINE s == [j \in Job |-> Stage(j)]
<1>1. CASE \A j \in Job : Stage(j)' = Stage(j)
  BY <1>1
<1>2. CASE server' = server /\ removed' = removed
  BY <1>1, <1>2 DEF Stage
<1>3. ASSUME NEW h \in Job, server' = server, removed' = removed \cup {h}
      PROVE  \/ Lifecycle!LifecycleNext
             \/ [j \in Job |-> Stage(j)]' = [j \in Job |-> Stage(j)]
  <2>1. CASE h \in removed
    <3>1. removed' = removed
      BY <1>3, <2>1
    <3> QED
      BY <1>2, <1>3, <3>1
  <2>2. CASE h \notin removed
    <3>1. Stage(h) \in SUBSET FieldNo /\ Stage(h)' = Null
      BY <1>3, <2>2 DEF Stage
    <3>2. Stage(h) /= Null
      BY <3>1, ClientAssumption
    <3>3. \A i \in Job \ {h} : Stage(i)' = Stage(i)
      BY <1>3 DEF Stage
    <3>4. s' = [s EXCEPT ![h] = Null]
      BY <3>1, <3>3
    <3>5. Lifecycle!Withdraw(h)
      BY <3>2, <3>4 DEF Lifecycle!Withdraw
    <3> QED
      BY <3>5 DEF Lifecycle!LifecycleNext
  <2> QED
    BY <2>1, <2>2
<1>4. ASSUME NEW j \in Job, NEW k \in FieldNo, Stage(j) = 1..(k - 1), Stage(j)' = 1..k,
             \A i \in Job \ {j} : Stage(i)' = Stage(i)
      PROVE  Lifecycle!LifecycleNext
  <2>1. k \in 1..Len(FieldOrder)
    BY DEF FieldNo
  <2>2. s' = [s EXCEPT ![j] = 1..k]
    BY <1>4
  <2>3. Lifecycle!Advance(j)
    BY <1>4, <2>1, <2>2 DEF Lifecycle!Advance
  <2> QED
    BY <2>3 DEF Lifecycle!LifecycleNext
<1> QED
  BY <1>1, <1>2, <1>3, <1>4, TreeSteps, ApplyFollows

LEMMA InitFollows == Init => Lifecycle!LifecycleInit
<1> SUFFICES ASSUME Init PROVE Lifecycle!LifecycleInit
  OBVIOUS
<1>1. \A j \in Job, f \in Field : Board[<<j, f>>] =
         IF Ads[j] = Null THEN Null ELSE FieldValue(Ads[j].title, Ads[j].poster, f)
  BY FieldFacts, LeafFacts DEF Board
<1>2. \A j \in Job : Ads[j] /= Null => Ads[j].title \in Title /\ Ads[j].poster \in Client
  BY AdsAssumption DEF Client
<1>3. \A j \in Job, f \in Field : server[<<j, f>>] = Null <=> Ads[j] = Null
  BY <1>1, <1>2, LeafFacts DEF Init
<1>4. \A j \in Job : Stage(j) \in {{}, 1..Len(FieldOrder)}
  <2> SUFFICES ASSUME NEW j \in Job PROVE Stage(j) \in {{}, FieldNo}
    BY DEF FieldNo
  <2>1. Stage(j) = {k \in FieldNo : server[<<j, FieldOrder[k]>>] /= Null}
    BY DEF Init, Stage
  <2>2. \A k \in FieldNo : server[<<j, FieldOrder[k]>>] = Null <=> Ads[j] = Null
    BY <1>3, FieldFacts
  <2> QED
    BY <2>1, <2>2
<1> QED
  BY <1>4 DEF Lifecycle!LifecycleInit

\* For a reader of the tree, a job nobody removed only ever gains its next
\* field, one at a time: the app over the Firebase client implements the
\* life cycle, with resent puts and acknowledgements as stuttering steps.
THEOREM BoardImplementsLifecycle == Spec => JobsFollowLifecycle
<1>1. Init => Lifecycle!LifecycleInit
  BY InitFollows
<1>2. Inv /\ [Next]_vars => [Lifecycle!LifecycleNext]_([j \in Job |-> Stage(j)])
  BY StepFollows
<1> QED
  BY <1>1, <1>2, Invariant, PTL DEF Spec, JobsFollowLifecycle, Lifecycle!LifecycleSpec

-----------------------------------------------------------------------------
(* What becomes of a removed job: once the server has deleted a complete   *)
(* job, only a put that was sent twice brings a field of it back.          *)

\* Put i of client c gives field f of job j a text.
Gives(c, i, j, f) == Writes(c, i, j, f) /\ puts[c][i][<<j, f>>] /= Null

\* Only the poster of a job gives its fields a text, each field once.
GivenByPoster ==
    \A c \in Client : \A i \in Nat : \A j \in Job : \A f \in Field :
        Gives(c, i, j, f) => posted[j] /= Null /\ posted[j].poster = c

GivenOnce ==
    \A c \in Client : \A i, k \in Nat : \A j \in Job : \A f \in Field :
        Gives(c, i, j, f) /\ Gives(c, k, j, f) => i = k

\* On a connection that never broke, the put of a field that the server has
\* had is executed and not sent again.
Settled ==
    \A j \in Job : \A f \in Field :
        /\ posted[j] /= Null
        /\ drops[posted[j].poster] = 0
        /\ server[<<j, f>>] /= Null \/ j \in gone
        => \A i \in Nat : Gives(posted[j].poster, i, j, f) => i <= applied[posted[j].poster]

GonePosted == \A j \in gone : j \in Job /\ posted[j] /= Null

StickInv ==
    /\ drops \in [Client -> Nat]
    /\ GivenByPoster /\ GivenOnce /\ Settled /\ GonePosted /\ RemovalSticks

-----------------------------------------------------------------------------
(* Steps.                                                                  *)

LEMMA PosterClient ==
    ASSUME SharedTypeOK, NEW j \in Job, posted[j] /= Null
    PROVE  posted[j].poster \in Client
  BY TypeFacts DEF Client

\* A queue behind which writes join.
LEMMA IssuedPuts ==
    ASSUME SharedTypeOK, NEW c \in Client, NEW ws \in Seq(JobWrite), Sync!Issue(c, ws)
    PROVE  /\ server' = server /\ applied' = applied
           /\ \A d \in Client \ {c} : puts'[d] = puts[d]
           /\ \E n \in Nat :
                 /\ n = Len(puts[c]) /\ Len(ws) \in Nat /\ Len(puts'[c]) = n + Len(ws)
                 /\ \A i \in 1..n : puts'[c][i] = puts[c][i]
                 /\ \A i \in 1..(n + Len(ws)) :
                       ~(i <= n) => i - n \in 1..Len(ws) /\ puts'[c][i] = ws[i - n]
<1> DEFINE q == puts[c]
           r == q \o ws
           n == Len(puts[c])
<1>1. q \in Seq(JobWrite) /\ n \in Nat /\ Len(ws) \in Nat
  BY TypeFacts
<1>2. /\ Len(r) = n + Len(ws)
      /\ \A i \in 1..Len(r) : r[i] = IF i <= n THEN q[i] ELSE ws[i - n]
  BY <1>1, ConcatProperties
<1>3. /\ puts'[c] = r
      /\ \A d \in Client \ {c} : puts'[d] = puts[d]
      /\ server' = server /\ applied' = applied
  BY TypeFacts DEF Sync!Issue
<1> HIDE DEF q, r, n
<1>4. \A i \in 1..n : r[i] = q[i]
  BY <1>1, <1>2
<1>5. \A i \in 1..(n + Len(ws)) : ~(i <= n) => i - n \in 1..Len(ws) /\ r[i] = ws[i - n]
  BY <1>1, <1>2
<1> QED
  BY <1>1, <1>2, <1>3, <1>4, <1>5 DEF q, n

\* Callback r of RemoveApplication found application a below a job.
Found(r, a) ==
    \E j \in Job : /\ r.snap[<<j, a>>] = r.email
                  /\ r.snap[<<j, "title">>] = r.title /\ r.title /= Null

\* What the second callback of RemoveApplication issues.
LEMMA RemovalWrites ==
    ASSUME ReadsOK, NEW c \in Client, RemoveApplication2(c)
    PROVE  \E ws \in Seq(JobWrite) :
              /\ Sync!Issue(c, ws)
              /\ \A i \in 1..Len(ws) : \E q \in Job \X App :
                    ws[i] = RemoveApplicationAt(q) /\ Found(Head(reads[c]), q[2])
<1> DEFINE r    == Head(reads[c])
           jobs == Enum(Keys(r.snap))
           bad  == {i \in DOMAIN jobs : /\ \E a \in App : r.snap[<<jobs[i], a>>] = r.email
                                        /\ r.snap[<<jobs[i], "title">>] = Null}
           done == {i \in DOMAIN jobs : \A k \in bad : i < k}
           hits == UNION {Matches(r.snap, r.email, r.title, jobs[i]) : i \in done}
           ord  == Enum(r.keys \X hits)
           ws   == [i \in DOMAIN ord |-> RemoveApplicationAt(ord[i])]
<1>1. Sync!Issue(c, ws)
  BY DEF RemoveApplication2
<1>2. hits \in SUBSET App
  BY DEF Matches
<1>3. r.keys \in SUBSET Job
  BY GoodTail DEF ReadsOK, GoodRead, RemoveApplication2, Runs
<1>j. jobs \in Seq(Job)
  BY EnumFacts DEF Keys
<1>h. \A a \in hits : Found(r, a)
  <2> HIDE DEF jobs
  <2> SUFFICES ASSUME NEW a \in hits PROVE Found(r, a)
    OBVIOUS
  <2>1. PICK i \in done : a \in Matches(r.snap, r.email, r.title, jobs[i])
    OBVIOUS
  <2>2. i \in DOMAIN jobs /\ i \in Int /\ jobs[i] \in Job
    BY <1>j
  <2>3. /\ a \in App /\ r.snap[<<jobs[i], a>>] = r.email
        /\ r.snap[<<jobs[i], "title">>] = r.title
    BY <2>1 DEF Matches
  <2>4. i \notin bad
    <3>1. \A k \in bad : i < k
      OBVIOUS
    <3>2. ~(i < i)
      BY <2>2
    <3> HIDE DEF bad, done
    <3> QED
      BY <3>1, <3>2
  <2>5. r.title /= Null
    BY <2>2, <2>3, <2>4
  <2> QED
    BY <2>2, <2>3, <2>5 DEF Found
<1> HIDE DEF r, hits
<1>4. ord \in Seq(Job \X App) /\ \A i \in DOMAIN ord : ord[i] \in r.keys \X hits
  <2>1. r.keys \X hits \in SUBSET (Job \X App)
    BY <1>2, <1>3
  <2> QED
    BY <2>1, EnumFacts
<1> HIDE DEF ord
<1>5. PICK n \in Nat : DOMAIN ord = 1..n /\ \A i \in 1..n : /\ ord[i] \in Job \X App
                                                          /\ Found(r, ord[i][2])
  <2>1. PICK n \in Nat : DOMAIN ord = 1..n /\ \A i \in 1..n : ord[i] \in Job \X App
    BY <1>4
  <2>2. \A i \in 1..n : ord[i][2] \in hits
    BY <1>4, <2>1
  <2> QED
    BY <1>h, <2>1, <2>2
<1>6. ws = [i \in 1..n |-> RemoveApplicationAt(ord[i])]
  BY <1>5
<1> HIDE DEF ws
<1>7. \A i \in 1..n : \E q \in Job \X App :
         ws[i] = RemoveApplicationAt(q) /\ Found(r, q[2])
  BY <1>5, <1>6
<1>8. ws \in [1..n -> JobWrite]
  BY <1>5, <1>6 DEF JobWrite
<1>9. ws \in Seq(JobWrite) /\ Len(ws) = n
  BY <1>8
<1> QED
  BY <1>1, <1>7, <1>9 DEF r

\* Writes that give no field a text.
LEMMA StickIssue ==
    ASSUME SharedTypeOK, StickInv,
           NEW c \in Client, NEW ws \in Seq(JobWrite), Sync!Issue(c, ws),
           \A i \in 1..Len(ws) : \A j \in Job : \A f \in Field :
              <<j, f>> \in DOMAIN ws[i] => ws[i][<<j, f>>] = Null,
           posted' = posted, gone' = gone, drops' = drops
    PROVE  StickInv'
<1>1. PICK n \in Nat :
                 /\ n = Len(puts[c]) /\ Len(ws) \in Nat /\ Len(puts'[c]) = n + Len(ws)
                 /\ \A i \in 1..n : puts'[c][i] = puts[c][i]
                 /\ \A i \in 1..(n + Len(ws)) :
                       ~(i <= n) => i - n \in 1..Len(ws) /\ puts'[c][i] = ws[i - n]
  BY IssuedPuts
<1>2. /\ server' = server /\ applied' = applied
      /\ \A d \in Client \ {c} : puts'[d] = puts[d]
  BY IssuedPuts
<1>3. ASSUME NEW d \in Client, NEW i \in Nat, NEW j \in Job, NEW f \in Field, Gives(d, i, j, f)'
      PROVE  Gives(d, i, j, f)
  <2>1. CASE d = c
    <3>1. i \in 1..(n + Len(ws)) /\ <<j, f>> \in DOMAIN puts'[c][i]
          /\ puts'[c][i][<<j, f>>] /= Null
      BY <1>1, <1>3, <2>1 DEF Gives, Writes
    <3>2. ASSUME ~(i <= n) PROVE FALSE
      <4>1. i - n \in 1..Len(ws) /\ puts'[c][i] = ws[i - n]
        BY <1>1, <3>1, <3>2
      <4> QED
        BY <3>1, <4>1
    <3> QED
      BY <1>1, <2>1, <3>1, <3>2 DEF Gives, Writes
  <2>2. CASE d /= c
    BY <1>2, <1>3, <2>2 DEF Gives, Writes
  <2> QED
    BY <2>1, <2>2
<1>4. GivenByPoster' /\ GivenOnce'
  BY <1>3 DEF StickInv, GivenByPoster, GivenOnce
<1>5. Settled'
  BY <1>2, <1>3, PosterClient DEF StickInv, Settled
<1> QED
  BY <1>2, <1>4, <1>5 DEF StickInv, GonePosted, RemovalSticks

\* CreateJob gives each field of a fresh key a text.
LEMMA StickCreate ==
    ASSUME BoardInv, StickInv,
           NEW c \in Client, NEW j \in Job, NEW t \in Title, CreateJob(c, j, t)
    PROVE  StickInv'
<1> DEFINE ws == JobPuts(j, t, c)
<1>0. SharedTypeOK /\ ServerMayHold
  BY DEF BoardInv, FieldInv
<1>1. /\ ws \in Seq(JobWrite) /\ Len(ws) = Len(FieldOrder) /\ FieldNo = 1..Len(ws)
      /\ \A k \in FieldNo : /\ DOMAIN ws[k] = {<<j, FieldOrder[k]>>}
                            /\ ws[k][<<j, FieldOrder[k]>>] = FieldValue(t, c, FieldOrder[k])
  BY JobPutsFacts DEF FieldNo
<1>2. /\ posted[j] = Null /\ Sync!Issue(c, ws) /\ gone' = gone /\ drops' = drops
      /\ c \in Poster /\ posted' = [posted EXCEPT ![j] = [title |-> t, poster |-> c]]
  BY DEF CreateJob
<1>3. /\ posted'[j] /= Null /\ posted'[j].poster = c
      /\ \A h \in Job \ {j} : posted'[h] = posted[h]
  BY <1>0, <1>2, TypeFacts, ClientAssumption
<1> HIDE DEF ws
<1>4. PICK n \in Nat :
                 /\ n = Len(puts[c]) /\ Len(ws) \in Nat /\ Len(puts'[c]) = n + Len(ws)
                 /\ \A i \in 1..n : puts'[c][i] = puts[c][i]
                 /\ \A i \in 1..(n + Len(ws)) :
                       ~(i <= n) => i - n \in 1..Len(ws) /\ puts'[c][i] = ws[i - n]
  BY <1>0, <1>1, <1>2, IssuedPuts
<1>5. /\ server' = server /\ applied' = applied
      /\ \A d \in Client \ {c} : puts'[d] = puts[d]
  BY <1>0, <1>1, <1>2, IssuedPuts
\* A text comes from the old queue, or it is a field of j.
<1>6. ASSUME NEW d \in Client, NEW i \in Nat, NEW h \in Job, NEW f \in Field, Gives(d, i, h, f)'
      PROVE  \/ Gives(d, i, h, f) /\ h /= j
             \/ d = c /\ h = j /\ \E k \in FieldNo : f = FieldOrder[k] /\ i = n + k
  <2>0. ~Gives(d, i, j, f)
    BY <1>2 DEF StickInv, GivenByPoster
  <2>1. CASE d = c
    <3>1. i \in 1..(n + Len(ws)) /\ <<h, f>> \in DOMAIN puts'[c][i]
          /\ puts'[c][i][<<h, f>>] /= Null
      BY <1>4, <1>6, <2>1 DEF Gives, Writes
    <3>2. CASE i <= n
      BY <1>4, <2>0, <2>1, <3>1, <3>2 DEF Gives, Writes
    <3>3. CASE ~(i <= n)
      <4>1. PICK k \in FieldNo : i = n + k /\ <<h, f>> \in DOMAIN ws[k]
        <5>1. i - n \in 1..Len(ws) /\ puts'[c][i] = ws[i - n]
          BY ONLY <1>4, <3>1, <3>3
        <5>2. i = n + (i - n)
          OBVIOUS
        <5> QED
          BY <1>1, <3>1, <5>1, <5>2
      <4>2. <<h, f>> \in {<<j, FieldOrder[k]>>}
        BY <1>1, <4>1
      <4> QED
        BY <2>1, <4>1, <4>2
    <3> QED
      BY <3>2, <3>3
  <2>2. CASE d /= c
    BY <1>5, <1>6, <2>0, <2>2 DEF Gives, Writes
  <2> QED
    BY <2>1, <2>2
<1>7. GivenByPoster'
  BY <1>3, <1>6 DEF StickInv, GivenByPoster
<1>8. GivenOnce'
  <2> SUFFICES ASSUME NEW d \in Client, NEW i \in Nat, NEW k \in Nat, NEW h \in Job,
                      NEW f \in Field, Gives(d, i, h, f)', Gives(d, k, h, f)'
               PROVE  i = k
    BY DEF GivenOnce
  <2>1. CASE h = j
    BY <1>6, <2>1, FieldFacts
  <2>2. CASE h /= j
    <3>1. Gives(d, i, h, f) /\ Gives(d, k, h, f)
      BY <1>6, <2>2
    <3> QED
      BY <3>1 DEF StickInv, GivenOnce
  <2> QED
    BY <2>1, <2>2
<1>9. j \notin gone /\ \A f \in Field : server[<<j, f>>] = Null
  BY <1>0, <1>2 DEF StickInv, GonePosted, ServerMayHold, MayHold
<1>10. Settled'
  <2> SUFFICES ASSUME NEW h \in Job, NEW f \in Field, posted'[h] /= Null,
                      drops[posted'[h].poster] = 0,
                      server[<<h, f>>] /= Null \/ h \in gone,
                      NEW i \in Nat, Gives(posted[h].poster, i, h, f)'
               PROVE  i <= applied[posted'[h].poster]
    BY <1>2, <1>5 DEF Settled
  <2>1. h /= j /\ posted'[h] = posted[h]
    BY <1>3, <1>9
  <2>2. posted[h].poster \in Client
    BY <1>0, <2>1, PosterClient
  <2>3. Gives(posted[h].poster, i, h, f)
    BY <1>6, <2>1, <2>2 DEF Gives, Writes
  <2> QED
    BY <2>1, <2>3 DEF StickInv, Settled
<1>11. GonePosted' /\ RemovalSticks'
  BY <1>2, <1>3, <1>5, <1>9 DEF StickInv, GonePosted, RemovalSticks
<1> QED
  BY <1>2, <1>7, <1>8, <1>10, <1>11 DEF StickInv

\* The server executes a put.
LEMMA StickApply ==
    ASSUME BoardInv, StickInv, NEW c \in Client, Apply(c)
    PROVE  StickInv'
<1>0. SharedTypeOK /\ ServerMayHold
  BY DEF BoardInv, FieldInv
<1>n. PICK n \in Nat : n = applied[c] /\ n + 1 \in 1..Len(puts[c])
  BY <1>0, TypeFacts DEF Apply, Sync!ServerApply
<1>1. /\ puts' = puts /\ applied' = [applied EXCEPT ![c] = n + 1]
      /\ posted' = posted /\ drops' = drops
      /\ gone' = gone \cup {j \in Job : Complete(server, j) /\ j \notin Keys(server')}
      /\ \A x \in Path : server'[x] = IF x \in DOMAIN puts[c][n + 1]
                                      THEN puts[c][n + 1][x] ELSE server[x]
  BY <1>n DEF Apply, Sync!ServerApply, Sync!ApplyWrite
<1>2. \A d, i, j, f : Gives(d, i, j, f)' <=> Gives(d, i, j, f)
  BY <1>1 DEF Gives, Writes
<1>3. \A d \in Client : applied[d] \in Nat /\ applied'[d] \in Nat /\ applied[d] <= applied'[d]
  BY <1>0, <1>n, <1>1, TypeFacts
<1>4. applied'[c] = n + 1
  BY <1>0, <1>1, TypeFacts
\* A field that appears is given by the put that was executed.
<1>5. \A j \in Job : \A f \in Field :
         server[<<j, f>>] = Null /\ server'[<<j, f>>] /= Null => Gives(c, n + 1, j, f)
  BY <1>n, <1>1, FieldFacts DEF Gives, Writes
<1>6. \A j \in Job : \A f \in Field : server[<<j, f>>] /= Null => posted[j] /= Null
  BY <1>0 DEF ServerMayHold, MayHold
<1>7. GivenByPoster' /\ GivenOnce'
  BY <1>1, <1>2 DEF StickInv, GivenByPoster, GivenOnce
<1>8. Settled'
  <2> SUFFICES ASSUME NEW j \in Job, NEW f \in Field, posted[j] /= Null,
                      drops[posted[j].poster] = 0,
                      server'[<<j, f>>] /= Null \/ j \in gone',
                      NEW i \in Nat, Gives(posted[j].poster, i, j, f)
               PROVE  i <= applied'[posted[j].poster]
    BY <1>1, <1>2 DEF Settled
  <2>0. posted[j].poster \in Client
    BY <1>0, PosterClient
  <2>1. CASE server[<<j, f>>] /= Null \/ j \in gone
    <3>1. i <= applied[posted[j].poster]
      BY <2>1 DEF StickInv, Settled
    <3> QED
      BY <1>3, <2>0, <3>1
  <2>2. CASE server[<<j, f>>] = Null /\ j \notin gone
    <3>1. Gives(c, n + 1, j, f)
      BY <1>1, <1>5, <2>2 DEF Complete
    <3>2. posted[j].poster = c /\ i = n + 1
      BY <3>1 DEF StickInv, GivenByPoster, GivenOnce
    <3> QED
      BY <1>4, <3>2
  <2> QED
    BY <2>1, <2>2
<1>9. GonePosted'
  <2>1. \E f : f \in Field
    BY FieldAssumption, FieldFacts DEF FieldNo
  <2> QED
    BY <1>1, <1>6, <2>1 DEF StickInv, GonePosted, Complete
<1>10. RemovalSticks'
  <2> SUFFICES ASSUME NEW j \in gone', drops[posted[j].poster] = 0, NEW f \in Field
               PROVE  server'[<<j, f>>] = Null
    BY <1>1 DEF RemovalSticks
  <2>1. CASE j \in gone
    <3>0. j \in Job /\ posted[j] /= Null
      BY <2>1 DEF StickInv, GonePosted
    <3>1. server[<<j, f>>] = Null
      BY <2>1 DEF StickInv, RemovalSticks
    <3>2. ~Gives(c, n + 1, j, f)
      <4> SUFFICES ASSUME Gives(c, n + 1, j, f) PROVE FALSE
        OBVIOUS
      <4>1. posted[j].poster = c
        BY <3>0 DEF StickInv, GivenByPoster
      <4>2. n + 1 <= applied[c]
        <5>1. n + 1 \in Nat
          BY <1>n
        <5> QED
          BY <2>1, <3>0, <4>1, <5>1 DEF StickInv, Settled
      <4> QED
        BY <1>n, <4>2
    <3> QED
      BY <1>5, <3>0, <3>1, <3>2
  <2>2. CASE j \notin gone
    BY <1>1, <2>2, LeafFacts DEF Keys
  <2> QED
    BY <2>1, <2>2
<1> QED
  BY <1>1, <1>7, <1>8, <1>9, <1>10 DEF StickInv

\* The oldest executed put is forgotten.
LEMMA StickAck ==
    ASSUME SharedTypeOK, StickInv, NEW c \in Client, Sync!AckPut(c),
           posted' = posted, gone' = gone, drops' = drops
    PROVE  StickInv'
<1>n. PICK n \in Nat : n = Len(puts[c]) /\ n > 0
  BY TypeFacts DEF Sync!AckPut
<1>1. /\ server' = server
      /\ applied[c] \in Nat \ {0} /\ applied'[c] = applied[c] - 1
      /\ Len(puts'[c]) = n - 1
      /\ \A i \in 1..(n - 1) : puts'[c][i] = puts[c][i + 1]
      /\ \A d \in Client \ {c} : puts'[d] = puts[d] /\ applied'[d] = applied[d]
  <2>1. puts[c] \in Seq(JobWrite) /\ puts[c] /= <<>>
    BY <1>n, TypeFacts
  <2>2. /\ Len(Tail(puts[c])) = n - 1
        /\ \A i \in 1..(n - 1) : Tail(puts[c])[i] = puts[c][i + 1]
    BY <1>n, <2>1, HeadTailProperties
  <2>3. puts'[c] = Tail(puts[c])
    BY TypeFacts DEF Sync!AckPut
  <2> QED
    BY <2>2, <2>3, TypeFacts DEF Sync!AckPut
<1>2. \A i \in Nat, j \in Job, f \in Field : Gives(c, i, j, f)' => Gives(c, i + 1, j, f)
  BY <1>n, <1>1 DEF Gives, Writes
<1>3. \A d \in Client \ {c} : \A i, j, f : Gives(d, i, j, f)' <=> Gives(d, i, j, f)
  BY <1>1 DEF Gives, Writes
<1>4. GivenByPoster'
  <2> SUFFICES ASSUME NEW d \in Client, NEW i \in Nat, NEW j \in Job, NEW f \in Field,
                      Gives(d, i, j, f)'
               PROVE  posted[j] /= Null /\ posted[j].poster = d
    BY DEF GivenByPoster
  <2>1. \E k \in Nat : Gives(d, k, j, f)
    BY <1>2, <1>3
  <2> QED
    BY <2>1 DEF StickInv, GivenByPoster
<1>5. GivenOnce'
  <2> SUFFICES ASSUME NEW d \in Client, NEW i \in Nat, NEW k \in Nat, NEW j \in Job,
                      NEW f \in Field, Gives(d, i, j, f)', Gives(d, k, j, f)'
               PROVE  i = k
    BY DEF GivenOnce
  <2>1. CASE d = c
    <3>1. i + 1 = k + 1
      BY <1>2, <2>1 DEF StickInv, GivenOnce
    <3> QED
      BY <3>1
  <2>2. CASE d /= c
    BY <1>3, <2>2 DEF StickInv, GivenOnce
  <2> QED
    BY <2>1, <2>2
<1>6. Settled'
  <2> SUFFICES ASSUME NEW j \in Job, NEW f \in Field, posted[j] /= Null,
                      drops[posted[j].poster] = 0,
                      server[<<j, f>>] /= Null \/ j \in gone,
                      NEW i \in Nat, Gives(posted[j].poster, i, j, f)'
               PROVE  i <= applied'[posted[j].poster]
    BY <1>1 DEF Settled, Gives, Writes
  <2>0. posted[j].poster \in Client
    BY PosterClient
  <2>1. CASE posted[j].poster = c
    <3>1. i + 1 <= applied[c]
      BY <1>2, <2>1 DEF StickInv, Settled
    <3> QED
      BY <1>1, <2>1, <3>1
  <2>2. CASE posted[j].poster /= c
    BY <1>1, <1>3, <2>0, <2>2 DEF StickInv, Settled
  <2> QED
    BY <2>1, <2>2
<1> QED
  BY <1>1, <1>4, <1>5, <1>6 DEF StickInv, GonePosted, RemovalSticks

\* A step after which no client has more to send.
LEMMA StickStill ==
    ASSUME SharedTypeOK, StickInv,
           posted' = posted, gone' = gone, server' = server,
           \A d \in Client : \/ puts'[d] = puts[d] /\ applied'[d] = applied[d]
                             \/ puts'[d] = puts[d] /\ drops'[d] /= 0
                             \/ puts'[d] = <<>>,
           drops' \in [Client -> Nat],
           \A d \in Client : drops'[d] = 0 => drops[d] = 0
    PROVE  StickInv'
<1>1. \A d \in Client : \A i, j, f : Gives(d, i, j, f)' => Gives(d, i, j, f)
  BY DEF Gives, Writes
<1>2. \A d \in Client : \A i, j, f :
         Gives(d, i, j, f)' /\ drops'[d] = 0 => applied'[d] = applied[d]
  BY DEF Gives, Writes
<1>3. GivenByPoster' /\ GivenOnce'
  BY <1>1 DEF StickInv, GivenByPoster, GivenOnce
<1>4. Settled'
  <2> SUFFICES ASSUME NEW j \in Job, NEW f \in Field, posted[j] /= Null,
                      drops'[posted[j].poster] = 0,
                      server[<<j, f>>] /= Null \/ j \in gone,
                      NEW i \in Nat, Gives(posted[j].poster, i, j, f)'
               PROVE  i <= applied'[posted[j].poster]
    BY DEF Settled, Gives, Writes
  <2>0. posted[j].poster \in Client
    BY PosterClient
  <2>1. Gives(posted[j].poster, i, j, f) /\ drops[posted[j].poster] = 0
        /\ applied'[posted[j].poster] = applied[posted[j].poster]
    BY <1>1, <1>2, <2>0 DEF Gives, Writes
  <2> QED
    BY <2>1 DEF StickInv, Settled
<1>5. GonePosted' /\ RemovalSticks'
  BY PosterClient DEF StickInv, GonePosted, RemovalSticks
<1> QED
  BY <1>3, <1>4, <1>5 DEF StickInv

-----------------------------------------------------------------------------
(* The invariant, and the theorem.                                         *)

LEMMA StickInit == Init => StickInv
<1> SUFFICES ASSUME Init PROVE StickInv
  OBVIOUS
<1>1. \A c \in Client : \A i, j, f : ~Gives(c, i, j, f)
  BY DEF Init, Gives, Writes
<1>2. \A j \in Job : posted[j] /= Null => posted[j].poster \in Client
  BY AdsAssumption DEF Init, Client
<1> QED
  BY <1>1, <1>2 DEF Init, StickInv, GivenByPoster, GivenOnce, Settled, GonePosted, RemovalSticks

LEMMA StickNext == Inv /\ StickInv /\ [Next]_vars => StickInv'
<1> SUFFICES ASSUME Inv, StickInv, [Next]_vars PROVE StickInv'
  OBVIOUS
<1>0. BoardInv /\ SharedTypeOK /\ drops \in [Client -> Nat]
  BY DEF Inv, BoardInv, StickInv
<1>1. ASSUME UNCHANGED <<syncVars, posted, gone, drops>>
      PROVE  StickInv'
  BY <1>0, <1>1, StickStill DEF syncVars
<1>2. CASE UNCHANGED vars
  BY <1>1, <1>2 DEF vars, ghostVars
<1>3. ASSUME NEW c \in Client, User(c)
      PROVE  StickInv'
  <2>1. CASE \E j \in Job, t \in Title : CreateJob(c, j, t)
    BY <1>0, <2>1, StickCreate
  <2>2. CASE ~ \E j \in Job, t \in Title : CreateJob(c, j, t)
    BY <1>1, <1>3, <2>2 DEF User, Launch, Present, Select, Dismiss, TapApply, TapRemove,
                            TapDecline, Tap, ghostVars
  <2> QED
    BY <2>1, <2>2
<1>4. ASSUME NEW c \in Client, ApplyToJob(c)
      PROVE  StickInv'
  <2>0. posted' = posted /\ gone' = gone /\ drops' = drops
    BY <1>4 DEF ApplyToJob
  <2>1. CASE UNCHANGED syncVars
    BY <1>1, <2>0, <2>1
  <2>2. CASE \E h \in Job, a \in App : Sync!Issue(c, <<PutApplication(h, a, c)>>)
    <3>1. PICK h \in Job, a \in App : Sync!Issue(c, <<PutApplication(h, a, c)>>)
      BY <2>2
    <3>2. PutApplication(h, a, c) \in JobWrite /\ DOMAIN PutApplication(h, a, c) = {<<h, a>>}
      BY DEF JobWrite, PutApplication
    <3>3. PICK ws \in Seq(JobWrite) : /\ ws = <<PutApplication(h, a, c)>>
                                      /\ Len(ws) = 1 /\ ws[1] = PutApplication(h, a, c)
      BY <3>2, OneWrite
    <3>4. \A i \in 1..Len(ws) : \A j \in Job : \A f \in Field : <<j, f>> \notin DOMAIN ws[i]
      <4>1. \A j \in Job : \A f \in Field : <<j, f>> /= <<h, a>>
        BY LeafFacts
      <4> QED
        BY <3>2, <3>3, <4>1
    <3> QED
      BY <1>0, <2>0, <3>1, <3>3, <3>4, StickIssue
  <2>3. \A k : k \in DOMAIN Enum(Keys(Head(reads[c]).snap)) =>
               Enum(Keys(Head(reads[c]).snap))[k] \in Job
    BY EnumFacts DEF Keys
  <2> QED
    BY <1>4, <2>1, <2>2, <2>3 DEF ApplyToJob
<1>5. ASSUME NEW c \in Client, RemoveJob(c)
      PROVE  StickInv'
  <2>0. posted' = posted /\ gone' = gone /\ drops' = drops
    BY <1>5 DEF RemoveJob
  <2>1. CASE UNCHANGED syncVars
    BY <1>1, <2>0, <2>1
  <2>2. CASE \E h \in Job : Sync!Issue(c, <<RemoveJobAt(h)>>)
    <3>1. PICK h \in Job : Sync!Issue(c, <<RemoveJobAt(h)>>)
      BY <2>2
    <3>2. /\ RemoveJobAt(h) \in JobWrite
          /\ \A x \in DOMAIN RemoveJobAt(h) : RemoveJobAt(h)[x] = Null
      BY DEF JobWrite, RemoveJobAt
    <3>3. PICK ws \in Seq(JobWrite) : /\ ws = <<RemoveJobAt(h)>>
                                      /\ Len(ws) = 1 /\ ws[1] = RemoveJobAt(h)
      BY <3>2, OneWrite
    <3>4. \A i \in 1..Len(ws) : \A j \in Job : \A f \in Field :
             <<j, f>> \in DOMAIN ws[i] => ws[i][<<j, f>>] = Null
      BY <3>2, <3>3
    <3> QED
      BY <1>0, <2>0, <3>1, <3>3, <3>4, StickIssue
  <2>3. \A k : k \in DOMAIN Enum(Keys(Head(reads[c]).snap)) =>
               Enum(Keys(Head(reads[c]).snap))[k] \in Job
    BY EnumFacts DEF Keys
  <2> QED
    BY <1>5, <2>1, <2>2, <2>3 DEF RemoveJob
<1>6. ASSUME NEW c \in Client, RemoveApplication2(c)
      PROVE  StickInv'
  <2>0. posted' = posted /\ gone' = gone /\ drops' = drops
    BY <1>6 DEF RemoveApplication2, ghostVars
  <2>1. PICK ws \in Seq(JobWrite) :
            /\ Sync!Issue(c, ws)
            /\ \A i \in 1..Len(ws) : \E q \in Job \X App : ws[i] = RemoveApplicationAt(q)
    BY <1>6, RemovalWrites DEF Inv
  <2>2. \A i \in 1..Len(ws) : \A j \in Job : \A f \in Field :
           <<j, f>> \in DOMAIN ws[i] => ws[i][<<j, f>>] = Null
    BY <2>1 DEF RemoveApplicationAt
  <2> QED
    BY <1>0, <2>0, <2>1, <2>2, StickIssue
<1>7. ASSUME NEW c \in Client, Callback(c)
      PROVE  StickInv'
  <2>1. CASE SetNewJobs(c) \/ SetMyPostedJobs(c) \/ SetApplicants(c)
    BY <1>1, <2>1 DEF SetNewJobs, SetMyPostedJobs, SetApplicants, ghostVars
  <2>2. CASE DeclineApplicant(c) \/ RemoveApplication(c)
    BY <1>1, <2>2 DEF DeclineApplicant, RemoveApplication, ghostVars
  <2> QED
    BY <1>4, <1>5, <1>6, <1>7, <2>1, <2>2 DEF Callback
<1>8. ASSUME NEW c \in Client, Apply(c)
      PROVE  StickInv'
  BY <1>0, <1>8, StickApply
<1>9. ASSUME NEW c \in Client, Ack(c)
      PROVE  StickInv'
  BY <1>0, <1>9, StickAck DEF Ack, ghostVars
<1>10. ASSUME NEW c \in Client, Connect(c) \/ Disconnect(c) \/ Kill(c) \/ Deliver(c)
       PROVE  StickInv'
  <2>1. posted' = posted /\ gone' = gone /\ server' = server
    BY <1>10 DEF Connect, Disconnect, Kill, Deliver, Sync!RestoreState, Sync!OnDisconnect,
                 Sync!LosePuts, ghostVars, syncVars
  <2>2. drops' \in [Client -> Nat] /\ \A d \in Client : drops'[d] = 0 => drops[d] = 0
    BY <1>0, <1>10 DEF Connect, Disconnect, Kill, Deliver
  <2>3. \A d \in Client : \/ puts'[d] = puts[d] /\ applied'[d] = applied[d]
                          \/ puts'[d] = puts[d] /\ drops'[d] /= 0
                          \/ puts'[d] = <<>>
    <3>1. CASE Connect(c) \/ Deliver(c)
      BY <3>1 DEF Connect, Deliver, Sync!RestoreState, syncVars
    <3>2. CASE Disconnect(c)
      <4>1. drops'[c] /= 0
        BY <1>0, <3>2 DEF Disconnect
      <4> QED
        BY <1>0, <3>2, <4>1, TypeFacts DEF Disconnect, Sync!OnDisconnect
    <3>3. CASE Kill(c)
      BY <1>0, <3>3, TypeFacts DEF Kill, Sync!LosePuts
    <3> QED
      BY <1>10, <3>1, <3>2, <3>3
  <2> QED
    BY <1>0, <2>1, <2>2, <2>3, StickStill
<1> QED
  BY <1>2, <1>3, <1>7, <1>8, <1>9, <1>10 DEF Next

\* A job that the server has deleted as a whole stays deleted, whoever
\* removed it and whatever the other clients do, as long as its poster's
\* connection has not broken: only a put sent twice brings a field back.
THEOREM RemovedJobsStayRemoved == Spec => []RemovalSticks
<1>1. StickInv => RemovalSticks
  BY DEF StickInv
<1> QED
  BY <1>1, StickInit, StickNext, Invariant, PTL DEF Spec
=============================================================================

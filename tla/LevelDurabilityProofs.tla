------------------------ MODULE LevelDurabilityProofs ------------------------
(***************************************************************************)
(* The proof that LevelStore loses no acknowledged write and shows no      *)
(* other one, that is, that it implements DurableStore, for every number   *)
(* of writes and crashes, every bound on file numbers, every size of the   *)
(* memtable and every choice of failing calls.                             *)
(***************************************************************************)
EXTENDS LevelStoreProofs

-----------------------------------------------------------------------------
(* What files hold.  The arguments are the files f and a directory D, so   *)
(* that a step can be stated as the change from f and D to g and E.        *)

(* What a log g holds, what of it is durable, and what a table g holds. *)
Soft(g) == {g.data[i] : i \in 1 .. Len(g.data)}
Hard(g) == {g.data[i] : i \in 1 .. g.dur}
Recs(g) == UNION {g.data[i] : i \in 1 .. Len(g.data)}

(* A finished table: written at once, and synced. *)
Done(g) == Len(g.data) = 1 /\ g.dur = 1

(* The edit that decides where the logs start, among the first k of es. *)
Counts(x) == x.full /\ x.next # 0
Deciding(es, k) == Max({i \in 1 .. k : Counts(es[i])})
LogNo(es, k) == es[Deciding(es, k)].log
NextNo(es, k) == es[Deciding(es, k)].next

(* The first k edits of manifest m are what a crash may leave of it. *)
View(m, k) == k \in m.dur .. Len(m.data) /\ \E i \in 1 .. k : Counts(m.data[i])

InTables(f, T, r) == \E t \in T : r \in Recs(f[Table(t)])

(* Record r is in a table of T or in a log from number l on; and it is in  *)
(* the durable part of that log.                                           *)
Shows(f, D, T, l, r) ==
  \/ InTables(f, T, r)
  \/ \E n \in Nat : Log(n) \in D.names /\ l <= n /\ r \in Soft(f[Log(n)])

Keeps(f, D, T, l, r) ==
  \/ InTables(f, T, r)
  \/ \E n \in Nat : Log(n) \in D.names /\ l <= n /\ r \in Hard(f[Log(n)])

Current(f, D) == f[Manifest(D.current)]

(* Record r is in a database opened on the files f of directory D ... *)
Shown(f, D, r) ==
  LET m == Current(f, D)
      N == Len(m.data)
  IN /\ D.current # 0 /\ View(m, N)
     /\ Shows(f, D, LiveAt(m.data, N), LogNo(m.data, N), r)

(* ... and in every one that a machine crash may leave of it. *)
Lasting(f, D, r) ==
  LET m == Current(f, D)
  IN D.current # 0 =>
       \A k \in Nat : View(m, k) => Keeps(f, D, LiveAt(m.data, k), LogNo(m.data, k), r)

(* The tables of every view are finished. *)
TablesDone(f, D) ==
  LET m == Current(f, D)
  IN D.current # 0 =>
       \A k \in Nat : View(m, k) => \A t \in LiveAt(m.data, k) : Done(f[Table(t)])

(* The file numbers in the first k edits are below b. *)
Below(es, k, b) ==
  \A i \in 1 .. k : es[i].next <= b /\ es[i].log < b /\ \A t \in es[i].add : t < b

NumbersOK(f, D) ==
  LET m == Current(f, D)
  IN D.current # 0 =>
       \A k \in Nat : View(m, k) => Below(m.data, k, NextNo(m.data, k))

-----------------------------------------------------------------------------
(* The inductive invariant, on top of IInv, while nothing is torn.  First  *)
(* what holds of the disk at any time.                                     *)

Names == dir.names \union ddir.names

(* No log has a torn record. *)
Whole ==
  \A n \in Nat : Log(n) \in Names =>
    \A i \in 1 .. Len(file[Log(n)].data) : file[Log(n)].data[i] # Torn

DirsGood ==
  /\ TablesDone(file, dir) /\ TablesDone(file, ddir)
  /\ NumbersOK(file, dir) /\ NumbersOK(file, ddir)

(* The manifest that only a crash would leave is older.  *)
OldNumbers ==
  ddir.current # 0 /\ ddir.current < dir.current =>
    Below(Current(file, ddir).data, Len(Current(file, ddir).data), dir.current)

(* A log that only a crash would leave is older than all that are needed. *)
OldLogs ==
  \A n \in Nat : Log(n) \in ddir.names /\ Log(n) \notin dir.names =>
    /\ dir.current # 0
    /\ \A k \in Nat : View(Current(file, dir), k) => n < LogNo(Current(file, dir).data, k)

(* Each owed write is in the directory, and each synced one in every       *)
(* directory and manifest that a crash may leave.                          *)
Owing ==
  /\ \A i \in owed : \E r \in Rec : r.id = i /\ Shown(file, dir, r)
  /\ \A i \in synced :
       \E r \in Rec : r.id = i /\ Lasting(file, dir, r) /\ Lasting(file, ddir, r)

(* The write in progress is in the current log. *)
Pended ==
  /\ wr.pc # "idle" => Shown(file, dir, wr.rec) /\ wr.rec \in Soft(file[Log(db.log)])
  /\ wr.pc = "insert" /\ wr.sync => Lasting(file, dir, wr.rec) /\ Lasting(file, ddir, wr.rec)

(* While a database is opened: *)
Opening == db.st \in {"logs", "edit", "sync", "current"}
Alive == db.st \in {"gc", "open"}

(* New files get numbers that no needed file has. *)
Numbered ==
  Opening \/ Alive =>
    /\ Below(Current(file, dir).data, Len(Current(file, dir).data), db.next)
    /\ \A t \in db.live \union db.add : t < db.next
    /\ \A n \in Nat : Log(n) \in Names => n < db.next \/ n \in db.todo
    /\ db.st # "logs" => \A n \in Nat : Log(n) \in Names => n <= db.log
    /\ comp.pc # "idle" => comp.out < db.next
    /\ Opening =>
         Below(Current(file, dir).data, Len(Current(file, dir).data), db.manifest)

(* The logs are read one by one, each into a table. *)
Reading ==
  Opening =>
    /\ View(Current(file, dir), Len(Current(file, dir).data))
    /\ db.live = LiveAt(Current(file, dir).data, Len(Current(file, dir).data))
    /\ db.minlog = LogNo(Current(file, dir).data, Len(Current(file, dir).data))
    /\ \A t \in db.add : Done(file[Table(t)])
    /\ \A n \in Nat : Log(n) \in dir.names /\ db.minlog <= n =>
         n \in db.todo \/ \A r \in Soft(file[Log(n)]) : InTables(file, db.add, r)
    /\ db.st # "logs" => db.todo = {} /\ file[Log(db.log)].data = << >>

(* The new manifest is written, and not yet installed. *)
Writing ==
  /\ db.st = "newdb" => file[Manifest(1)].data[1].log = 0
  /\ db.st \in {"sync", "current"} =>
       LET es == file[Manifest(db.manifest)].data
       IN /\ es[1].next = 0 /\ es[1].log = 0 /\ es[1].del = {} /\ es[2].del = {}
          /\ es[2].log = db.log /\ es[2].next = db.next

(* The logs of the memtables are the ones that are read again. *)
LogsFollow ==
  /\ ~db.hasImm => db.imm = {}
  /\ Alive =>
       /\ \A k \in Nat : View(Current(file, dir), k) =>
            /\ db.minlog <= LogNo(Current(file, dir).data, k)
            /\ LogNo(Current(file, dir).data, k) <= db.log
       /\ \A n \in Nat : Log(n) \in ddir.names /\ Log(n) \notin dir.names => n < db.minlog
       /\ \A n \in Nat : Log(n) \in dir.names /\ db.minlog <= n /\ n < db.log =>
            Soft(file[Log(n)]) \subseteq db.imm
       /\ ~db.err => Soft(file[Log(db.log)]) \subseteq
                       db.mem \union (IF wr.pc = "idle" THEN {} ELSE {wr.rec})

(* Tables have what was put into them. *)
TablesFollow == Alive => \A t \in db.live : Done(file[Table(t)])

CompactionFollows ==
  Alive =>
    /\ comp.pc = "open" => file[Table(comp.out)].data = << >>
    /\ comp.pc = "done" =>
         /\ Done(file[Table(comp.out)])
         /\ \A t \in comp.in : Recs(file[Table(t)]) \subseteq Recs(file[Table(comp.out)])

FlushFollows ==
  Alive /\ bg.pc = "built" =>
    /\ db.hasImm /\ bg.out < db.next
    /\ bg.out = 0 => db.imm = {}
    /\ bg.out # 0 =>
         Done(file[Table(bg.out)]) /\ db.imm \subseteq Recs(file[Table(bg.out)])

(* The edit in flight is the last one of the manifest. *)
EditFollows ==
  Alive /\ bg.pc \in {"logged", "synced"} =>
    /\ Current(file, dir).data[Len(Current(file, dir).data)] = bg.edit
    /\ bg.edit.full /\ bg.edit.next # 0
    /\ bg.pc = "synced" => Current(file, dir).dur = Len(Current(file, dir).data)
    /\ bg.edit.del = {} => db.hasImm /\ bg.edit.log = db.log
    /\ bg.edit.del # {} => bg.edit.log = db.minlog

DInv ==
  /\ Whole /\ DirsGood /\ OldNumbers /\ OldLogs /\ Owing /\ Pended
  /\ Numbered /\ Reading /\ Writing /\ LogsFollow
  /\ TablesFollow /\ CompactionFollows /\ FlushFollows /\ EditFollows

-----------------------------------------------------------------------------
(* Edits and views *)

LEMMA DecidingIs ==
  ASSUME NEW es, NEW k \in Nat, \E i \in 1 .. k : Counts(es[i])
  PROVE  /\ Deciding(es, k) \in 1 .. k /\ Counts(es[Deciding(es, k)])
         /\ \A i \in 1 .. k : Counts(es[i]) => i <= Deciding(es, k)
<1> DEFINE S == {i \in 1 .. k : Counts(es[i])}
<1>1. S \subseteq 1 .. k /\ S # {}
  OBVIOUS
<1>2. Max(S) \in S /\ \A i \in S : i <= Max(S)
  BY <1>1, MaxExists
<1> QED
  BY <1>2 DEF Deciding

\* What the first k edits say does not depend on the rest.
LEMMA SameEdits ==
  ASSUME NEW es, NEW fs, NEW k, \A i \in 1 .. k : es[i] = fs[i], k \in Nat
  PROVE  /\ LiveAt(es, k) = LiveAt(fs, k)
         /\ (\E i \in 1 .. k : Counts(es[i])) <=> (\E i \in 1 .. k : Counts(fs[i]))
         /\ (\E i \in 1 .. k : Counts(es[i])) =>
              LogNo(es, k) = LogNo(fs, k) /\ NextNo(es, k) = NextNo(fs, k)
         /\ \A b : Below(es, k, b) <=> Below(fs, k, b)
<1>1. LiveAt(es, k) = LiveAt(fs, k)
  <2>1. \A i \in 1 .. k : \A j \in i + 1 .. k : j \in 1 .. k
    OBVIOUS
  <2> QED
    BY <2>1 DEF LiveAt
<1>2. {i \in 1 .. k : Counts(es[i])} = {i \in 1 .. k : Counts(fs[i])}
  OBVIOUS
<1>3. Deciding(es, k) = Deciding(fs, k)
  BY <1>2 DEF Deciding
<1>4. ASSUME \E i \in 1 .. k : Counts(es[i])
      PROVE  LogNo(es, k) = LogNo(fs, k) /\ NextNo(es, k) = NextNo(fs, k)
  <2>1. Deciding(es, k) \in 1 .. k
    BY <1>4, DecidingIs
  <2> QED
    BY <2>1, <1>3 DEF LogNo, NextNo
<1> QED
  BY <1>1, <1>4 DEF Below

\* One more edit.
LEMMA OneMoreEdit ==
  ASSUME NEW es, NEW k \in Nat
  PROVE  /\ Counts(es[k + 1]) => Deciding(es, k + 1) = k + 1
         /\ ~Counts(es[k + 1]) => Deciding(es, k + 1) = Deciding(es, k)
         /\ \A t \in LiveAt(es, k) : t \notin es[k + 1].del => t \in LiveAt(es, k + 1)
         /\ \A t \in Nat : t \in es[k + 1].add => t \in LiveAt(es, k + 1)
<1>1. ASSUME Counts(es[k + 1])
      PROVE  Deciding(es, k + 1) = k + 1
  <2>1. \E i \in 1 .. k + 1 : Counts(es[i])
    BY <1>1
  <2>2. /\ Deciding(es, k + 1) \in 1 .. k + 1
        /\ \A i \in 1 .. k + 1 : Counts(es[i]) => i <= Deciding(es, k + 1)
    BY <2>1, DecidingIs
  <2> QED
    BY <2>2, <1>1
<1>2. ASSUME ~Counts(es[k + 1])
      PROVE  Deciding(es, k + 1) = Deciding(es, k)
  <2>1. {i \in 1 .. k + 1 : Counts(es[i])} = {i \in 1 .. k : Counts(es[i])}
    BY <1>2
  <2> QED
    BY <2>1 DEF Deciding
<1>3. ASSUME NEW t \in LiveAt(es, k), t \notin es[k + 1].del
      PROVE  t \in LiveAt(es, k + 1)
  <2>1. PICK i \in 1 .. k : t \in es[i].add /\ \A j \in i + 1 .. k : t \notin es[j].del
    BY <1>3 DEF LiveAt
  <2>2. \A j \in i + 1 .. k + 1 : t \notin es[j].del
    BY <2>1, <1>3
  <2>3. t \in Nat
    BY DEF LiveAt
  <2> QED
    BY <2>1, <2>2, <2>3 DEF LiveAt
<1>4. ASSUME NEW t \in Nat, t \in es[k + 1].add
      PROVE  t \in LiveAt(es, k + 1)
  <2>1. \A j \in k + 2 .. k + 1 : t \notin es[j].del
    OBVIOUS
  <2> QED
    BY <2>1, <1>4 DEF LiveAt
<1> QED
  BY <1>1, <1>2, <1>3, <1>4

\* A file that kept its contents, of which more may have been written back.
Kept(x, y) ==
  /\ y.data = x.data /\ x.dur \in Nat /\ y.dur \in Nat /\ Len(x.data) \in Nat
  /\ x.dur <= y.dur /\ y.dur <= Len(x.data)

LEMMA KeptIs ==
  ASSUME NEW x, NEW y, Kept(x, y)
  PROVE  /\ Soft(y) = Soft(x) /\ Recs(y) = Recs(x) /\ Hard(x) \subseteq Hard(y)
         /\ Done(x) => Done(y)
         /\ \A k : View(y, k) => View(x, k)
<1>1. Hard(x) \subseteq Hard(y)
  <2>1. 1 .. x.dur \subseteq 1 .. y.dur
    BY DEF Kept
  <2> QED
    BY <2>1 DEF Kept, Hard
<1>2. Soft(y) = Soft(x) /\ Recs(y) = Recs(x)
  BY DEF Kept, Soft, Recs
<1>3. Done(x) => Done(y)
  BY DEF Kept, Done
<1>4. ASSUME NEW k, View(y, k)
      PROVE  View(x, k)
  BY <1>4 DEF Kept, View
<1> QED
  BY <1>1, <1>2, <1>3, <1>4

\* A directory of which needed logs and tables stay, and no edit is added.
LEMMA DirFrame ==
  ASSUME NEW f, NEW D, NEW g, NEW E, E.current = D.current,
         D.current # 0 =>
           /\ Kept(Current(f, D), Current(g, E))
           /\ \A k \in Nat : View(Current(f, D), k) =>
                /\ \A t \in LiveAt(Current(f, D).data, k) : Kept(f[Table(t)], g[Table(t)])
                /\ \A n \in Nat : Log(n) \in D.names /\ LogNo(Current(f, D).data, k) <= n =>
                     /\ Log(n) \in E.names
                     /\ Soft(f[Log(n)]) \subseteq Soft(g[Log(n)])
                     /\ Hard(f[Log(n)]) \subseteq Hard(g[Log(n)])
  PROVE  /\ TablesDone(f, D) => TablesDone(g, E)
         /\ NumbersOK(f, D) => NumbersOK(g, E)
         /\ \A r : Lasting(f, D, r) => Lasting(g, E, r)
         /\ \A r : Shown(f, D, r) => Shown(g, E, r)
<1> DEFINE m == Current(f, D)
<1> DEFINE o == Current(g, E)
<1>1. CASE D.current = 0
  BY <1>1 DEF TablesDone, NumbersOK, Lasting, Shown
<1>2. CASE D.current # 0
  <2>0. Kept(m, o) /\ o.data = m.data
    BY <1>2 DEF Kept
  <2>1. \A k : View(o, k) => View(m, k)
    BY <2>0, KeptIs
  <2>2. \A k \in Nat : View(m, k) => \A t \in LiveAt(m.data, k) : Kept(f[Table(t)], g[Table(t)])
    BY <1>2
  <2>3. \A k \in Nat : View(m, k) => \A n \in Nat :
           Log(n) \in D.names /\ LogNo(m.data, k) <= n =>
             /\ Log(n) \in E.names
             /\ Soft(f[Log(n)]) \subseteq Soft(g[Log(n)])
             /\ Hard(f[Log(n)]) \subseteq Hard(g[Log(n)])
    BY <1>2
  <2>4. TablesDone(f, D) => TablesDone(g, E)
    BY <2>0, <2>1, <2>2, <1>2, KeptIs DEF TablesDone
  <2>5. NumbersOK(f, D) => NumbersOK(g, E)
    BY <2>0, <2>1, <1>2 DEF NumbersOK
  <2>6. \A k \in Nat : View(m, k) => \A r :
          InTables(f, LiveAt(m.data, k), r) => InTables(g, LiveAt(m.data, k), r)
    BY <2>2, KeptIs DEF InTables
  <2>7. ASSUME NEW r, Lasting(f, D, r)
        PROVE  Lasting(g, E, r)
    <3> SUFFICES ASSUME NEW k \in Nat, View(o, k)
                 PROVE  Keeps(g, E, LiveAt(m.data, k), LogNo(m.data, k), r)
      BY <2>0 DEF Lasting
    <3>1. View(m, k)
      BY <2>1
    <3>2. Keeps(f, D, LiveAt(m.data, k), LogNo(m.data, k), r)
      BY <3>1, <2>7, <1>2 DEF Lasting
    <3> QED
      BY <3>1, <3>2, <2>3, <2>6 DEF Keeps
  <2>8. ASSUME NEW r, Shown(f, D, r)
        PROVE  Shown(g, E, r)
    <3> DEFINE N == Len(m.data)
    <3>1. View(m, N) /\ Shows(f, D, LiveAt(m.data, N), LogNo(m.data, N), r)
      BY <2>8 DEF Shown
    <3>2. N \in Nat
      BY <2>0 DEF Kept
    <3>3. View(o, N)
      BY <3>1, <3>2, <2>0 DEF View, Kept
    <3>4. Shows(g, E, LiveAt(m.data, N), LogNo(m.data, N), r)
      BY <3>1, <3>2, <2>3, <2>6 DEF Shows
    <3> QED
      BY <3>3, <3>4, <2>0, <1>2 DEF Shown
  <2> QED
    BY <2>4, <2>5, <2>7, <2>8
<1> QED
  BY <1>1, <1>2

-----------------------------------------------------------------------------
(* Steps that leave the edits of the current manifests alone *)

LEMMA NameIs ==
  /\ \A n : Log(n)[1] = "log" /\ Log(n)[2] = n
  /\ \A n : Table(n)[1] = "table" /\ Table(n)[2] = n
  /\ \A n : Manifest(n)[1] = "manifest" /\ Manifest(n)[2] = n
BY DEF Log, Table, Manifest

\* The manifest that CURRENT names.
LEMMA CurrentIs ==
  ASSUME IInv, NEW D, D = dir \/ D = ddir, D.current # 0
  PROVE  /\ Manifest(D.current) \in D.names /\ D.current \in 1 .. MaxNumber
         /\ D.current <= dir.current
         /\ Current(file, D).data \in Seq(Edit) /\ Len(Current(file, D).data) \in Nat
         /\ Current(file, D).dur \in 0 .. Len(Current(file, D).data)
         /\ TablesThere(D, Current(file, D))
         /\ Readables(D.current, Current(file, D), torn)
         /\ \A i \in 1 .. Len(Current(file, D).data) :
              /\ Current(file, D).data[i] \in Edit
              /\ Current(file, D).data[i].next # 0 => Current(file, D).data[i].next > D.current
<1>1. DiskInv
  BY DEF IInv
<1>2. DirSound(D, file, torn) /\ DirOK(D) /\ D.current <= dir.current /\ D.current \in Nat
  BY <1>1, FilesAre
<1>3. Manifest(D.current) \in D.names
  BY <1>2 DEF DirSound
<1>4. FileOK(Manifest(D.current), file[Manifest(D.current)], writes)
  BY <1>1, <1>3, FilesAre
<1>5. /\ Current(file, D).data \in Seq(Edit)
      /\ Current(file, D).dur \in 0 .. Len(Current(file, D).data)
      /\ \A i \in 1 .. Len(Current(file, D).data) :
           Current(file, D).data[i].next # 0 =>
             Current(file, D).data[i].next \in D.current + 1 .. MaxNumber
  BY <1>4, NameIs DEF FileOK, Current
<1>6. Len(Current(file, D).data) \in Nat
  BY <1>5, LenProperties
<1>7. D.current \in 1 .. MaxNumber
  BY <1>2 DEF DirOK
<1>8. \A i \in 1 .. Len(Current(file, D).data) :
        /\ Current(file, D).data[i] \in Edit
        /\ Current(file, D).data[i].next # 0 => Current(file, D).data[i].next > D.current
  <2>1. ASSUME NEW i \in 1 .. Len(Current(file, D).data)
        PROVE  Current(file, D).data[i] \in Edit
    BY <1>5, <1>6, ElementOfSeq
  <2>2. \A x \in Edit : x.next \in Nat
    BY DEF Edit
  <2> QED
    BY <2>1, <2>2, <1>5, <1>2
<1> QED
  BY <1>2, <1>3, <1>5, <1>6, <1>7, <1>8 DEF DirSound, Current

\* The tables of a view are there and finished, and no new file gets their
\* numbers.
LEMMA ViewTables ==
  ASSUME IInv, DirsGood, OldNumbers, Numbered, NEW D, D = dir \/ D = ddir, D.current # 0,
         NEW k \in Nat, View(Current(file, D), k), NEW t \in LiveAt(Current(file, D).data, k)
  PROVE  /\ Table(t) \in D.names /\ Done(file[Table(t)])
         /\ Opening \/ Alive => t < db.next
<1>1. TablesThere(D, Current(file, D)) /\ Len(Current(file, D).data) \in Nat
      /\ D.current <= dir.current /\ D.current \in 1 .. MaxNumber
      /\ Current(file, D).dur \in 0 .. Len(Current(file, D).data)
  BY CurrentIs
<1>2. k \in Current(file, D).dur .. Len(Current(file, D).data)
  BY DEF View
<1>3. Table(t) \in D.names
  BY <1>1, <1>2 DEF TablesThere
<1>4. Done(file[Table(t)])
  BY DEF DirsGood, TablesDone
<1>5. PICK i \in 1 .. k : t \in Current(file, D).data[i].add /\ t \in Nat
  BY DEF LiveAt
<1>6. i \in 1 .. Len(Current(file, D).data)
  BY <1>1, <1>2
<1>7. ASSUME Opening \/ Alive
      PROVE  t < db.next
  <2>0. dir.current < db.next /\ dir.current \in Nat /\ db.next \in Nat
    <3>1. ProcessTypeOK /\ Recovering /\ Opened /\ DiskInv
      BY DEF IInv
    <3>2. dir.current \in Nat /\ db.next \in Nat /\ db.manifest \in Nat
      BY <3>1, FilesAre, BoundsAssumption DEF ProcessTypeOK
    <3>3. dir.current <= db.manifest /\ db.manifest < db.next
      BY <1>7, <3>1, <3>2 DEF Recovering, Opened, Opening, Alive
    <3> QED
      BY <3>2, <3>3
  <2>1. CASE D.current = dir.current
    <3>1. Current(file, D) = Current(file, dir)
      BY <2>1 DEF Current
    <3> QED
      BY <3>1, <1>5, <1>6, <1>7 DEF Numbered, Below
  <2>2. CASE D.current # dir.current
    <3>1. D = ddir /\ D.current < dir.current
      BY <2>2, <1>1, <2>0
    <3>2. t < dir.current
      BY <3>1, <1>5, <1>6 DEF OldNumbers, Below
    <3> QED
      BY <3>2, <2>0, <1>5
  <2> QED
    BY <2>1, <2>2
<1> QED
  BY <1>3, <1>4, <1>7

(* What a step leaves of the file named n. *)
Stays(n) ==
  /\ n[1] = "log" =>
       Soft(file[n]) \subseteq Soft(file'[n]) /\ Hard(file[n]) \subseteq Hard(file'[n])
  /\ n[1] = "table" /\ Done(file[n]) /\ (Opening \/ Alive => n[2] < db.next) =>
       Kept(file[n], file'[n])
  /\ n = Manifest(dir.current) \/ n = Manifest(ddir.current) => Kept(file[n], file'[n])

Quiet ==
  /\ dir'.current = dir.current /\ dir.names \subseteq dir'.names
  /\ ddir' = ddir \/ ddir' = dir \/ ddir' = dir'
  /\ \A n \in dir.names : Stays(n)
  /\ ddir' = ddir => \A n \in ddir.names : Stays(n)

(* The logs get no records but those of X. *)
LoggedOnly(X) ==
  /\ dir.current = 0 => \A n \in Nat : Log(n) \in dir'.names => Log(n) \in dir.names
  /\ \A n \in Nat : Log(n) \in dir'.names =>
       \/ Soft(file'[Log(n)]) \subseteq X
       \/ Log(n) \in dir.names /\ Soft(file'[Log(n)]) \subseteq Soft(file[Log(n)]) \union X
  /\ ddir' = ddir => \A n \in Nat : Log(n) \in ddir.names =>
       Soft(file'[Log(n)]) \subseteq Soft(file[Log(n)]) \union X

(* A step that a reopened database does not show. *)
Silent == Quiet /\ LoggedOnly({})

(* A name goes from the directory, and the files that are left stay. *)
Fewer ==
  /\ dir'.current = dir.current /\ dir'.names \subseteq dir.names /\ ddir' = ddir
  /\ \A n \in Names' : n \in Names /\ file'[n] = file[n]

\* One directory of a quiet step.
LEMMA QuietDir ==
  ASSUME IInv, DirsGood, OldNumbers, Numbered, NEW D, D = dir \/ D = ddir,
         NEW E, E.current = D.current, D.names \subseteq E.names, \A n \in D.names : Stays(n)
  PROVE  /\ TablesDone(file', E) /\ NumbersOK(file', E)
         /\ \A r : Lasting(file, D, r) => Lasting(file', E, r)
         /\ \A r : Shown(file, D, r) => Shown(file', E, r)
         /\ D.current # 0 => Kept(Current(file, D), Current(file', E))
<1>1. ASSUME D.current # 0
      PROVE  Kept(Current(file, D), Current(file', E))
  <2>1. Manifest(D.current) \in D.names
    BY <1>1, CurrentIs
  <2> QED
    BY <2>1 DEF Stays, Current
<1>2. ASSUME D.current # 0, NEW k \in Nat, View(Current(file, D), k)
      PROVE  /\ \A t \in LiveAt(Current(file, D).data, k) :
                  Kept(file[Table(t)], file'[Table(t)])
             /\ \A n \in Nat : Log(n) \in D.names =>
                  /\ Log(n) \in E.names
                  /\ Soft(file[Log(n)]) \subseteq Soft(file'[Log(n)])
                  /\ Hard(file[Log(n)]) \subseteq Hard(file'[Log(n)])
  <2>1. ASSUME NEW t \in LiveAt(Current(file, D).data, k)
        PROVE  Kept(file[Table(t)], file'[Table(t)])
    <3>1. /\ Table(t) \in D.names /\ Done(file[Table(t)])
          /\ Opening \/ Alive => t < db.next
      BY <1>2, ViewTables
    <3>2. Stays(Table(t)) /\ Table(t)[1] = "table" /\ Table(t)[2] = t
      BY <3>1, NameIs
    <3> QED
      BY <3>1, <3>2 DEF Stays
  <2>2. ASSUME NEW n \in Nat, Log(n) \in D.names
        PROVE  /\ Log(n) \in E.names
               /\ Soft(file[Log(n)]) \subseteq Soft(file'[Log(n)])
               /\ Hard(file[Log(n)]) \subseteq Hard(file'[Log(n)])
    <3>1. Stays(Log(n)) /\ Log(n)[1] = "log"
      BY <2>2, NameIs
    <3> QED
      BY <3>1, <2>2 DEF Stays
  <2> QED
    BY <2>1, <2>2
<1>3. TablesDone(file, D) /\ NumbersOK(file, D)
  BY DEF DirsGood
<1>4. /\ TablesDone(file, D) => TablesDone(file', E)
      /\ NumbersOK(file, D) => NumbersOK(file', E)
      /\ \A r : Lasting(file, D, r) => Lasting(file', E, r)
      /\ \A r : Shown(file, D, r) => Shown(file', E, r)
  BY <1>1, <1>2, DirFrame
<1> QED
  BY <1>1, <1>3, <1>4

(* What is kept of the disk by a step. *)
Retained ==
  /\ \A r : Shown(file, dir, r) => Shown(file', dir', r)
  /\ \A r : Lasting(file, dir, r) /\ Lasting(file, ddir, r) =>
              Lasting(file', dir', r) /\ Lasting(file', ddir', r)

LEMMA QuietKeeps ==
  ASSUME IInv, DirsGood, OldNumbers, OldLogs, Numbered, Quiet
  PROVE  /\ DirsGood' /\ OldNumbers' /\ OldLogs' /\ Retained
         /\ dir.current # 0 => Kept(Current(file, dir), Current(file', dir'))
<1>1. /\ TablesDone(file', dir') /\ NumbersOK(file', dir')
      /\ \A r : Lasting(file, dir, r) => Lasting(file', dir', r)
      /\ \A r : Shown(file, dir, r) => Shown(file', dir', r)
      /\ dir.current # 0 => Kept(Current(file, dir), Current(file', dir'))
  BY QuietDir DEF Quiet
<1>2. CASE ddir' = ddir
  <2>1. /\ TablesDone(file', ddir') /\ NumbersOK(file', ddir')
        /\ \A r : Lasting(file, ddir, r) => Lasting(file', ddir', r)
        /\ ddir.current # 0 => Kept(Current(file, ddir), Current(file', ddir))
    BY <1>2, QuietDir DEF Quiet
  <2>2. OldNumbers'
    <3> SUFFICES ASSUME ddir.current # 0, ddir.current < dir'.current
                 PROVE  Below(Current(file', ddir).data, Len(Current(file', ddir).data),
                              dir'.current)
      BY <1>2 DEF OldNumbers
    <3>1. Current(file', ddir).data = Current(file, ddir).data
      BY <2>1 DEF Kept
    <3> QED
      BY <3>1 DEF OldNumbers, Quiet
  <2>3. OldLogs'
    <3> SUFFICES ASSUME NEW n \in Nat, Log(n) \in ddir.names, Log(n) \notin dir'.names
                 PROVE  /\ dir'.current # 0
                        /\ \A k \in Nat : View(Current(file', dir'), k) =>
                             n < LogNo(Current(file', dir').data, k)
      BY <1>2 DEF OldLogs
    <3>1. Log(n) \notin dir.names /\ dir'.current = dir.current
      BY DEF Quiet
    <3>2. /\ dir.current # 0
          /\ \A k \in Nat : View(Current(file, dir), k) => n < LogNo(Current(file, dir).data, k)
      BY <3>1 DEF OldLogs
    <3>3. Kept(Current(file, dir), Current(file', dir'))
      BY <3>2, <1>1
    <3>4. /\ Current(file', dir').data = Current(file, dir).data
          /\ \A k : View(Current(file', dir'), k) => View(Current(file, dir), k)
      BY <3>3, KeptIs DEF Kept
    <3> QED
      BY <3>1, <3>2, <3>4
  <2> QED
    BY <1>1, <2>1, <2>2, <2>3 DEF DirsGood, Retained
<1>3. CASE ddir' = dir \/ ddir' = dir'
  <2>1. /\ TablesDone(file', ddir') /\ NumbersOK(file', ddir')
        /\ \A r : Lasting(file, dir, r) => Lasting(file', ddir', r)
    BY <1>3, QuietDir DEF Quiet
  <2>2. ddir'.current = dir'.current /\ ddir'.names \subseteq dir'.names
    BY <1>3 DEF Quiet
  <2>3. ~(dir'.current < dir'.current)
    <3>1. dir.current \in Nat
      BY FilesAre DEF IInv
    <3> QED
      BY <3>1 DEF Quiet
  <2>4. OldNumbers'
    BY <2>2, <2>3 DEF OldNumbers
  <2>5. OldLogs'
    BY <2>2 DEF OldLogs
  <2> QED
    BY <1>1, <2>1, <2>4, <2>5 DEF DirsGood, Retained
<1> QED
  BY <1>1, <1>2, <1>3 DEF Quiet

-----------------------------------------------------------------------------
(* The file operations as quiet steps *)

LEMMA SameStays ==
  ASSUME IInv, NEW n \in Names
  PROVE  /\ Kept(file[n], file'[n]) => Stays(n)
         /\ file'[n] = file[n] => Kept(file[n], file'[n])
<1>1. Kept(file[n], file'[n]) => Stays(n)
  BY KeptIs DEF Stays
<1>2. Len(file[n].data) \in Nat /\ file[n].dur \in 0 .. Len(file[n].data)
  BY FilesAre DEF IInv, Names
<1>3. file'[n] = file[n] => Kept(file[n], file'[n])
  BY <1>2 DEF Kept
<1> QED
  BY <1>1, <1>3

\* All files but one are as before, of those that are still there.
Others(name) ==
  /\ \A n \in dir.names : n # name => file'[n] = file[n]
  /\ ddir' = ddir => \A n \in ddir.names : n # name => file'[n] = file[n]

LEMMA OneFileQuiet ==
  ASSUME IInv, NEW name, Others(name),
         dir'.current = dir.current, dir.names \subseteq dir'.names,
         ddir' = ddir \/ ddir' = dir \/ ddir' = dir', name \in Names => Stays(name)
  PROVE  Quiet
<1>1. ASSUME NEW n \in dir.names
      PROVE  Stays(n)
  BY SameStays DEF Others, Names
<1>2. ASSUME ddir' = ddir, NEW n \in ddir.names
      PROVE  Stays(n)
  BY <1>2, SameStays DEF Others, Names
<1> QED
  BY <1>1, <1>2 DEF Quiet

(* A name whose contents no directory needs. *)
NewName(name) ==
  \/ name \notin Names
  \/ name[1] = "table" /\ (Opening \/ Alive) /\ ~(name[2] < db.next)
  \/ name[1] = "manifest" /\ name # Manifest(dir.current) /\ name # Manifest(ddir.current)

LEMMA NewNameStays ==
  ASSUME NEW name, NewName(name), name \in Names
  PROVE  Stays(name)
<1>1. CASE name[1] = "table" /\ (Opening \/ Alive) /\ ~(name[2] < db.next)
  <2>1. name[1] # "log" /\ name[1] # "manifest"
    BY <1>1
  <2> QED
    BY <1>1, <2>1, NameIs DEF Stays
<1>2. CASE name[1] = "manifest" /\ name # Manifest(dir.current) /\ name # Manifest(ddir.current)
  <2>1. name[1] # "log" /\ name[1] # "table"
    BY <1>2
  <2> QED
    BY <1>2, <2>1 DEF Stays
<1> QED
  BY <1>1, <1>2 DEF NewName

LEMMA CreateQuiet ==
  ASSUME IInv, NEW name, NewName(name), NEW c, SetDisk(Create(Disk, name, c))
  PROVE  /\ Quiet /\ Others(name) /\ ddir' = ddir
         /\ dir'.names = dir.names \union {name} /\ dir'.current = dir.current
         /\ file'[name] = [data |-> c, dur |-> 0]
<1> DEFINE e == Create(Disk, name, c)
<1>1. DiskOK(Disk, writes)
  BY DEF IInv, DiskInv
<1>2. /\ e.dir.names = dir.names \union {name} /\ e.dir.current = dir.current
      /\ e.ddir = ddir /\ e.file[name] = [data |-> c, dur |-> 0]
      /\ \A n \in DOMAIN file : n # name => e.file[n] = file[n]
  BY <1>1, CreateIs, DiskIs
<1>3. /\ dir' = e.dir /\ ddir' = e.ddir
      /\ \A n \in dir'.names \union ddir'.names : file'[n] = e.file[n]
  BY SetDiskIs
<1>4. DOMAIN file = dir.names \union ddir.names
  BY DEF IInv, DiskInv
<1>5. Others(name)
  BY <1>2, <1>3, <1>4 DEF Others
<1>6. /\ ddir' = ddir /\ dir'.names = dir.names \union {name} /\ dir'.current = dir.current
      /\ file'[name] = [data |-> c, dur |-> 0]
  BY <1>2, <1>3
<1>7. Quiet
  BY <1>5, <1>6, OneFileQuiet, NewNameStays
<1> QED
  BY <1>5, <1>6, <1>7

LEMMA CreateSyncQuiet ==
  ASSUME IInv, NEW name \in Name, NewName(name), NEW c,
         FileOK(name, [data |-> c, dur |-> 0], writes),
         SetDisk(Sync(Create(Disk, name, c), name))
  PROVE  /\ Quiet /\ Others(name) /\ ddir' = dir'
         /\ dir'.names = dir.names \union {name} /\ dir'.current = dir.current
         /\ file'[name].data = c /\ file'[name].dur = Len(c)
<1> DEFINE d == Create(Disk, name, c)
<1> DEFINE e == Sync(d, name)
<1>1. DiskOK(Disk, writes)
  BY DEF IInv, DiskInv
<1>2. /\ d.dir.names = dir.names \union {name} /\ d.dir.current = dir.current
      /\ d.ddir = ddir /\ d.file[name] = [data |-> c, dur |-> 0]
      /\ DOMAIN d.file = DOMAIN file \union {name}
      /\ \A n \in DOMAIN file : n # name => d.file[n] = file[n]
  BY <1>1, CreateIs, DiskIs
<1>3. DiskOK(d, writes)
  BY <1>1, CreateKeeps
<1> HIDE DEF d
<1>4. /\ e.dir = d.dir /\ e.ddir = d.dir /\ DOMAIN e.file = DOMAIN d.file
      /\ e.file[name].data = d.file[name].data
      /\ e.file[name].dur = Len(d.file[name].data)
      /\ \A n \in DOMAIN d.file : n # name => e.file[n] = d.file[n]
  BY <1>2, <1>3, SyncIs
<1>5. /\ dir' = e.dir /\ ddir' = e.ddir
      /\ \A n \in dir'.names \union ddir'.names : file'[n] = e.file[n]
  BY SetDiskIs DEF d
<1>6. DOMAIN file = dir.names \union ddir.names
  BY DEF IInv, DiskInv
<1> HIDE DEF e
<1>7. /\ ddir' = dir' /\ dir'.names = dir.names \union {name} /\ dir'.current = dir.current
      /\ file'[name].data = c /\ file'[name].dur = Len(c)
  BY <1>2, <1>4, <1>5
<1>8. Others(name)
  BY <1>2, <1>4, <1>5, <1>6, <1>7 DEF Others
<1>9. Quiet
  BY <1>7, <1>8, OneFileQuiet, NewNameStays
<1> QED
  BY <1>7, <1>8, <1>9

\* A record is appended to the current log.
LEMMA AppendQuiet ==
  ASSUME IInv, NEW n, Log(n) \in dir.names, NEW r, SetDisk(AddRecord(Disk, Log(n), r))
  PROVE  /\ Quiet /\ Others(Log(n)) /\ dir' = dir /\ ddir' = ddir
         /\ file'[Log(n)].data = Append(file[Log(n)].data, r)
         /\ file[Log(n)].data \in Seq(Rec)
<1> DEFINE name == Log(n)
<1> DEFINE e == AddRecord(Disk, name, r)
<1>1. DiskOK(Disk, writes) /\ DOMAIN file = dir.names \union ddir.names
  BY DEF IInv, DiskInv
<1>2. /\ e.dir = dir /\ e.ddir = ddir
      /\ e.file[name].data = Append(file[name].data, r) /\ e.file[name].dur = file[name].dur
      /\ \A x \in DOMAIN file : x # name => e.file[x] = file[x]
  BY <1>1, AddRecordIs, DiskIs
<1> HIDE DEF e
<1>3. /\ dir' = e.dir /\ ddir' = e.ddir
      /\ \A x \in dir'.names \union ddir'.names : file'[x] = e.file[x]
  BY SetDiskIs DEF e
<1>4. /\ dir' = dir /\ ddir' = ddir
      /\ file'[name].data = Append(file[name].data, r) /\ file'[name].dur = file[name].dur
  BY <1>2, <1>3
<1>5. Others(name)
  BY <1>1, <1>2, <1>3 DEF Others
<1>6. file[name].data \in Seq(Rec) /\ file[name].dur \in 0 .. Len(file[name].data)
  BY FilesAre, NameIs DEF IInv, FileOK
<1>7. /\ Len(file'[name].data) = Len(file[name].data) + 1 /\ Len(file[name].data) \in Nat
      /\ \A i \in 1 .. Len(file[name].data) : file'[name].data[i] = file[name].data[i]
  BY <1>4, <1>6, AppendProperties, LenProperties
<1>8. Soft(file[name]) \subseteq Soft(file'[name])
  BY <1>7 DEF Soft
<1>9. Hard(file[name]) \subseteq Hard(file'[name])
  BY <1>4, <1>6, <1>7 DEF Hard
<1>10. Stays(name)
  <2>1. name[1] = "log" /\ name[1] # "table" /\ name[1] # "manifest"
    BY NameIs
  <2>2. name # Manifest(dir.current) /\ name # Manifest(ddir.current)
    BY <2>1, NameIs
  <2> QED
    BY <2>1, <2>2, <1>8, <1>9 DEF Stays
<1>11. Quiet
  BY <1>4, <1>5, <1>10, OneFileQuiet
<1> QED
  BY <1>4, <1>5, <1>6, <1>11

\* The output of a compaction is finished.
LEMMA AppendSyncQuiet ==
  ASSUME IInv, NEW n, Table(n) \in dir.names, file[Table(n)].data = << >>, NEW r \in SUBSET Rec,
         SetDisk(Sync(AddRecord(Disk, Table(n), r), Table(n)))
  PROVE  /\ Quiet /\ Others(Table(n)) /\ dir' = dir /\ ddir' = dir
         /\ file'[Table(n)].data = <<r>> /\ file'[Table(n)].dur = 1
<1> DEFINE name == Table(n)
<1> DEFINE d == AddRecord(Disk, name, r)
<1> DEFINE e == Sync(d, name)
<1>1. DiskOK(Disk, writes) /\ DOMAIN file = dir.names \union ddir.names
  BY DEF IInv, DiskInv
<1>2. /\ d.dir = dir /\ d.ddir = ddir /\ DOMAIN d.file = DOMAIN file
      /\ d.file[name].data = Append(file[name].data, r)
      /\ \A x \in DOMAIN file : x # name => d.file[x] = file[x]
  BY <1>1, AddRecordIs, DiskIs
<1>3. DiskOK(d, writes)
  <2>1. writes \in Nat
    BY DEF IInv, CountsOK
  <2> QED
    BY <1>1, <2>1, AddRecordKeeps, NameIs, DiskIs
<1> HIDE DEF d
<1>4. /\ e.dir = d.dir /\ e.ddir = d.dir
      /\ e.file[name].data = d.file[name].data
      /\ e.file[name].dur = Len(d.file[name].data)
      /\ \A x \in DOMAIN d.file : x # name => e.file[x] = d.file[x]
  <2>1. name \in DOMAIN d.file
    BY <1>1, <1>2
  <2> QED
    BY <2>1, <1>3, SyncIs
<1>5. /\ dir' = e.dir /\ ddir' = e.ddir
      /\ \A x \in dir'.names \union ddir'.names : file'[x] = e.file[x]
  BY SetDiskIs DEF d
<1> HIDE DEF e
<1>6. Append(<< >>, r) = <<r>> /\ Len(<<r>>) = 1
  OBVIOUS
<1>7. /\ dir' = dir /\ ddir' = dir
      /\ file'[name].data = <<r>> /\ file'[name].dur = 1
  BY <1>2, <1>4, <1>5, <1>6
<1>8. Others(name)
  BY <1>1, <1>2, <1>4, <1>5, <1>7 DEF Others
<1>9. Stays(name)
  <2>1. name[1] # "log" /\ name[1] # "manifest"
    BY NameIs
  <2>2. ~Done(file[name])
    BY DEF Done
  <2>3. name # Manifest(dir.current) /\ name # Manifest(ddir.current)
    BY <2>1, NameIs
  <2> QED
    BY <2>1, <2>2, <2>3 DEF Stays
<1>10. Quiet
  BY <1>7, <1>8, <1>9, OneFileQuiet
<1> QED
  BY <1>7, <1>8, <1>10

\* A file is synced.
LEMMA SyncQuiet ==
  ASSUME IInv, NEW name \in dir.names, SetDisk(Sync(Disk, name))
  PROVE  /\ Quiet /\ Others(name) /\ dir' = dir /\ ddir' = dir
         /\ Kept(file[name], file'[name])
         /\ file'[name].dur = Len(file[name].data)
<1> DEFINE e == Sync(Disk, name)
<1>1. DiskOK(Disk, writes) /\ DOMAIN file = dir.names \union ddir.names
  BY DEF IInv, DiskInv
<1>2. /\ e.dir = dir /\ e.ddir = dir
      /\ e.file[name].data = file[name].data /\ e.file[name].dur = Len(file[name].data)
      /\ \A x \in DOMAIN file : x # name => e.file[x] = file[x]
  BY <1>1, SyncIs, DiskIs
<1>3. /\ dir' = e.dir /\ ddir' = e.ddir
      /\ \A x \in dir'.names \union ddir'.names : file'[x] = e.file[x]
  BY SetDiskIs
<1> HIDE DEF e
<1>4. Len(file[name].data) \in Nat /\ file[name].dur \in 0 .. Len(file[name].data)
  BY FilesAre DEF IInv
<1>5. /\ dir' = dir /\ ddir' = dir /\ Kept(file[name], file'[name])
      /\ file'[name].dur = Len(file[name].data)
  BY <1>2, <1>3, <1>4 DEF Kept
<1>6. Others(name)
  BY <1>1, <1>2, <1>3, <1>5 DEF Others
<1>7. Quiet
  BY <1>5, <1>6, OneFileQuiet, SameStays
<1> QED
  BY <1>5, <1>6, <1>7

\* The kernel writes back, or the disk does not change.
LEMMA KernelQuiet ==
  ASSUME IInv, CommitDirectory \/ WriteBack \/ UNCHANGED <<dir, ddir, file>>
  PROVE  /\ Quiet /\ dir' = dir /\ ddir' \in {dir, ddir}
         /\ \A n \in dir.names : Kept(file[n], file'[n])
         /\ ddir' = ddir => \A n \in ddir.names : Kept(file[n], file'[n])
<1>0. DOMAIN file = dir.names \union ddir.names
  BY DEF IInv, DiskInv
<1>1. CASE UNCHANGED <<dir, ddir, file>>
  <2>1. \A n \in Names : Kept(file[n], file'[n])
    BY <1>1, SameStays
  <2> QED
    BY <1>1, <2>1, SameStays DEF Quiet, Names
<1>2. CASE CommitDirectory
  <2> DEFINE e == [Disk EXCEPT !.ddir = dir]
  <2>1. e.dir = dir /\ e.ddir = dir /\ e.file = file
    BY DiskIs
  <2>2. /\ dir' = e.dir /\ ddir' = e.ddir
        /\ \A n \in dir'.names \union ddir'.names : file'[n] = e.file[n]
    BY <1>2, SetDiskIs DEF CommitDirectory
  <2> HIDE DEF e
  <2>3. dir' = dir /\ ddir' = dir /\ \A n \in dir.names : file'[n] = file[n]
    BY <2>1, <2>2
  <2>4. \A n \in dir.names : Kept(file[n], file'[n]) /\ Stays(n)
    BY <2>3, SameStays DEF Names
  <2> QED
    BY <2>3, <2>4 DEF Quiet
<1>3. CASE WriteBack
  <2>1. PICK name \in dir.names :
          SetDisk([Disk EXCEPT !.file[name].dur = Len(file[name].data)])
    BY <1>3 DEF WriteBack
  <2> DEFINE e == [Disk EXCEPT !.file[name].dur = Len(file[name].data)]
  <2>2. DOMAIN file[name] = {"data", "dur"} /\ name \in DOMAIN file
    BY <1>0, FilesAre DEF IInv, FileOK
  <2>3. /\ e.dir = dir /\ e.ddir = ddir
        /\ e.file[name].data = file[name].data /\ e.file[name].dur = Len(file[name].data)
        /\ \A x \in DOMAIN file : x # name => e.file[x] = file[x]
    BY <2>2, DiskIs
  <2>4. /\ dir' = e.dir /\ ddir' = e.ddir
        /\ \A x \in dir'.names \union ddir'.names : file'[x] = e.file[x]
    BY <2>1, SetDiskIs
  <2> HIDE DEF e
  <2>5. Len(file[name].data) \in Nat /\ file[name].dur \in 0 .. Len(file[name].data)
    BY FilesAre DEF IInv
  <2>6. dir' = dir /\ ddir' = ddir /\ Kept(file[name], file'[name])
    BY <2>3, <2>4, <2>5 DEF Kept
  <2>7. \A n \in Names : n # name => file'[n] = file[n]
    BY <1>0, <2>3, <2>4, <2>6 DEF Names
  <2>8. \A n \in Names : Kept(file[n], file'[n]) /\ Stays(n)
    BY <2>6, <2>7, SameStays
  <2> QED
    BY <2>6, <2>8 DEF Quiet, Names
<1> QED
  BY <1>1, <1>2, <1>3

LEMMA SameLogs ==
  ASSUME \A n \in Nat : Log(n) \in Names' =>
           Log(n) \in Names /\ file'[Log(n)].data = file[Log(n)].data,
         \A n \in Nat : Log(n) \in dir'.names => Log(n) \in dir.names
  PROVE  LoggedOnly({})
<1>1. \A n \in Nat : Log(n) \in Names' => Soft(file'[Log(n)]) = Soft(file[Log(n)])
  BY DEF Soft
<1> QED
  BY <1>1 DEF LoggedOnly, Names

LEMMA EmptyLog ==
  ASSUME dir.current # 0, NEW l \in Nat, Others(Log(l)), ddir' = ddir,
         dir'.names = dir.names \union {Log(l)},
         file'[Log(l)] = [data |-> << >>, dur |-> 0]
  PROVE  LoggedOnly({})
<1>1. Soft(file'[Log(l)]) = {}
  BY DEF Soft
<1>2. \A n \in Nat : Log(n) # Log(l) /\ Log(n) \in dir'.names => Log(n) \in dir.names
  OBVIOUS
<1>3. \A n \in Nat : Log(n) # Log(l) /\ Log(n) \in dir.names \union ddir.names =>
        Soft(file'[Log(n)]) = Soft(file[Log(n)])
  BY DEF Others
<1> QED
  BY <1>1, <1>2, <1>3 DEF LoggedOnly

\* What the kernel writes back is not new.
LEMMA KernelSilent ==
  ASSUME IInv, CommitDirectory \/ WriteBack \/ UNCHANGED <<dir, ddir, file>>
  PROVE  Silent
<1>1. /\ Quiet /\ dir' = dir /\ ddir' \in {dir, ddir}
      /\ \A n \in dir.names : Kept(file[n], file'[n])
      /\ ddir' = ddir => \A n \in ddir.names : Kept(file[n], file'[n])
  BY KernelQuiet
<1>2. \A n \in Names' : n \in Names /\ Kept(file[n], file'[n])
  BY <1>1 DEF Names
<1>3. \A n \in Nat : Log(n) \in Names' =>
        Log(n) \in Names /\ file'[Log(n)].data = file[Log(n)].data
  BY <1>2 DEF Kept
<1> QED
  BY <1>1, <1>3, SameLogs DEF Silent

-----------------------------------------------------------------------------
(* The parts of the invariant under a step that leaves their files alone *)

LEMMA AliveIs ==
  ASSUME IInv, Alive
  PROVE  /\ dir.current # 0 /\ dir.current = db.manifest /\ dir.current < db.next
         /\ Log(db.log) \in dir.names /\ Manifest(db.manifest) \in dir.names
         /\ db.minlog <= db.log /\ db.log < db.next /\ db.next <= MaxNumber
         /\ db.minlog \in Nat /\ db.log \in Nat /\ db.next \in Nat
         /\ db.live \subseteq Nat /\ comp.out \in Nat /\ bg.out \in Nat
         /\ db.mem \subseteq Rec /\ db.imm \subseteq Rec /\ wr.rec \in Rec
         /\ \A t \in db.live : Table(t) \in dir.names
         /\ comp.in \subseteq db.live
         /\ comp.pc # "idle" => Table(comp.out) \in dir.names
         /\ bg.pc = "built" /\ bg.out # 0 => Table(bg.out) \in dir.names
<1>1. /\ ProcessTypeOK /\ Opened /\ Compacting /\ Flushing /\ db.st \in {"gc", "open"}
  BY DEF IInv, Alive
<1>2. /\ db.manifest \in Nat /\ db.next \in Nat /\ db.log \in Nat
  BY <1>1, BoundsAssumption DEF ProcessTypeOK
<1>3. dir.current = db.manifest /\ db.manifest > 1 /\ db.manifest < db.next
  BY <1>1 DEF Opened
<1>4. comp.in \subseteq db.live
  BY <1>1, IdleOK DEF Compacting
<1>5. /\ comp.pc # "idle" => Table(comp.out) \in dir.names
      /\ bg.pc = "built" /\ bg.out # 0 => Table(bg.out) \in dir.names
  BY <1>1 DEF Compacting, Flushing, On, Safe
<1>6. /\ Log(db.log) \in dir.names /\ Manifest(db.manifest) \in dir.names
      /\ db.minlog <= db.log /\ db.log < db.next /\ db.next <= MaxNumber
      /\ \A t \in db.live : Table(t) \in dir.names
  BY <1>1 DEF Opened, On
<1>7. /\ db.minlog \in Nat /\ db.live \subseteq Nat /\ comp.out \in Nat /\ bg.out \in Nat
      /\ db.mem \subseteq Rec /\ db.imm \subseteq Rec /\ wr.rec \in Rec
  BY <1>1 DEF ProcessTypeOK
<1>8. dir.current # 0
  BY <1>2, <1>3
<1> QED
  BY <1>2, <1>3, <1>4, <1>5, <1>6, <1>7, <1>8

\* Whatever was owed still is on disk, and what the step acknowledges was
\* pending before.
LEMMA OwingKeeps ==
  ASSUME IInv, Owing, Pended, Retained,
         \/ owed' = owed /\ synced' = synced
         \/ /\ wr.pc = "insert" /\ owed' = owed \union {wr.rec.id}
            /\ synced' = IF wr.sync THEN synced \union {wr.rec.id} ELSE synced
  PROVE  Owing'
<1>1. \A i \in owed : \E r \in Rec : r.id = i /\ Shown(file', dir', r)
  BY DEF Owing, Retained
<1>2. \A i \in synced : \E r \in Rec :
         r.id = i /\ Lasting(file', dir', r) /\ Lasting(file', ddir', r)
  BY DEF Owing, Retained
<1>3. CASE owed' = owed /\ synced' = synced
  BY <1>1, <1>2, <1>3 DEF Owing
<1>4. CASE /\ wr.pc = "insert" /\ owed' = owed \union {wr.rec.id}
           /\ synced' = IF wr.sync THEN synced \union {wr.rec.id} ELSE synced
  <2>1. wr.rec \in Rec
    BY DEF IInv, ProcessTypeOK
  <2>2. Shown(file', dir', wr.rec)
    BY <1>4 DEF Pended, Retained
  <2>3. wr.sync => Lasting(file', dir', wr.rec) /\ Lasting(file', ddir', wr.rec)
    BY <1>4 DEF Pended, Retained
  <2>4. \A i \in owed' : \E r \in Rec : r.id = i /\ Shown(file', dir', r)
    BY <1>1, <1>4, <2>1, <2>2
  <2>5. \A i \in synced' : \E r \in Rec :
          r.id = i /\ Lasting(file', dir', r) /\ Lasting(file', ddir', r)
    BY <1>2, <1>4, <2>1, <2>3
  <2> QED
    BY <2>4, <2>5 DEF Owing
<1> QED
  BY <1>3, <1>4

LEMMA PendedKeeps ==
  ASSUME Pended, Retained, wr' = wr \/ wr'.pc = "idle",
         wr.pc # "idle" => /\ db'.log = db.log
                           /\ Soft(file[Log(db.log)]) \subseteq Soft(file'[Log(db.log)])
  PROVE  Pended'
<1>1. CASE wr'.pc = "idle"
  BY <1>1 DEF Pended
<1>2. CASE wr' = wr
  <2>1. ASSUME wr.pc # "idle"
        PROVE  Shown(file', dir', wr.rec) /\ wr.rec \in Soft(file'[Log(db'.log)])
    BY <2>1 DEF Pended, Retained
  <2>2. ASSUME wr.pc = "insert", wr.sync
        PROVE  Lasting(file', dir', wr.rec) /\ Lasting(file', ddir', wr.rec)
    BY <2>2 DEF Pended, Retained
  <2> QED
    BY <1>2, <2>1, <2>2 DEF Pended
<1> QED
  BY <1>1, <1>2

\* No log gets a torn record: new ones are empty, others keep their records.
LEMMA WholeKeeps ==
  ASSUME Whole,
         \A n \in Nat : Log(n) \in Names' =>
           \/ Log(n) \in Names /\ file'[Log(n)].data = file[Log(n)].data
           \/ file'[Log(n)].data = << >>
  PROVE  Whole'
<1> SUFFICES ASSUME NEW n \in Nat, Log(n) \in Names',
                    NEW i \in 1 .. Len(file'[Log(n)].data)
             PROVE  file'[Log(n)].data[i] # Torn
  BY DEF Whole
<1>1. CASE Log(n) \in Names /\ file'[Log(n)].data = file[Log(n)].data
  BY <1>1 DEF Whole
<1>2. CASE file'[Log(n)].data = << >>
  BY <1>2
<1> QED
  BY <1>1, <1>2

LEMMA NumberedKeeps ==
  ASSUME IInv, Numbered, Alive, Alive', dir'.current = dir.current,
         Kept(Current(file, dir), Current(file', dir')),
         db.next <= db'.next, db'.next \in Nat,
         \A t \in db'.live \union db'.add : t \in db.live \union db.add,
         \A n \in Nat : Log(n) \in Names' => Log(n) \in Names,
         db'.log = db.log,
         \/ comp'.out = comp.out /\ comp.pc # "idle"
         \/ comp'.pc = "idle"
         \/ comp'.out < db'.next
  PROVE  Numbered'
<1> DEFINE es == Current(file, dir).data
<1>1. Current(file', dir').data = es
  BY DEF Kept
<1>2. /\ Below(es, Len(es), db.next)
      /\ \A t \in db.live \union db.add : t < db.next
      /\ \A n \in Nat : Log(n) \in Names => n <= db.log
      /\ comp.pc # "idle" => comp.out < db.next
  <2>1. db.st # "logs"
    BY DEF Alive
  <2> QED
    BY <2>1 DEF Numbered
<1>3. /\ db.log \in Nat /\ db.next \in Nat /\ db.log < db.next /\ comp.out \in Nat
      /\ db.live \subseteq Nat /\ db.add \subseteq Nat
      /\ \A i \in 1 .. Len(es) : es[i].next \in Nat /\ es[i].log \in Nat /\ es[i].add \subseteq Nat
  <2>1. \A i \in 1 .. Len(es) : es[i] \in Edit
    BY AliveIs, CurrentIs
  <2>2. \A x \in Edit : x.next \in Nat /\ x.log \in Nat /\ x.add \subseteq Nat
    BY DEF Edit
  <2> QED
    BY <2>1, <2>2, AliveIs DEF IInv, ProcessTypeOK
<1>4. Below(es, Len(es), db'.next)
  BY <1>2, <1>3 DEF Below
<1>5. \A t \in db'.live \union db'.add : t < db'.next
  BY <1>2, <1>3
<1>6. \A n \in Nat : Log(n) \in Names' => n <= db'.log /\ n < db'.next
  BY <1>2, <1>3
<1>7. comp'.pc # "idle" => comp'.out < db'.next
  BY <1>2, <1>3
<1>8. ~Opening'
  BY DEF Opening, Alive
<1> QED
  BY <1>1, <1>4, <1>5, <1>6, <1>7, <1>8 DEF Numbered

LEMMA LogsFollowKeeps ==
  ASSUME IInv, LogsFollow, Alive, Quiet, Kept(Current(file, dir), Current(file', dir')),
         db'.minlog = db.minlog, db'.log = db.log,
         db'.imm = db.imm, db'.hasImm = db.hasImm,
         \A n \in Nat : Log(n) \in dir'.names =>
           Log(n) \in dir.names /\ Soft(file'[Log(n)]) = Soft(file[Log(n)]),
         ~db'.err => Soft(file[Log(db.log)]) \subseteq
                       db'.mem \union (IF wr'.pc = "idle" THEN {} ELSE {wr'.rec})
  PROVE  LogsFollow'
<1>1. /\ \A k \in Nat : View(Current(file', dir'), k) =>
           /\ db'.minlog <= LogNo(Current(file', dir').data, k)
           /\ LogNo(Current(file', dir').data, k) <= db'.log
  <2>1. /\ Current(file', dir').data = Current(file, dir).data
        /\ \A k : View(Current(file', dir'), k) => View(Current(file, dir), k)
    BY KeptIs DEF Kept
  <2> QED
    BY <2>1 DEF LogsFollow
<1>2. \A n \in Nat : Log(n) \in ddir'.names /\ Log(n) \notin dir'.names => n < db'.minlog
  BY DEF LogsFollow, Quiet
<1>3. \A n \in Nat : Log(n) \in dir'.names /\ db'.minlog <= n /\ n < db'.log =>
        Soft(file'[Log(n)]) \subseteq db'.imm
  BY DEF LogsFollow
<1>4. Soft(file'[Log(db'.log)]) = Soft(file[Log(db.log)])
  <2>1. Log(db.log) \in dir'.names /\ db.log \in Nat
    BY AliveIs DEF Quiet
  <2> QED
    BY <2>1
<1>5. ~db'.hasImm => db'.imm = {}
  BY DEF LogsFollow
<1> QED
  BY <1>1, <1>2, <1>3, <1>4, <1>5 DEF LogsFollow

\* The tables that the process uses keep their contents.
LEMMA TablesFollowKeeps ==
  ASSUME IInv, Numbered, TablesFollow, CompactionFollows, FlushFollows, Alive,
         \A t \in Nat : Table(t) \in dir.names /\ t < db.next =>
           Kept(file[Table(t)], file'[Table(t)]),
         db.next <= db'.next, db'.next \in Nat
  PROVE  /\ (\A t \in db'.live : t \in db.live) => TablesFollow'
         /\ comp' = comp \/ comp'.pc = "idle" => CompactionFollows'
         /\ bg'.pc # "built" \/ (bg' = bg /\ db'.imm = db.imm /\ db'.hasImm = db.hasImm)
              => FlushFollows'
<1>2. /\ \A t \in db.live : t < db.next
      /\ comp.pc # "idle" => comp.out < db.next
  BY DEF Numbered
<1>3. /\ db.live \subseteq Nat /\ comp.out \in Nat /\ bg.out \in Nat /\ db.next \in Nat
      /\ \A t \in db.live : Table(t) \in dir.names
      /\ comp.in \subseteq db.live
      /\ comp.pc # "idle" => Table(comp.out) \in dir.names
      /\ bg.pc = "built" /\ bg.out # 0 => Table(bg.out) \in dir.names
  BY AliveIs
<1>4. \A t \in db.live : /\ Done(file'[Table(t)])
                         /\ Recs(file'[Table(t)]) = Recs(file[Table(t)])
  BY <1>2, <1>3, KeptIs DEF TablesFollow
<1>5. ASSUME comp.pc # "idle"
      PROVE  Kept(file[Table(comp.out)], file'[Table(comp.out)])
  BY <1>2, <1>3, <1>5
<1>6. comp.pc = "open" => file'[Table(comp.out)].data = << >>
  BY <1>5 DEF Kept, CompactionFollows
<1>7. ASSUME comp.pc = "done"
      PROVE  /\ Done(file'[Table(comp.out)])
             /\ \A t \in comp.in : Recs(file'[Table(t)]) \subseteq Recs(file'[Table(comp.out)])
  <2>1. Kept(file[Table(comp.out)], file'[Table(comp.out)])
    BY <1>5, <1>7
  <2> QED
    BY <2>1, <1>3, <1>4, <1>7, KeptIs DEF CompactionFollows
<1>8. ASSUME bg.pc = "built"
      PROVE  /\ db.hasImm /\ bg.out < db'.next
             /\ bg.out = 0 => db.imm = {}
             /\ bg.out # 0 =>
                  Done(file'[Table(bg.out)]) /\ db.imm \subseteq Recs(file'[Table(bg.out)])
  <2>1. bg.out < db.next /\ db.hasImm /\ (bg.out = 0 => db.imm = {})
    BY <1>8 DEF FlushFollows
  <2>2. ASSUME bg.out # 0
        PROVE  Done(file'[Table(bg.out)]) /\ db.imm \subseteq Recs(file'[Table(bg.out)])
    <3>1. Kept(file[Table(bg.out)], file'[Table(bg.out)])
      BY <1>3, <1>8, <2>1, <2>2
    <3> QED
      BY <3>1, <1>8, <2>2, KeptIs DEF FlushFollows
  <2>3. bg.out < db'.next
    BY <2>1, <1>3
  <2> QED
    BY <2>1, <2>2, <2>3
<1>9. ASSUME bg' = bg, db'.imm = db.imm, db'.hasImm = db.hasImm
      PROVE  FlushFollows'
  BY <1>8, <1>9 DEF FlushFollows
<1>10. ASSUME comp' = comp
       PROVE  CompactionFollows'
  BY <1>6, <1>7, <1>10 DEF CompactionFollows
<1>11. comp'.pc = "idle" => CompactionFollows'
  BY DEF CompactionFollows
<1>12. (\A t \in db'.live : t \in db.live) => TablesFollow'
  BY <1>4 DEF TablesFollow
<1>13. bg'.pc # "built" => FlushFollows'
  BY DEF FlushFollows
<1> QED
  BY <1>9, <1>10, <1>11, <1>12, <1>13

LEMMA EditFollowsKeeps ==
  ASSUME IInv, EditFollows, Alive, Kept(Current(file, dir), Current(file', dir')),
         bg' = bg \/ bg'.pc \notin {"logged", "synced"},
         bg.pc \in {"logged", "synced"} =>
           /\ db'.log = db.log \/ (bg.edit.del # {} /\ db.log <= db'.log)
           /\ db'.hasImm = db.hasImm \/ db'.hasImm = TRUE
           /\ db'.minlog = db.minlog
  PROVE  EditFollows'
<1>1. CASE bg'.pc \notin {"logged", "synced"}
  BY <1>1 DEF EditFollows
<1>2. CASE bg' = bg /\ bg.pc \in {"logged", "synced"}
  <2>1. Current(file', dir').data = Current(file, dir).data
    BY DEF Kept
  <2>2. bg.pc = "synced" => Current(file', dir').dur = Len(Current(file, dir).data)
    BY <1>2 DEF Kept, EditFollows
  <2>3. /\ Current(file, dir).data[Len(Current(file, dir).data)] = bg.edit
        /\ bg.edit.full /\ bg.edit.next # 0
        /\ bg.edit.del = {} => db.hasImm /\ bg.edit.log = db.log
        /\ bg.edit.del # {} => bg.edit.log = db.minlog
    BY <1>2 DEF EditFollows
  <2> QED
    BY <1>2, <2>1, <2>2, <2>3 DEF EditFollows
<1> QED
  BY <1>1, <1>2

-----------------------------------------------------------------------------
(* The steps of the running process that leave the logs alone *)

LEMMA AliveQuietKeeps ==
  ASSUME IInv, DInv, Alive, Alive', Quiet,
         \A n \in Nat : Log(n) \in Names' =>
           Log(n) \in Names /\ file'[Log(n)].data = file[Log(n)].data,
         \A n \in Nat : Log(n) \in dir'.names => Log(n) \in dir.names,
         db'.minlog = db.minlog, db'.log = db.log,
         db'.imm = db.imm, db'.hasImm = db.hasImm,
         db.next <= db'.next, db'.next \in Nat, db'.live = db.live, db'.add = db.add,
         \/ comp'.out = comp.out /\ comp.pc # "idle"
         \/ comp'.pc = "idle"
         \/ comp'.out < db'.next,
         \/ owed' = owed /\ synced' = synced
         \/ /\ wr.pc = "insert" /\ owed' = owed \union {wr.rec.id}
            /\ synced' = IF wr.sync THEN synced \union {wr.rec.id} ELSE synced,
         ~db'.err => Soft(file[Log(db.log)]) \subseteq
                       db'.mem \union (IF wr'.pc = "idle" THEN {} ELSE {wr'.rec})
  PROVE  /\ Whole' /\ DirsGood' /\ OldNumbers' /\ OldLogs' /\ Owing' /\ Retained
         /\ Numbered' /\ Reading' /\ Writing' /\ LogsFollow'
         /\ Kept(Current(file, dir), Current(file', dir'))
<1>1. /\ Whole /\ DirsGood /\ OldNumbers /\ OldLogs /\ Owing /\ Pended
      /\ Numbered /\ LogsFollow
  BY DEF DInv
<1>2. /\ DirsGood' /\ OldNumbers' /\ OldLogs' /\ Retained
      /\ Kept(Current(file, dir), Current(file', dir'))
  BY <1>1, QuietKeeps, AliveIs
<1>3. Owing'
  BY <1>1, <1>2, OwingKeeps
<1>4. Whole'
  BY <1>1, WholeKeeps
<1>5. dir'.current = dir.current
  BY DEF Quiet
<1>6. Numbered'
  <2>1. \A n \in Nat : Log(n) \in Names' => Log(n) \in Names
    OBVIOUS
  <2> QED
    BY <1>1, <1>2, <1>5, <2>1, NumberedKeeps
<1>7. LogsFollow'
  <2>1. \A n \in Nat : Log(n) \in dir'.names =>
           Log(n) \in dir.names /\ Soft(file'[Log(n)]) = Soft(file[Log(n)])
    BY DEF Soft, Names
  <2> QED
    BY <1>1, <1>2, <2>1, LogsFollowKeeps
<1>8. Reading' /\ Writing'
  BY DEF Reading, Writing, Opening, Alive
<1> QED
  BY <1>2, <1>3, <1>4, <1>6, <1>7, <1>8

\* The steps that change no file, or write one back, and no edit or table.
LEMMA AliveSameKeeps ==
  ASSUME IInv, DInv, Alive, Alive',
         CommitDirectory \/ WriteBack \/ UNCHANGED <<dir, ddir, file>>,
         db'.minlog = db.minlog, db'.log = db.log,
         db'.imm = db.imm, db'.hasImm = db.hasImm,
         db'.next = db.next, db'.live = db.live, db'.add = db.add,
         comp' = comp \/ comp'.pc = "idle",
         bg' = bg \/ bg'.pc \in {"idle", "gc"},
         wr' = wr \/ wr'.pc = "idle",
         \/ owed' = owed /\ synced' = synced
         \/ /\ wr.pc = "insert" /\ owed' = owed \union {wr.rec.id}
            /\ synced' = IF wr.sync THEN synced \union {wr.rec.id} ELSE synced,
         ~db'.err => /\ ~db.err
                     /\ db.mem \union (IF wr.pc = "idle" THEN {} ELSE {wr.rec})
                          \subseteq db'.mem \union (IF wr'.pc = "idle" THEN {} ELSE {wr'.rec})
  PROVE  DInv'
<1>1. /\ Quiet /\ dir' = dir /\ ddir' \in {dir, ddir}
      /\ \A n \in dir.names : Kept(file[n], file'[n])
      /\ ddir' = ddir => \A n \in ddir.names : Kept(file[n], file'[n])
  BY KernelQuiet
<1>2. \A n \in Names' : n \in Names /\ Kept(file[n], file'[n])
  BY <1>1 DEF Names
<1>3. /\ \A n \in Nat : Log(n) \in Names' =>
           Log(n) \in Names /\ file'[Log(n)].data = file[Log(n)].data
      /\ \A n \in Nat : Log(n) \in dir'.names => Log(n) \in dir.names
  BY <1>1, <1>2 DEF Kept
<1>4. db.next \in Nat /\ db.next <= db'.next
  BY AliveIs
<1>5. \/ comp'.out = comp.out /\ comp.pc # "idle"
      \/ comp'.pc = "idle"
      \/ comp'.out < db'.next
  OBVIOUS
<1>6. ~db'.err => Soft(file[Log(db.log)]) \subseteq
                    db'.mem \union (IF wr'.pc = "idle" THEN {} ELSE {wr'.rec})
  <2> SUFFICES ASSUME ~db'.err
               PROVE  Soft(file[Log(db.log)]) \subseteq
                        db'.mem \union (IF wr'.pc = "idle" THEN {} ELSE {wr'.rec})
    OBVIOUS
  <2>1. Soft(file[Log(db.log)]) \subseteq
          db.mem \union (IF wr.pc = "idle" THEN {} ELSE {wr.rec})
    BY DEF DInv, LogsFollow
  <2> QED
    BY <2>1
<1>7. /\ Whole' /\ DirsGood' /\ OldNumbers' /\ OldLogs' /\ Owing' /\ Retained
      /\ Numbered' /\ Reading' /\ Writing' /\ LogsFollow'
      /\ Kept(Current(file, dir), Current(file', dir'))
  BY <1>1, <1>3, <1>4, <1>5, <1>6, AliveQuietKeeps
<1>8. Pended'
  <2>1. Soft(file[Log(db.log)]) \subseteq Soft(file'[Log(db.log)])
    BY <1>1, AliveIs, KeptIs
  <2> QED
    BY <1>7, <2>1, PendedKeeps DEF DInv
<1>9. TablesFollow' /\ CompactionFollows' /\ FlushFollows'
  <2>1. bg'.pc # "built" \/ (bg' = bg /\ db'.imm = db.imm /\ db'.hasImm = db.hasImm)
    OBVIOUS
  <2> QED
    BY <1>1, <1>4, <2>1, TablesFollowKeeps DEF DInv
<1>10. EditFollows'
  <2>1. bg' = bg \/ bg'.pc \notin {"logged", "synced"}
    OBVIOUS
  <2>2. EditFollows
    BY DEF DInv
  <2> QED
    BY <1>7, <2>1, <2>2, EditFollowsKeeps
<1> QED
  BY <1>7, <1>8, <1>9, <1>10 DEF DInv

LEMMA NewIteratorLoses ==
  ASSUME IInv, DInv, NewIterator \/ CleanupIteratorState
  PROVE  DInv'
<1>1. /\ db.st = "open" /\ UNCHANGED <<dir, ddir, file, bg, comp, wr, owed, synced>>
      /\ \/ db' = [db EXCEPT !.pins = db.live]
         \/ db' = [db EXCEPT !.pins = {}]
  BY DEF NewIterator, CleanupIteratorState, Running
<1>2. /\ db'.st = db.st /\ db'.minlog = db.minlog /\ db'.log = db.log
      /\ db'.imm = db.imm /\ db'.hasImm = db.hasImm /\ db'.next = db.next
      /\ db'.live = db.live /\ db'.add = db.add /\ db'.mem = db.mem /\ db'.err = db.err
  BY <1>1 DEF IInv, ProcessTypeOK
<1> QED
  BY <1>1, <1>2, AliveSameKeeps DEF Alive

LEMMA CollectingEndsLoses ==
  ASSUME IInv, DInv, CollectingEnds
  PROVE  DInv'
<1>0. ProcessTypeOK /\ Resting
  BY DEF IInv
<1>1. /\ UNCHANGED <<dir, ddir, file, comp, wr, owed, synced>>
      /\ db' = [db EXCEPT !.st = "open"] /\ bg' = IdleBg
  BY DEF CollectingEnds
<1>2. Alive /\ Alive'
  <2>1. CASE db.st = "gc"
    BY <2>1, <1>0, <1>1 DEF Alive, ProcessTypeOK
  <2>2. CASE bg.pc = "gc"
    BY <2>2, <1>0, <1>1, IdleOK DEF Alive, ProcessTypeOK, Resting
  <2> QED
    BY <2>1, <2>2 DEF CollectingEnds, Collecting
<1>3. /\ db'.minlog = db.minlog /\ db'.log = db.log
      /\ db'.imm = db.imm /\ db'.hasImm = db.hasImm /\ db'.next = db.next
      /\ db'.live = db.live /\ db'.add = db.add /\ db'.mem = db.mem /\ db'.err = db.err
  BY <1>0, <1>1 DEF ProcessTypeOK
<1>4. bg'.pc = "idle"
  BY <1>1, IdleOK
<1> QED
  BY <1>1, <1>2, <1>3, <1>4, AliveSameKeeps

LEMMA SyncLogFailsLoses ==
  ASSUME IInv, DInv, SyncLogFails
  PROVE  DInv'
<1>0. ProcessTypeOK /\ db.st = "open"
  BY DEF IInv, SyncLogFails, Running
<1>1. /\ UNCHANGED <<dir, ddir, file, bg, comp, owed, synced>> /\ wr'.pc = "idle"
      /\ db' = [db EXCEPT !.err = TRUE, !.seq = @ + 1]
  BY IdleOK DEF SyncLogFails
<1>2. /\ db'.st = db.st /\ db'.minlog = db.minlog /\ db'.log = db.log
      /\ db'.imm = db.imm /\ db'.hasImm = db.hasImm /\ db'.next = db.next
      /\ db'.live = db.live /\ db'.add = db.add /\ db'.err = TRUE
  BY <1>0, <1>1 DEF ProcessTypeOK
<1> QED
  BY <1>0, <1>1, <1>2, AliveSameKeeps DEF Alive

LEMMA InsertAndAcknowledgeLoses ==
  ASSUME IInv, DInv, InsertAndAcknowledge
  PROVE  DInv'
<1>0. ProcessTypeOK /\ db.st = "open" /\ wr.pc = "insert"
  BY DEF IInv, InsertAndAcknowledge, Running
<1>1. /\ UNCHANGED <<dir, ddir, file, bg, comp>> /\ wr'.pc = "idle"
      /\ db' = [db EXCEPT !.mem = @ \union {wr.rec}, !.seq = wr.rec.seq]
      /\ owed' = owed \union {wr.rec.id}
      /\ synced' = IF wr.sync THEN synced \union {wr.rec.id} ELSE synced
  BY IdleOK DEF InsertAndAcknowledge
<1>2. /\ db'.st = db.st /\ db'.minlog = db.minlog /\ db'.log = db.log
      /\ db'.imm = db.imm /\ db'.hasImm = db.hasImm /\ db'.next = db.next
      /\ db'.live = db.live /\ db'.add = db.add /\ db'.err = db.err
      /\ db'.mem = db.mem \union {wr.rec}
  BY <1>0, <1>1 DEF ProcessTypeOK
<1> QED
  BY <1>0, <1>1, <1>2, AliveSameKeeps DEF Alive

\* The log is synced: the pending write is in every directory from now on.
LEMMA SyncLogLoses ==
  ASSUME IInv, DInv, SyncLog
  PROVE  DInv' /\ Silent
<1> DEFINE name == Log(db.log)
<1>0. /\ ProcessTypeOK /\ db.st = "open" /\ wr.pc = "sync" /\ Alive
      /\ UNCHANGED <<db, bg, comp, owed, synced>> /\ wr' = [wr EXCEPT !.pc = "insert"]
  BY DEF IInv, SyncLog, Alive
<1>1. wr'.pc = "insert" /\ wr'.sync = wr.sync /\ wr'.rec = wr.rec
  BY <1>0 DEF ProcessTypeOK
<1>2. /\ name \in dir.names /\ db.log \in Nat /\ dir.current # 0 /\ db.next \in Nat
  BY <1>0, AliveIs
<1>3. /\ Quiet /\ Others(name) /\ dir' = dir /\ ddir' = dir
      /\ Kept(file[name], file'[name]) /\ file'[name].dur = Len(file[name].data)
  BY <1>2, SyncQuiet DEF SyncLog
<1>4. \A n \in dir.names : Kept(file[n], file'[n])
  BY <1>3, SameStays DEF Others, Names
<1>5. /\ \A n \in Nat : Log(n) \in Names' =>
           Log(n) \in Names /\ file'[Log(n)].data = file[Log(n)].data
      /\ \A n \in Nat : Log(n) \in dir'.names => Log(n) \in dir.names
  BY <1>3, <1>4 DEF Kept, Names
<1>6. ~db'.err => Soft(file[Log(db.log)]) \subseteq
                    db'.mem \union (IF wr'.pc = "idle" THEN {} ELSE {wr'.rec})
  BY <1>0, <1>1 DEF DInv, LogsFollow
<1>7. /\ Whole' /\ DirsGood' /\ OldNumbers' /\ OldLogs' /\ Owing' /\ Retained
      /\ Numbered' /\ Reading' /\ Writing' /\ LogsFollow'
      /\ Kept(Current(file, dir), Current(file', dir'))
  <2>1. Alive'
    BY <1>0 DEF Alive
  <2>2. \/ comp'.out = comp.out /\ comp.pc # "idle"
        \/ comp'.pc = "idle"
    BY <1>0
  <2>3. db.next <= db'.next /\ db'.next \in Nat
    BY <1>0, <1>2
  <2> QED
    BY <1>0, <1>3, <1>5, <1>6, <2>1, <2>2, <2>3, AliveQuietKeeps
<1>8. Pended'
  <2>1. wr.rec \in Soft(file[name]) /\ Shown(file, dir, wr.rec)
    BY <1>0 DEF DInv, Pended
  <2>2. wr.rec \in Soft(file'[name]) /\ wr.rec \in Hard(file'[name])
    BY <2>1, <1>3 DEF Soft, Hard, Kept
  <2>3. Lasting(file', dir', wr.rec)
    <3> SUFFICES ASSUME NEW k \in Nat, View(Current(file', dir'), k)
                 PROVE  Keeps(file', dir', LiveAt(Current(file', dir').data, k),
                              LogNo(Current(file', dir').data, k), wr.rec)
      BY DEF Lasting
    <3>1. LogNo(Current(file', dir').data, k) <= db.log
      BY <1>0, <1>7 DEF LogsFollow, Alive
    <3> QED
      BY <3>1, <2>2, <1>2, <1>3 DEF Keeps
  <2> QED
    BY <1>0, <1>1, <1>3, <1>7, <2>1, <2>2, <2>3 DEF Pended, Retained
<1>9. TablesFollow' /\ CompactionFollows' /\ FlushFollows'
  BY <1>0, <1>2, <1>4, TablesFollowKeeps DEF DInv
<1>10. EditFollows'
  <2>1. EditFollows /\ (bg' = bg \/ bg'.pc \notin {"logged", "synced"})
    BY <1>0 DEF DInv
  <2> QED
    BY <1>0, <1>7, <2>1, EditFollowsKeeps
<1>11. Silent
  BY <1>3, <1>5, SameLogs DEF Silent
<1> QED
  BY <1>11, <1>7, <1>8, <1>9, <1>10 DEF DInv

-----------------------------------------------------------------------------
(* Flushes and compactions *)

\* A step that changes one table, and no other file.
LEMMA OneTable ==
  ASSUME IInv, NEW t \in Nat, Others(Table(t)),
         dir'.names = dir.names \union {Table(t)} \/ dir' = dir,
         ddir' = ddir \/ ddir' = dir \/ ddir' = dir'
  PROVE  /\ \A n \in Nat : Log(n) \in Names' =>
              Log(n) \in Names /\ file'[Log(n)].data = file[Log(n)].data
         /\ \A n \in Nat : Log(n) \in dir'.names => Log(n) \in dir.names
         /\ \A u \in Nat : Table(u) \in dir.names /\ u # t =>
              Kept(file[Table(u)], file'[Table(u)])
<1>1. \A n : Log(n) # Table(t)
  BY DEF Log, Table
<1>2. \A u \in Nat : u # t => Table(u) # Table(t)
  BY DEF Table
<1>3. \A n \in Nat : Log(n) \in dir'.names => Log(n) \in dir.names
  BY <1>1
<1>4. ASSUME NEW n \in Nat, Log(n) \in Names'
      PROVE  Log(n) \in Names /\ file'[Log(n)].data = file[Log(n)].data
  <2>1. Log(n) \in dir.names \/ (ddir' = ddir /\ Log(n) \in ddir.names)
    BY <1>3, <1>4 DEF Names
  <2> QED
    BY <2>1, <1>1 DEF Others, Names
<1>5. ASSUME NEW u \in Nat, Table(u) \in dir.names, u # t
      PROVE  Kept(file[Table(u)], file'[Table(u)])
  BY <1>2, <1>5, SameStays DEF Others, Names
<1> QED
  BY <1>3, <1>4, <1>5

LEMMA BuildTableLoses ==
  ASSUME IInv, DInv, BuildTable
  PROVE  DInv' /\ Silent /\ (db.imm # {} => Recs(file'[Table(db.next)]) = db.imm)
<1>0. /\ ProcessTypeOK /\ db.st = "open" /\ Alive /\ bg.pc = "idle" /\ db.hasImm
      /\ UNCHANGED <<comp, wr, writes, owed, synced>> /\ db' = [db EXCEPT !.next = @ + 1]
      /\ bg' = [bg EXCEPT !.pc = "built", !.out = IF db.imm = {} THEN 0 ELSE db.next]
  BY DEF IInv, BuildTable, Running, Alive
<1>1. /\ db.next \in Nat /\ db.next # 0 /\ db.next < MaxNumber /\ db.next <= MaxNumber
      /\ MaxNumber \in Nat /\ db.imm \in SUBSET Rec
  BY <1>0, BoundsAssumption DEF ProcessTypeOK, BuildTable
<1>2. /\ db'.st = db.st /\ db'.minlog = db.minlog /\ db'.log = db.log
      /\ db'.imm = db.imm /\ db'.hasImm = db.hasImm /\ db'.next = db.next + 1
      /\ db'.live = db.live /\ db'.add = db.add /\ db'.mem = db.mem /\ db'.err = db.err
      /\ bg'.pc = "built" /\ bg'.out = IF db.imm = {} THEN 0 ELSE db.next
  BY <1>0 DEF ProcessTypeOK
<1>3. db.next <= db'.next /\ db'.next \in Nat /\ Alive' /\ db.next < db'.next
  BY <1>0, <1>1, <1>2 DEF Alive
<1> DEFINE t == db.next
<1>4. /\ Quiet
      /\ \A n \in Nat : Log(n) \in Names' =>
           Log(n) \in Names /\ file'[Log(n)].data = file[Log(n)].data
      /\ \A n \in Nat : Log(n) \in dir'.names => Log(n) \in dir.names
      /\ \A u \in Nat : Table(u) \in dir.names /\ u # t =>
           Kept(file[Table(u)], file'[Table(u)])
      /\ db.imm # {} => file'[Table(t)].data = <<db.imm>> /\ file'[Table(t)].dur = 1
  <2>1. CASE db.imm = {}
    <3>1. UNCHANGED <<dir, ddir, file>>
      BY <2>1 DEF BuildTable
    <3>2. /\ Quiet /\ \A n \in dir.names : Kept(file[n], file'[n])
      BY <3>1, KernelQuiet
    <3> QED
      BY <2>1, <3>1, <3>2 DEF Names
  <2>2. CASE db.imm # {}
    <3>1. SetDisk(Sync(Create(Disk, Table(t), <<db.imm>>), Table(t)))
      BY <2>2 DEF BuildTable
    <3>2. <<db.imm>> \in Seq(SUBSET Rec) /\ t >= 1 /\ Len(<<db.imm>>) = 1
      BY <1>1
    <3>3. Table(t) \in Name /\ FileOK(Table(t), [data |-> <<db.imm>>, dur |-> 0], writes)
      BY <1>1, <3>2, NewTableOK
    <3>4. NewName(Table(t))
      <4>1. ~(t < t)
        BY <1>1
      <4> QED
        BY <1>0, <4>1, NameIs DEF NewName
    <3>5. /\ Quiet /\ Others(Table(t)) /\ ddir' = dir'
          /\ dir'.names = dir.names \union {Table(t)} /\ dir'.current = dir.current
          /\ file'[Table(t)].data = <<db.imm>> /\ file'[Table(t)].dur = Len(<<db.imm>>)
      BY <3>1, <3>3, <3>4, CreateSyncQuiet
    <3> QED
      BY <1>1, <3>2, <3>5, OneTable
  <2> QED
    BY <2>1, <2>2
<1>5. ~db'.err => Soft(file[Log(db.log)]) \subseteq
                    db'.mem \union (IF wr'.pc = "idle" THEN {} ELSE {wr'.rec})
  BY <1>0, <1>2 DEF DInv, LogsFollow
<1>6. /\ Whole' /\ DirsGood' /\ OldNumbers' /\ OldLogs' /\ Owing' /\ Retained
      /\ Numbered' /\ Reading' /\ Writing' /\ LogsFollow'
      /\ Kept(Current(file, dir), Current(file', dir'))
  <2>1. \/ comp'.out = comp.out /\ comp.pc # "idle"
        \/ comp'.pc = "idle"
    BY <1>0
  <2> QED
    BY <1>0, <1>2, <1>3, <1>4, <1>5, <2>1, AliveQuietKeeps
<1>7. Pended'
  <2>1. Soft(file[Log(db.log)]) \subseteq Soft(file'[Log(db.log)])
    BY <1>0, <1>4, AliveIs DEF Soft, Quiet, Names
  <2> QED
    BY <1>0, <1>2, <1>6, <2>1, PendedKeeps DEF DInv
<1>8. TablesFollow' /\ CompactionFollows'
  <2>1. \A u \in Nat : Table(u) \in dir.names /\ u < db.next =>
          Kept(file[Table(u)], file'[Table(u)])
    BY <1>1, <1>4
  <2> QED
    BY <1>0, <1>2, <1>3, <2>1, TablesFollowKeeps DEF DInv
<1>9. FlushFollows'
  <2>1. db'.hasImm /\ bg'.out < db'.next
    BY <1>0, <1>1, <1>2
  <2>2. bg'.out = 0 => db'.imm = {}
    BY <1>1, <1>2
  <2>3. ASSUME bg'.out # 0
        PROVE  Done(file'[Table(bg'.out)]) /\ db'.imm \subseteq Recs(file'[Table(bg'.out)])
    <3>1. bg'.out = t /\ db.imm # {}
      BY <1>2, <2>3
    <3>2. file'[Table(t)].data = <<db.imm>> /\ file'[Table(t)].dur = 1
      BY <3>1, <1>4
    <3>3. Len(<<db.imm>>) = 1 /\ <<db.imm>>[1] = db.imm
      OBVIOUS
    <3>4. Done(file'[Table(t)]) /\ Recs(file'[Table(t)]) = db.imm
      BY <3>2, <3>3 DEF Done, Recs
    <3> QED
      BY <1>2, <3>1, <3>4
  <2> QED
    BY <2>1, <2>2, <2>3 DEF FlushFollows
<1>10. EditFollows'
  <2>1. EditFollows /\ bg'.pc \notin {"logged", "synced"} /\ bg.pc \notin {"logged", "synced"}
    BY <1>0, <1>2 DEF DInv
  <2> QED
    BY <1>0, <1>6, <2>1, EditFollowsKeeps
<1>11. Silent
  BY <1>4, SameLogs DEF Silent
<1>12. db.imm # {} => Recs(file'[Table(t)]) = db.imm
  <2>1. Len(<<db.imm>>) = 1 /\ <<db.imm>>[1] = db.imm
    OBVIOUS
  <2> QED
    BY <1>4, <2>1 DEF Recs
<1> QED
  BY <1>11, <1>12, <1>6, <1>7, <1>8, <1>9, <1>10 DEF DInv

LEMMA OpenCompactionOutputFileLoses ==
  ASSUME IInv, DInv, OpenCompactionOutputFile
  PROVE  DInv' /\ Silent
<1>0. /\ ProcessTypeOK /\ db.st = "open" /\ Alive /\ bg.pc = "idle"
      /\ UNCHANGED <<bg, wr, owed, synced>> /\ db' = [db EXCEPT !.next = @ + 1]
      /\ comp' = [pc |-> "open", in |-> db.live, out |-> db.next]
  BY DEF IInv, OpenCompactionOutputFile, Running, Alive
<1>1. db.next \in Nat /\ ~(db.next < db.next)
  BY <1>0 DEF ProcessTypeOK
<1>2. /\ db'.st = db.st /\ db'.minlog = db.minlog /\ db'.log = db.log
      /\ db'.imm = db.imm /\ db'.hasImm = db.hasImm /\ db'.next = db.next + 1
      /\ db'.live = db.live /\ db'.add = db.add /\ db'.mem = db.mem /\ db'.err = db.err
      /\ comp'.pc = "open" /\ comp'.out = db.next
  BY <1>0 DEF ProcessTypeOK
<1>3. db.next <= db'.next /\ db'.next \in Nat /\ Alive' /\ db.next < db'.next
  BY <1>0, <1>1, <1>2 DEF Alive
<1> DEFINE t == db.next
<1>4. /\ Quiet /\ Others(Table(t)) /\ ddir' = ddir
      /\ dir'.names = dir.names \union {Table(t)} /\ dir'.current = dir.current
      /\ file'[Table(t)] = [data |-> << >>, dur |-> 0]
  <2>1. NewName(Table(t))
    BY <1>0, <1>1, NameIs DEF NewName
  <2> QED
    BY <2>1, CreateQuiet DEF OpenCompactionOutputFile
<1>5. /\ \A n \in Nat : Log(n) \in Names' =>
           Log(n) \in Names /\ file'[Log(n)].data = file[Log(n)].data
      /\ \A n \in Nat : Log(n) \in dir'.names => Log(n) \in dir.names
      /\ \A u \in Nat : Table(u) \in dir.names /\ u # t =>
           Kept(file[Table(u)], file'[Table(u)])
  BY <1>1, <1>4, OneTable
<1>6. ~db'.err => Soft(file[Log(db.log)]) \subseteq
                    db'.mem \union (IF wr'.pc = "idle" THEN {} ELSE {wr'.rec})
  BY <1>0, <1>2 DEF DInv, LogsFollow
<1>7. /\ Whole' /\ DirsGood' /\ OldNumbers' /\ OldLogs' /\ Owing' /\ Retained
      /\ Numbered' /\ Reading' /\ Writing' /\ LogsFollow'
      /\ Kept(Current(file, dir), Current(file', dir'))
  <2>1. comp'.out < db'.next
    BY <1>2, <1>3
  <2> QED
    BY <1>0, <1>2, <1>3, <1>4, <1>5, <1>6, <2>1, AliveQuietKeeps
<1>8. Pended'
  <2>1. Soft(file[Log(db.log)]) \subseteq Soft(file'[Log(db.log)])
    BY <1>0, <1>4, <1>5, AliveIs DEF Soft, Quiet, Names
  <2> QED
    BY <1>0, <1>2, <1>7, <2>1, PendedKeeps DEF DInv
<1>9. TablesFollow' /\ FlushFollows'
  <2>1. \A u \in Nat : Table(u) \in dir.names /\ u < db.next =>
          Kept(file[Table(u)], file'[Table(u)])
    BY <1>1, <1>5
  <2> QED
    BY <1>0, <1>2, <1>3, <2>1, TablesFollowKeeps DEF DInv
<1>10. CompactionFollows'
  BY <1>2, <1>4 DEF CompactionFollows
<1>11. EditFollows'
  <2>1. EditFollows /\ bg' = bg /\ bg.pc \notin {"logged", "synced"}
    BY <1>0 DEF DInv
  <2> QED
    BY <1>0, <1>7, <2>1, EditFollowsKeeps
<1>12. Silent
  BY <1>4, <1>5, SameLogs DEF Silent
<1> QED
  BY <1>12, <1>7, <1>8, <1>9, <1>10, <1>11 DEF DInv

LEMMA FinishCompactionOutputFileLoses ==
  ASSUME IInv, DInv, FinishCompactionOutputFile
  PROVE  /\ DInv' /\ Silent
         /\ \A r \in Recs(file'[Table(comp.out)]) : InTables(file, comp.in, r)
<1> DEFINE t == comp.out
<1> DEFINE recs == UNION {TableData(u) : u \in comp.in}
<1>0. /\ ProcessTypeOK /\ db.st = "open" /\ Alive /\ bg.pc = "idle" /\ comp.pc = "open"
      /\ UNCHANGED <<db, bg, wr, writes, owed, synced>> /\ comp' = [comp EXCEPT !.pc = "done"]
  BY DEF IInv, FinishCompactionOutputFile, Running, Alive
<1>1. /\ t \in Nat /\ Table(t) \in dir.names /\ comp.in \subseteq db.live
      /\ db.live \subseteq Nat /\ db.next \in Nat
      /\ \A u \in db.live : Table(u) \in dir.names
  BY <1>0, AliveIs
<1>2. comp'.pc = "done" /\ comp'.in = comp.in /\ comp'.out = t
  BY <1>0 DEF ProcessTypeOK
<1>3. file[Table(t)].data = << >> /\ t < db.next
  BY <1>0 DEF DInv, CompactionFollows, Numbered
<1>4. \A u \in db.live : /\ TableData(u) = Recs(file[Table(u)]) /\ u # t
                         /\ Recs(file[Table(u)]) \in SUBSET Rec
  <2> SUFFICES ASSUME NEW u \in db.live
               PROVE  /\ TableData(u) = Recs(file[Table(u)]) /\ u # t
                      /\ Recs(file[Table(u)]) \in SUBSET Rec
    OBVIOUS
  <2>1. Done(file[Table(u)])
    BY <1>0 DEF DInv, TablesFollow
  <2>2. file[Table(u)].data \in Seq(SUBSET Rec)
    BY <1>1, FilesAre, NameIs DEF IInv, FileOK
  <2>3. DOMAIN file[Table(u)].data = 1 .. Len(file[Table(u)].data)
    BY <2>2
  <2>4. \A i \in 1 .. Len(file[Table(u)].data) : file[Table(u)].data[i] \in SUBSET Rec
    BY <2>2
  <2>5. u # t
    BY <1>3, <2>1 DEF Done
  <2> QED
    BY <2>3, <2>4, <2>5 DEF TableData, Recs
<1>5. recs \in SUBSET Rec
  BY <1>1, <1>4
<1>6. /\ Quiet /\ Others(Table(t)) /\ dir' = dir /\ ddir' = dir
      /\ file'[Table(t)].data = <<recs>> /\ file'[Table(t)].dur = 1
  <2>1. SetDisk(Sync(AddRecord(Disk, Table(t), recs), Table(t)))
    BY DEF FinishCompactionOutputFile
  <2> HIDE DEF recs
  <2> QED
    BY <2>1, <1>1, <1>3, <1>5, AppendSyncQuiet
<1>7. /\ \A n \in Nat : Log(n) \in Names' =>
           Log(n) \in Names /\ file'[Log(n)].data = file[Log(n)].data
      /\ \A n \in Nat : Log(n) \in dir'.names => Log(n) \in dir.names
      /\ \A u \in Nat : Table(u) \in dir.names /\ u # t =>
           Kept(file[Table(u)], file'[Table(u)])
  BY <1>1, <1>6, OneTable
<1>8. ~db'.err => Soft(file[Log(db.log)]) \subseteq
                    db'.mem \union (IF wr'.pc = "idle" THEN {} ELSE {wr'.rec})
  BY <1>0 DEF DInv, LogsFollow
<1>9. /\ Whole' /\ DirsGood' /\ OldNumbers' /\ OldLogs' /\ Owing' /\ Retained
      /\ Numbered' /\ Reading' /\ Writing' /\ LogsFollow'
      /\ Kept(Current(file, dir), Current(file', dir'))
  <2>1. comp'.out = comp.out /\ comp.pc # "idle"
    BY <1>0, <1>2
  <2>2. Alive' /\ db.next <= db'.next /\ db'.next \in Nat
    BY <1>0, <1>1 DEF Alive
  <2> QED
    BY <1>0, <1>6, <1>7, <1>8, <2>1, <2>2, AliveQuietKeeps
<1>10. Pended'
  <2>1. Soft(file[Log(db.log)]) \subseteq Soft(file'[Log(db.log)])
    BY <1>0, <1>6, <1>7, AliveIs DEF Soft, Names
  <2> QED
    BY <1>0, <1>9, <2>1, PendedKeeps DEF DInv
<1>11. CompactionFollows' /\ TablesFollow'
  <2>1. Len(<<recs>>) = 1 /\ <<recs>>[1] = recs
    OBVIOUS
  <2>2. Done(file'[Table(t)]) /\ Recs(file'[Table(t)]) = recs
    BY <1>6, <2>1 DEF Done, Recs
  <2>3. \A u \in db.live : /\ Recs(file'[Table(u)]) = Recs(file[Table(u)])
                           /\ Done(file[Table(u)]) => Done(file'[Table(u)])
    BY <1>1, <1>4, <1>7, KeptIs
  <2>4. \A u \in comp.in : Recs(file'[Table(u)]) \subseteq recs
    BY <1>1, <1>4, <2>3
  <2>5. CompactionFollows'
    BY <1>2, <2>2, <2>4 DEF CompactionFollows
  <2>6. TablesFollow'
    BY <1>0, <2>3 DEF TablesFollow, DInv
  <2> QED
    BY <2>5, <2>6
<1>12. FlushFollows'
  BY <1>0 DEF FlushFollows
<1>13. EditFollows'
  <2>1. EditFollows /\ bg' = bg /\ bg.pc \notin {"logged", "synced"}
    BY <1>0 DEF DInv
  <2> QED
    BY <1>0, <1>9, <2>1, EditFollowsKeeps
<1>14. Silent
  BY <1>6, <1>7, SameLogs DEF Silent
<1>15. \A r \in Recs(file'[Table(t)]) : InTables(file, comp.in, r)
  <2>1. Len(<<recs>>) = 1 /\ <<recs>>[1] = recs
    OBVIOUS
  <2>2. Recs(file'[Table(t)]) = recs
    BY <1>6, <2>1 DEF Recs
  <2> QED
    BY <2>2, <1>1, <1>4 DEF InTables
<1> QED
  BY <1>14, <1>15, <1>9, <1>10, <1>11, <1>12, <1>13 DEF DInv

LEMMA SyncManifestLoses ==
  ASSUME IInv, DInv, SyncManifest
  PROVE  DInv' /\ Silent
<1> DEFINE name == Manifest(db.manifest)
<1>0. /\ ProcessTypeOK /\ db.st = "open" /\ Alive /\ bg.pc = "logged"
      /\ UNCHANGED <<db, comp, wr, owed, synced>> /\ bg' = [bg EXCEPT !.pc = "synced"]
  BY DEF IInv, SyncManifest, Alive
<1>1. name \in dir.names /\ dir.current = db.manifest /\ db.next \in Nat
  BY <1>0, AliveIs
<1>2. bg'.pc = "synced" /\ bg'.edit = bg.edit
  BY <1>0 DEF ProcessTypeOK
<1>3. /\ Quiet /\ Others(name) /\ dir' = dir /\ ddir' = dir
      /\ Kept(file[name], file'[name]) /\ file'[name].dur = Len(file[name].data)
  BY <1>1, SyncQuiet DEF SyncManifest
<1>4. \A n \in dir.names : Kept(file[n], file'[n])
  BY <1>3, SameStays DEF Others, Names
<1>5. /\ \A n \in Nat : Log(n) \in Names' =>
           Log(n) \in Names /\ file'[Log(n)].data = file[Log(n)].data
      /\ \A n \in Nat : Log(n) \in dir'.names => Log(n) \in dir.names
  BY <1>3, <1>4 DEF Kept, Names
<1>6. ~db'.err => Soft(file[Log(db.log)]) \subseteq
                    db'.mem \union (IF wr'.pc = "idle" THEN {} ELSE {wr'.rec})
  BY <1>0 DEF DInv, LogsFollow
<1>7. /\ Whole' /\ DirsGood' /\ OldNumbers' /\ OldLogs' /\ Owing' /\ Retained
      /\ Numbered' /\ Reading' /\ Writing' /\ LogsFollow'
      /\ Kept(Current(file, dir), Current(file', dir'))
  <2>1. Alive'
    BY <1>0 DEF Alive
  <2>2. \/ comp'.out = comp.out /\ comp.pc # "idle"
        \/ comp'.pc = "idle"
    BY <1>0
  <2>3. db.next <= db'.next /\ db'.next \in Nat
    BY <1>0, <1>1
  <2> QED
    BY <1>0, <1>3, <1>5, <1>6, <2>1, <2>2, <2>3, AliveQuietKeeps
<1>8. Pended'
  <2>1. Soft(file[Log(db.log)]) \subseteq Soft(file'[Log(db.log)])
    BY <1>0, <1>4, AliveIs, KeptIs
  <2> QED
    BY <1>0, <1>7, <2>1, PendedKeeps DEF DInv
<1>9. TablesFollow' /\ CompactionFollows' /\ FlushFollows'
  <2>1. bg'.pc # "built"
    BY <1>2
  <2> QED
    BY <1>0, <1>1, <1>4, <2>1, TablesFollowKeeps DEF DInv
<1>10. EditFollows'
  <2>1. /\ Current(file, dir).data[Len(Current(file, dir).data)] = bg.edit
        /\ bg.edit.full /\ bg.edit.next # 0
        /\ bg.edit.del = {} => db.hasImm /\ bg.edit.log = db.log
        /\ bg.edit.del # {} => bg.edit.log = db.minlog
    BY <1>0 DEF DInv, EditFollows
  <2>2. /\ Current(file', dir').data = Current(file, dir).data
        /\ Current(file', dir').dur = Len(Current(file, dir).data)
    BY <1>1, <1>3 DEF Current, Kept
  <2> QED
    BY <1>0, <1>2, <2>1, <2>2 DEF EditFollows
<1>11. Silent
  BY <1>3, <1>5, SameLogs DEF Silent
<1> QED
  BY <1>11, <1>7, <1>8, <1>9, <1>10 DEF DInv

-----------------------------------------------------------------------------
(* The logs *)

\* The manifest of a running process has an edit that counts.
LEMMA AliveView ==
  ASSUME IInv, Alive
  PROVE  View(Current(file, dir), Len(Current(file, dir).data))
<1> DEFINE m == Current(file, dir)
<1>1. dir.current > 1
  BY DEF IInv, Opened, Alive
<1>2. Readables(dir.current, m, torn) /\ Len(m.data) \in Nat /\ m.dur \in 0 .. Len(m.data)
  BY AliveIs, CurrentIs
<1>3. m.dur >= 2 /\ Counts(m.data[2])
  BY <1>1, <1>2 DEF Readables, Counts
<1>4. 2 \in 1 .. Len(m.data)
  BY <1>2, <1>3
<1> QED
  BY <1>2, <1>3, <1>4 DEF View

LEMMA SwitchMemTableLoses ==
  ASSUME IInv, DInv, SwitchMemTable
  PROVE  DInv' /\ Silent
<1> DEFINE l == db.next
<1>0. /\ ProcessTypeOK /\ db.st = "open" /\ Alive /\ wr.pc = "idle"
      /\ ~db.err /\ ~db.hasImm
      /\ UNCHANGED <<bg, comp, wr, owed, synced>>
      /\ db' = [db EXCEPT !.log = db.next, !.next = @ + 1, !.imm = db.mem,
                          !.hasImm = TRUE, !.mem = {}]
      /\ SetDisk(Create(Disk, Log(l), << >>))
  BY DEF IInv, SwitchMemTable, Running, Alive
<1>1. /\ db'.st = db.st /\ db'.minlog = db.minlog /\ db'.log = l
      /\ db'.imm = db.mem /\ db'.hasImm = TRUE /\ db'.next = l + 1
      /\ db'.live = db.live /\ db'.add = db.add /\ db'.mem = {}
  BY <1>0 DEF ProcessTypeOK
<1>2. /\ l \in Nat /\ db.log \in Nat /\ db.minlog \in Nat /\ db.log < l
      /\ dir.current # 0 /\ Alive' /\ l <= db'.next /\ db'.next \in Nat
  <2>1. Alive'
    BY <1>0, <1>1 DEF Alive
  <2> QED
    BY <1>0, <1>1, <2>1, AliveIs
<1>3. \A n \in Nat : Log(n) \in Names => n <= db.log /\ n < l
  <2>1. \A n \in Nat : Log(n) \in Names => n <= db.log
    BY <1>0 DEF DInv, Numbered
  <2> QED
    BY <2>1, <1>2
<1>4. Log(l) \notin Names
  BY <1>2, <1>3
<1>5. /\ Quiet /\ Others(Log(l)) /\ ddir' = ddir
      /\ dir'.names = dir.names \union {Log(l)} /\ dir'.current = dir.current
      /\ file'[Log(l)] = [data |-> << >>, dur |-> 0]
  BY <1>0, <1>4, CreateQuiet DEF NewName
<1>6. /\ \A n \in Nat : Log(n) \in Names' /\ n # l =>
           Log(n) \in Names /\ file'[Log(n)] = file[Log(n)]
      /\ \A n \in Nat : Log(n) \in dir'.names /\ n # l => Log(n) \in dir.names
      /\ \A n \in Nat : Log(n) \in dir.names => n # l
  <2>1. \A n \in Nat : n # l => Log(n) # Log(l)
    BY DEF Log
  <2> QED
    BY <2>1, <1>4, <1>5 DEF Others, Names
<1>7. /\ DirsGood' /\ OldNumbers' /\ OldLogs' /\ Retained
      /\ Kept(Current(file, dir), Current(file', dir'))
  BY <1>2, <1>5, QuietKeeps DEF DInv
<1>8. Whole'
  BY <1>5, <1>6, WholeKeeps DEF DInv
<1>9. Owing'
  BY <1>0, <1>7, OwingKeeps DEF DInv
<1>10. Pended'
  BY <1>0 DEF Pended
<1>11. Reading' /\ Writing'
  BY <1>0, <1>1 DEF Reading, Writing, Opening
<1>12. Numbered'
  <2> DEFINE es == Current(file, dir).data
  <2>1. Current(file', dir').data = es
    BY <1>7 DEF Kept
  <2>2. /\ Below(es, Len(es), l) /\ (comp.pc # "idle" => comp.out < l)
        /\ \A t \in db.live \union db.add : t < l
    BY <1>0 DEF DInv, Numbered
  <2>3. /\ comp.out \in Nat /\ db.live \subseteq Nat /\ db.add \subseteq Nat
        /\ \A i \in 1 .. Len(es) : es[i].next \in Nat /\ es[i].log \in Nat /\ es[i].add \subseteq Nat
    <3>1. \A i \in 1 .. Len(es) : es[i] \in Edit
      BY <1>2, CurrentIs
    <3>2. \A x \in Edit : x.next \in Nat /\ x.log \in Nat /\ x.add \subseteq Nat
      BY DEF Edit
    <3> QED
      BY <1>0, <3>1, <3>2 DEF ProcessTypeOK
  <2>4. Below(es, Len(es), l + 1)
    BY <2>2, <2>3, <1>2 DEF Below
  <2>5. \A n \in Nat : Log(n) \in Names' => n <= l
    BY <1>2, <1>3, <1>6
  <2>6. \A n \in Nat : Log(n) \in Names' => n < l + 1
    BY <1>2, <2>5
  <2>7. \A t \in db'.live \union db'.add : t < l + 1
    BY <1>1, <1>2, <2>2, <2>3
  <2>8. comp'.pc # "idle" => comp'.out < l + 1
    BY <1>0, <1>2, <2>2, <2>3
  <2>9. ~Opening' /\ db'.st # "logs"
    BY <1>0, <1>1 DEF Opening
  <2> QED
    BY <1>1, <2>1, <2>4, <2>5, <2>6, <2>7, <2>8, <2>9 DEF Numbered
<1>13. LogsFollow'
  <2>1. /\ Current(file', dir').data = Current(file, dir).data
        /\ \A k : View(Current(file', dir'), k) => View(Current(file, dir), k)
    BY <1>7, KeptIs DEF Kept
  <2>2. \A k \in Nat : View(Current(file', dir'), k) =>
          /\ db'.minlog <= LogNo(Current(file', dir').data, k)
          /\ LogNo(Current(file', dir').data, k) <= db'.log
    <3> SUFFICES ASSUME NEW k \in Nat, View(Current(file', dir'), k)
                 PROVE  /\ db.minlog <= LogNo(Current(file, dir).data, k)
                        /\ LogNo(Current(file, dir).data, k) <= l
      BY <1>1, <2>1
    <3>1. /\ db.minlog <= LogNo(Current(file, dir).data, k)
          /\ LogNo(Current(file, dir).data, k) <= db.log
      BY <1>0, <2>1 DEF DInv, LogsFollow
    <3>2. LogNo(Current(file, dir).data, k) \in Nat
      <4>1. /\ k <= Len(Current(file, dir).data) /\ Len(Current(file, dir).data) \in Nat
            /\ Deciding(Current(file, dir).data, k) \in 1 .. k
            /\ Current(file, dir).dur \in Nat
        BY <1>2, <2>1, DecidingIs, CurrentIs DEF View
      <4>2. Current(file, dir).data[Deciding(Current(file, dir).data, k)] \in Edit
        BY <4>1, <1>2, CurrentIs
      <4> QED
        BY <4>2 DEF LogNo, Edit
    <3> QED
      BY <3>1, <3>2, <1>2
  <2>3. \A n \in Nat : Log(n) \in ddir'.names /\ Log(n) \notin dir'.names => n < db'.minlog
    BY <1>0, <1>1, <1>5 DEF DInv, LogsFollow
  <2>4. ASSUME NEW n \in Nat, Log(n) \in dir'.names, db'.minlog <= n, n < db'.log
        PROVE  Soft(file'[Log(n)]) \subseteq db'.imm
    <3>1. n # l /\ Log(n) \in dir.names /\ Log(n) \in Names'
      BY <1>1, <1>2, <1>6, <2>4 DEF Names
    <3>2. n <= db.log /\ file'[Log(n)] = file[Log(n)]
      BY <3>1, <1>3, <1>6 DEF Names
    <3>3. CASE n = db.log
      BY <3>2, <3>3, <1>0, <1>1 DEF DInv, LogsFollow
    <3>4. CASE n < db.log
      <4>1. Soft(file[Log(n)]) \subseteq db.imm /\ db.imm = {}
        BY <3>1, <3>4, <2>4, <1>0, <1>1 DEF DInv, LogsFollow
      <4> QED
        BY <4>1, <3>2
    <3> QED
      BY <3>2, <3>3, <3>4, <1>2
  <2>5. Soft(file'[Log(db'.log)]) = {}
    BY <1>1, <1>5 DEF Soft
  <2> QED
    BY <1>1, <2>2, <2>3, <2>4, <2>5 DEF LogsFollow
<1>14. TablesFollow' /\ CompactionFollows' /\ FlushFollows'
  <2>1. \A t \in Nat : Table(t) \in dir.names => Kept(file[Table(t)], file'[Table(t)])
    <3>1. \A t : Table(t) # Log(l)
      BY DEF Table, Log
    <3> QED
      BY <3>1, <1>5, SameStays DEF Others, Names
  <2>2. bg'.pc # "built"
    BY <1>0 DEF DInv, FlushFollows
  <2> QED
    BY <1>0, <1>1, <1>2, <2>1, <2>2, TablesFollowKeeps DEF DInv
<1>15. EditFollows'
  <2>1. EditFollows
    BY DEF DInv
  <2>2. bg.pc \in {"logged", "synced"} => bg.edit.del # {} /\ db.log <= db'.log
    BY <1>0, <1>1, <1>2, <2>1 DEF EditFollows
  <2> QED
    BY <1>0, <1>1, <1>7, <2>1, <2>2, EditFollowsKeeps
<1>16. Silent
  BY <1>2, <1>5, EmptyLog DEF Silent
<1> QED
  BY <1>16, <1>7, <1>8, <1>9, <1>10, <1>11, <1>12, <1>13, <1>14, <1>15 DEF DInv

LEMMA LogWriteLoses ==
  ASSUME IInv, IInv', DInv, NEW sync \in BOOLEAN, LogWrite(sync)
  PROVE  DInv'
<1> DEFINE name == Log(db.log)
<1> DEFINE rec == [id |-> writes + 1, seq |-> db.seq + 1]
<1>0. /\ ProcessTypeOK /\ db.st = "open" /\ Alive /\ wr.pc = "idle" /\ ~db.err
      /\ UNCHANGED <<db, bg, comp, owed, synced>>
      /\ SetDisk(AddRecord(Disk, name, rec))
      /\ wr' = [pc |-> IF sync THEN "sync" ELSE "insert", sync |-> sync, rec |-> rec]
  BY DEF IInv, LogWrite, CanWrite, Running, Alive
<1>1. /\ name \in dir.names /\ db.log \in Nat /\ dir.current # 0 /\ db.next \in Nat
  BY <1>0, AliveIs
<1>2. rec # Torn /\ wr'.rec = rec /\ wr'.pc # "idle" /\ ~(wr'.pc = "insert" /\ wr'.sync)
  <2>1. writes \in Nat
    BY DEF IInv, CountsOK
  <2>2. rec.id # Torn.id
    BY <2>1 DEF Torn
  <2>3. wr'.rec = rec /\ wr'.pc = (IF sync THEN "sync" ELSE "insert") /\ wr'.sync = sync
    BY <1>0
  <2> HIDE DEF rec
  <2> QED
    BY <2>2, <2>3
<1> HIDE DEF rec
<1>3. /\ Quiet /\ Others(name) /\ dir' = dir /\ ddir' = ddir
      /\ file'[name].data = Append(file[name].data, rec)
      /\ file[name].data \in Seq(Rec)
  BY <1>0, <1>1, AppendQuiet
<1>4. /\ Len(file'[name].data) = Len(file[name].data) + 1 /\ Len(file[name].data) \in Nat
      /\ \A i \in 1 .. Len(file[name].data) : file'[name].data[i] = file[name].data[i]
      /\ file'[name].data[Len(file[name].data) + 1] = rec
  BY <1>3, AppendProperties, LenProperties
<1>5. /\ Soft(file'[name]) \subseteq Soft(file[name]) \union {rec} /\ rec \in Soft(file'[name])
  <2>1. rec \in Soft(file'[name])
    BY <1>4 DEF Soft
  <2>2. ASSUME NEW i \in 1 .. Len(file'[name].data)
        PROVE  file'[name].data[i] \in Soft(file[name]) \union {rec}
    <3>1. i \in 1 .. Len(file[name].data) \/ i = Len(file[name].data) + 1
      BY <1>4
    <3> QED
      BY <3>1, <1>4 DEF Soft
  <2> QED
    BY <2>1, <2>2 DEF Soft
<1>6. \A n \in Names : n # name => file'[n] = file[n]
  BY <1>3 DEF Others, Names
<1>7. /\ DirsGood' /\ OldNumbers' /\ OldLogs' /\ Retained
      /\ Kept(Current(file, dir), Current(file', dir'))
  BY <1>1, <1>3, QuietKeeps DEF DInv
<1>8. Whole'
  <2> SUFFICES ASSUME NEW n \in Nat, Log(n) \in Names',
                      NEW i \in 1 .. Len(file'[Log(n)].data)
               PROVE  file'[Log(n)].data[i] # Torn
    BY DEF Whole
  <2>1. Log(n) \in Names
    BY <1>3 DEF Names
  <2>2. CASE Log(n) # name
    BY <2>1, <2>2, <1>6 DEF DInv, Whole
  <2>3. CASE Log(n) = name
    <3>1. i \in 1 .. Len(file[name].data) \/ i = Len(file[name].data) + 1
      BY <1>4, <2>3
    <3> QED
      BY <3>1, <2>1, <2>3, <1>2, <1>4 DEF DInv, Whole
  <2> QED
    BY <2>2, <2>3
<1>9. Owing'
  BY <1>0, <1>7, OwingKeeps DEF DInv
<1>10. Alive' /\ comp'.out = comp.out /\ db.next <= db'.next /\ db'.next \in Nat
       /\ (comp.pc # "idle" \/ comp'.pc = "idle")
  BY <1>0, <1>1 DEF Alive
<1>11. Numbered'
  <2>1. \A n \in Nat : Log(n) \in Names' => Log(n) \in Names
    BY <1>3 DEF Names
  <2> QED
    BY <1>0, <1>3, <1>7, <1>10, <2>1, NumberedKeeps DEF DInv
<1>12. LogsFollow'
  <2>1. /\ Current(file', dir').data = Current(file, dir).data
        /\ \A k : View(Current(file', dir'), k) => View(Current(file, dir), k)
    BY <1>7, KeptIs DEF Kept
  <2>2. \A n \in Nat : n # db.log => Log(n) # name
    BY DEF Log
  <2>3. LogsFollow
    BY DEF DInv
  <2>4. \A k \in Nat : View(Current(file', dir'), k) =>
          /\ db'.minlog <= LogNo(Current(file', dir').data, k)
          /\ LogNo(Current(file', dir').data, k) <= db'.log
    BY <1>0, <2>1, <2>3 DEF LogsFollow
  <2>5. \A n \in Nat : Log(n) \in ddir'.names /\ Log(n) \notin dir'.names => n < db'.minlog
    BY <1>0, <1>3, <2>3 DEF LogsFollow
  <2>6. ASSUME NEW n \in Nat, Log(n) \in dir'.names, db'.minlog <= n, n < db'.log
        PROVE  Soft(file'[Log(n)]) \subseteq db'.imm
    <3>1. file'[Log(n)] = file[Log(n)] /\ Log(n) \in dir.names
      BY <1>0, <1>1, <1>3, <1>6, <2>2, <2>6 DEF Names
    <3> QED
      BY <3>1, <1>0, <2>3, <2>6 DEF LogsFollow
  <2>7. Soft(file'[Log(db'.log)]) \subseteq
          db'.mem \union (IF wr'.pc = "idle" THEN {} ELSE {wr'.rec})
    <3>1. Soft(file[name]) \subseteq db.mem
      BY <1>0, <2>3 DEF LogsFollow
    <3> QED
      BY <3>1, <1>0, <1>2, <1>5
  <2>8. ~db'.hasImm => db'.imm = {}
    BY <1>0, <2>3 DEF LogsFollow
  <2> QED
    BY <2>4, <2>5, <2>6, <2>7, <2>8 DEF LogsFollow
<1>13. Pended'
  <2> DEFINE m == Current(file', dir')
  <2>1. View(m, Len(m.data)) /\ Len(m.data) \in Nat
    <3>1. View(Current(file, dir), Len(Current(file, dir).data))
          /\ Len(Current(file, dir).data) \in Nat
      BY <1>0, <1>1, AliveView, CurrentIs
    <3>2. Kept(Current(file, dir), m)
      BY <1>7
    <3>3. m.data = Current(file, dir).data
      BY <3>2 DEF Kept
    <3>4. Len(m.data) \in m.dur .. Len(m.data)
      BY <3>1, <3>2, <3>3 DEF Kept
    <3> QED
      BY <3>1, <3>3, <3>4 DEF View
  <2>2. LogNo(m.data, Len(m.data)) <= db.log
    BY <1>0, <1>10, <1>12, <2>1 DEF LogsFollow
  <2>3. Shown(file', dir', rec)
    BY <1>1, <1>3, <1>5, <2>1, <2>2 DEF Shown, Shows
  <2> QED
    BY <1>0, <1>2, <1>5, <2>3 DEF Pended
<1>14. Reading' /\ Writing'
  BY <1>0 DEF Reading, Writing, Opening
<1>15. TablesFollow' /\ CompactionFollows' /\ FlushFollows'
  <2>1. \A t \in Nat : Table(t) \in dir.names => Kept(file[Table(t)], file'[Table(t)])
    <3>1. \A t : Table(t) # name
      BY DEF Table, Log
    <3> QED
      BY <3>1, <1>6, SameStays DEF Names
  <2> QED
    BY <1>0, <1>10, <2>1, TablesFollowKeeps DEF DInv
<1>16. EditFollows'
  <2>1. EditFollows
    BY DEF DInv
  <2> QED
    BY <1>0, <1>7, <2>1, EditFollowsKeeps
<1> QED
  BY <1>7, <1>8, <1>9, <1>11, <1>12, <1>13, <1>14, <1>15, <1>16 DEF DInv

-----------------------------------------------------------------------------
(* Opening a database *)

LEMMA OpeningFacts ==
  ASSUME IInv, Opening
  PROVE  /\ dir.current # 0 /\ dir.current < db.manifest /\ db.manifest < db.next
         /\ ddir.current < db.manifest
         /\ dir.current \in Nat /\ db.manifest \in Nat /\ db.next \in Nat /\ db.minlog \in Nat
         /\ db.log \in Nat /\ db.next <= MaxNumber + 1
         /\ db.live \subseteq Nat /\ db.add \subseteq Nat /\ db.todo \subseteq Nat
         /\ \A t \in db.live \union db.add : Table(t) \in dir.names
         /\ \A n \in db.todo : Log(n) \in dir.names
         /\ db.st # "logs" => Log(db.log) \in dir.names
         /\ bg = IdleBg /\ comp = NoComp /\ wr = IdleWr /\ ~Alive
<1>1. /\ ProcessTypeOK /\ Recovering /\ DiskInv /\ Resting
      /\ db.st \in {"logs", "edit", "sync", "current"}
  BY DEF IInv, Opening
<1>2. /\ dir.current \in Nat /\ ddir.current \in Nat /\ ddir.current <= dir.current
      /\ db.manifest \in Nat /\ db.next \in Nat /\ db.minlog \in Nat
      /\ db.log \in Nat /\ db.next <= MaxNumber + 1
      /\ db.live \subseteq Nat /\ db.add \subseteq Nat /\ db.todo \subseteq Nat
  BY <1>1, FilesAre, BoundsAssumption DEF ProcessTypeOK
<1>3. /\ dir.current # 0 /\ dir.current < db.manifest /\ db.manifest < db.next
      /\ \A t \in db.live \union db.add : Table(t) \in dir.names
      /\ \A n \in db.todo : Log(n) \in dir.names
      /\ db.st # "logs" => Log(db.log) \in dir.names
  BY <1>1 DEF Recovering, On
<1>4. ddir.current < db.manifest
  BY <1>2, <1>3
<1>5. bg = IdleBg /\ comp = NoComp /\ wr = IdleWr /\ ~Alive
  BY <1>1 DEF Resting, Alive
<1> QED
  BY <1>2, <1>3, <1>4, <1>5

\* While no database is open there are no memtables and no edit in flight.
LEMMA NotAliveKeeps ==
  ASSUME IInv', ~Alive', Whole', DirsGood', OldNumbers', OldLogs', Owing',
         Numbered', Reading', Writing', ~db'.hasImm => db'.imm = {}
  PROVE  DInv'
<1>1. wr'.pc = "idle"
  BY IdleOK DEF IInv, Resting, Alive
<1>2. Pended'
  BY <1>1 DEF Pended
<1>3. LogsFollow' /\ TablesFollow' /\ CompactionFollows' /\ FlushFollows' /\ EditFollows'
  BY DEF LogsFollow, TablesFollow, CompactionFollows, FlushFollows, EditFollows
<1> QED
  BY <1>2, <1>3 DEF DInv

LEMMA AsideKeeps ==
  ASSUME ~Opening', ~Alive', db'.st # "newdb"
  PROVE  Numbered' /\ Reading' /\ Writing'
<1>1. db'.st \notin {"sync", "current"}
  BY DEF Opening
<1> QED
  BY <1>1 DEF Numbered, Reading, Writing

LEMMA QuietDiskKeeps ==
  ASSUME IInv, DInv, Quiet, owed' = owed, synced' = synced,
         \A n \in Nat : Log(n) \in Names' =>
           \/ Log(n) \in Names /\ file'[Log(n)].data = file[Log(n)].data
           \/ file'[Log(n)].data = << >>
  PROVE  /\ Whole' /\ DirsGood' /\ OldNumbers' /\ OldLogs' /\ Owing' /\ Retained
         /\ dir.current # 0 => Kept(Current(file, dir), Current(file', dir'))
<1>1. /\ DirsGood' /\ OldNumbers' /\ OldLogs' /\ Retained
      /\ dir.current # 0 => Kept(Current(file, dir), Current(file', dir'))
  BY QuietKeeps DEF DInv
<1>2. Whole'
  BY WholeKeeps DEF DInv
<1>3. Owing'
  BY <1>1, OwingKeeps DEF DInv
<1> QED
  BY <1>1, <1>2, <1>3

\* A step of Open that reads no log.
LEMMA ReadingKeeps ==
  ASSUME IInv, Reading, Opening, Opening', Kept(Current(file, dir), Current(file', dir')),
         db'.live = db.live, db'.minlog = db.minlog, db'.add = db.add,
         db'.todo = db.todo, db'.log = db.log, db.st = "logs" => db'.st = "logs",
         \A n \in Nat : Log(n) \in dir'.names => Log(n) \in dir.names,
         \A n \in Nat : Log(n) \in dir.names => Kept(file[Log(n)], file'[Log(n)]),
         \A t \in Nat : Table(t) \in dir.names => Kept(file[Table(t)], file'[Table(t)])
  PROVE  Reading'
<1> DEFINE m == Current(file, dir)
<1> DEFINE o == Current(file', dir')
<1>1. /\ View(m, Len(m.data)) /\ db.live = LiveAt(m.data, Len(m.data))
      /\ db.minlog = LogNo(m.data, Len(m.data))
      /\ \A t \in db.add : Done(file[Table(t)])
      /\ \A n \in Nat : Log(n) \in dir.names /\ db.minlog <= n =>
           n \in db.todo \/ \A r \in Soft(file[Log(n)]) : InTables(file, db.add, r)
      /\ db.st # "logs" => db.todo = {} /\ file[Log(db.log)].data = << >>
  BY DEF Reading
<1>2. o.data = m.data
  BY DEF Kept
<1>3. View(o, Len(o.data))
  <2>1. Len(m.data) \in o.dur .. Len(m.data)
    BY DEF Kept
  <2> QED
    BY <1>1, <1>2, <2>1 DEF View
<1>4. /\ db.add \subseteq Nat /\ db.log \in Nat
      /\ \A t \in db.add : Table(t) \in dir.names
      /\ db.st # "logs" => Log(db.log) \in dir.names
  BY OpeningFacts
<1>5. \A t \in db.add : Done(file'[Table(t)]) /\ Recs(file'[Table(t)]) = Recs(file[Table(t)])
  BY <1>1, <1>4, KeptIs
<1>6. \A r : InTables(file, db.add, r) => InTables(file', db.add, r)
  BY <1>5 DEF InTables
<1>7. \A n \in Nat : Log(n) \in dir.names => Soft(file'[Log(n)]) = Soft(file[Log(n)])
  BY KeptIs
<1>8. ASSUME NEW n \in Nat, Log(n) \in dir'.names, db'.minlog <= n
      PROVE  n \in db'.todo \/ \A r \in Soft(file'[Log(n)]) : InTables(file', db'.add, r)
  <2>1. Log(n) \in dir.names
    BY <1>8
  <2>2. n \in db.todo \/ \A r \in Soft(file[Log(n)]) : InTables(file, db.add, r)
    BY <1>1, <1>8, <2>1
  <2> QED
    BY <2>1, <2>2, <1>6, <1>7
<1>9. db'.st # "logs" => db'.todo = {} /\ file'[Log(db'.log)].data = << >>
  BY <1>1, <1>4 DEF Kept
<1> QED
  BY <1>1, <1>2, <1>3, <1>5, <1>8, <1>9 DEF Reading

LEMMA NumberedOpening ==
  ASSUME IInv, Numbered, Opening, Opening', Kept(Current(file, dir), Current(file', dir')),
         db'.live = db.live, db'.add = db.add, db'.todo = db.todo, db'.log = db.log,
         db'.next = db.next, db'.manifest = db.manifest, db.st = "logs" => db'.st = "logs",
         comp'.pc = "idle", \A n \in Nat : Log(n) \in Names' => Log(n) \in Names
  PROVE  Numbered'
<1>1. Current(file', dir').data = Current(file, dir).data
  BY DEF Kept
<1>2. /\ Below(Current(file, dir).data, Len(Current(file, dir).data), db.next)
      /\ Below(Current(file, dir).data, Len(Current(file, dir).data), db.manifest)
      /\ \A t \in db.live \union db.add : t < db.next
      /\ \A n \in Nat : Log(n) \in Names => n < db.next \/ n \in db.todo
      /\ db.st # "logs" => \A n \in Nat : Log(n) \in Names => n <= db.log
  BY DEF Numbered
<1> QED
  BY <1>1, <1>2 DEF Numbered

LEMMA KernelLoses ==
  ASSUME IInv, IInv', DInv, CommitDirectory \/ WriteBack
  PROVE  DInv'
<1>0. UNCHANGED <<db, bg, comp, wr, owed, synced>>
  BY DEF CommitDirectory, WriteBack
<1>1. CASE Alive
  BY <1>0, <1>1, AliveSameKeeps DEF Alive
<1>2. CASE ~Alive
  <2>1. /\ Quiet /\ dir' = dir /\ ddir' \in {dir, ddir}
        /\ \A n \in dir.names : Kept(file[n], file'[n])
        /\ ddir' = ddir => \A n \in ddir.names : Kept(file[n], file'[n])
    BY KernelQuiet
  <2>2. \A n \in Names' : n \in Names /\ Kept(file[n], file'[n])
    BY <2>1 DEF Names
  <2>3. /\ Whole' /\ DirsGood' /\ OldNumbers' /\ OldLogs' /\ Owing'
        /\ dir.current # 0 => Kept(Current(file, dir), Current(file', dir'))
    <3>1. \A n \in Nat : Log(n) \in Names' =>
            Log(n) \in Names /\ file'[Log(n)].data = file[Log(n)].data
      BY <2>2 DEF Kept
    <3> QED
      BY <1>0, <2>1, <3>1, QuietDiskKeeps
  <2>4. Numbered' /\ Reading' /\ Writing'
    <3>1. CASE ~Opening
      <4>1. db.st = "newdb" => Manifest(1) \in dir.names
        BY DEF IInv, Created
      <4>2. db.st = "newdb" => file'[Manifest(1)].data = file[Manifest(1)].data
        BY <4>1, <2>1 DEF Kept
      <4>3. Writing'
        BY <1>0, <3>1, <4>2 DEF Opening, DInv, Writing
      <4> QED
        BY <1>0, <1>2, <3>1, <4>3 DEF Opening, Numbered, Reading, Alive
    <3>2. CASE Opening
      <4>0. dir.current # 0 /\ Opening' /\ comp'.pc = "idle"
        BY <1>0, <3>2, OpeningFacts, IdleOK DEF Opening
      <4>1. Reading'
        BY <1>0, <2>1, <2>3, <3>2, <4>0, ReadingKeeps DEF DInv
      <4>2. Numbered'
        BY <1>0, <2>2, <2>3, <3>2, <4>0, NumberedOpening DEF DInv
      <4>3. Writing'
        <5>1. db.st \in {"sync", "current"} => Manifest(db.manifest) \in dir.names
          BY DEF IInv, Installing
        <5>2. db.st \in {"sync", "current"} =>
                file'[Manifest(db.manifest)].data = file[Manifest(db.manifest)].data
          BY <5>1, <2>1 DEF Kept
        <5> QED
          BY <1>0, <3>2, <5>2 DEF DInv, Writing, Opening
      <4> QED
        BY <4>1, <4>2, <4>3
    <3> QED
      BY <3>1, <3>2
  <2>5. ~db'.hasImm => db'.imm = {}
    BY <1>0 DEF DInv, LogsFollow
  <2>6. ~Alive'
    BY <1>0, <1>2 DEF Alive
  <2> QED
    BY <2>3, <2>4, <2>5, <2>6, NotAliveKeeps
<1> QED
  BY <1>1, <1>2

\* The disk as it is, when no process is there to use it.
LEMMA ProcessEndsLoses ==
  ASSUME IInv, IInv', DInv, ProcessEnds
  PROVE  DInv'
<1>1. UNCHANGED <<dir, ddir, file, owed, synced>> /\ db'.st = "down" /\ db'.imm = {}
  BY DEF ProcessEnds, Down
<1>2. Quiet
  BY <1>1, KernelQuiet
<1>3. Whole' /\ DirsGood' /\ OldNumbers' /\ OldLogs' /\ Owing'
  <2>1. \A n \in Nat : Log(n) \in Names' =>
          Log(n) \in Names /\ file'[Log(n)].data = file[Log(n)].data
    BY <1>1 DEF Names
  <2> QED
    BY <1>1, <1>2, <2>1, QuietDiskKeeps
<1>4. ~Opening' /\ ~Alive' /\ db'.st # "newdb"
  BY <1>1 DEF Opening, Alive
<1> QED
  BY <1>1, <1>3, <1>4, AsideKeeps, NotAliveKeeps

LEMMA NewDBLoses ==
  ASSUME IInv, IInv', DInv, NewDB
  PROVE  DInv' /\ Silent
<1> DEFINE e == [full |-> TRUE, log |-> 0, next |-> 2, seq |-> 0, add |-> {}, del |-> {}]
<1>1. /\ UNCHANGED <<owed, synced>> /\ dir.current = 0 /\ db'.st = "newdb"
      /\ SetDisk(Create(Disk, Manifest(1), <<e>>))
      /\ db'.imm = db.imm /\ db'.hasImm = db.hasImm
  BY DEF NewDB, IInv, ProcessTypeOK
<1>2. ddir.current = 0
  BY <1>1, FilesAre DEF IInv
<1>3. NewName(Manifest(1))
  BY <1>1, <1>2 DEF NewName, Manifest
<1>4. <<e>>[1] = e /\ e.log = 0
  OBVIOUS
<1> DEFINE c == <<e>>
<1> HIDE DEF e, c
<1>5. /\ Quiet /\ Others(Manifest(1)) /\ ddir' = ddir
      /\ dir'.names = dir.names \union {Manifest(1)}
      /\ file'[Manifest(1)].data = <<e>>
  <2>1. SetDisk(Create(Disk, Manifest(1), c))
    BY <1>1 DEF c
  <2>2. /\ Quiet /\ Others(Manifest(1)) /\ ddir' = ddir
        /\ dir'.names = dir.names \union {Manifest(1)}
        /\ file'[Manifest(1)] = [data |-> c, dur |-> 0]
    BY <1>3, <2>1, CreateQuiet
  <2> QED
    BY <2>2 DEF c
<1>6. \A n \in Nat : Log(n) \in Names' =>
        Log(n) \in Names /\ file'[Log(n)].data = file[Log(n)].data
  <2>1. \A n : Log(n) # Manifest(1)
    BY DEF Log, Manifest
  <2> QED
    BY <1>5, <2>1 DEF Others, Names
<1>7. Whole' /\ DirsGood' /\ OldNumbers' /\ OldLogs' /\ Owing'
  BY <1>1, <1>5, <1>6, QuietDiskKeeps
<1>8. ~Opening' /\ ~Alive'
  BY <1>1 DEF Opening, Alive
<1>9. Numbered' /\ Reading' /\ Writing'
  BY <1>1, <1>4, <1>5, <1>8 DEF Numbered, Reading, Writing
<1>10. ~db'.hasImm => db'.imm = {}
  BY <1>1 DEF DInv, LogsFollow
<1>11. Silent
  <2>1. \A n : Log(n) # Manifest(1)
    BY DEF Log, Manifest
  <2> QED
    BY <1>5, <1>6, <2>1, SameLogs DEF Silent
<1> QED
  BY <1>11, <1>7, <1>8, <1>9, <1>10, NotAliveKeeps

LEMMA OpenSyncLoses ==
  ASSUME IInv, IInv', DInv, OpenSync
  PROVE  DInv' /\ Silent
<1> DEFINE name == Manifest(db.manifest)
<1>0. /\ ProcessTypeOK /\ db.st = "sync" /\ Opening /\ UNCHANGED <<comp, owed, synced>>
      /\ db' = [db EXCEPT !.st = "current"] /\ SetDisk(Sync(Disk, name))
  BY DEF IInv, OpenSync, Opening
<1>1. /\ db'.st = "current" /\ db'.live = db.live /\ db'.minlog = db.minlog
      /\ db'.add = db.add /\ db'.todo = db.todo /\ db'.log = db.log
      /\ db'.next = db.next /\ db'.manifest = db.manifest
      /\ db'.imm = db.imm /\ db'.hasImm = db.hasImm
  BY <1>0 DEF ProcessTypeOK
<1>2. Opening' /\ ~Alive' /\ db'.st # "newdb"
  BY <1>1 DEF Opening, Alive
<1>3. name \in dir.names /\ dir.current # 0 /\ comp'.pc = "idle"
  BY <1>0, OpeningFacts, IdleOK DEF IInv, Installing
<1>4. /\ Quiet /\ Others(name) /\ dir' = dir /\ ddir' = dir
      /\ Kept(file[name], file'[name])
  BY <1>0, <1>3, SyncQuiet
<1>5. \A n \in Names' : n \in dir.names /\ Kept(file[n], file'[n])
  BY <1>4, SameStays DEF Others, Names
<1>6. /\ Whole' /\ DirsGood' /\ OldNumbers' /\ OldLogs' /\ Owing'
      /\ Kept(Current(file, dir), Current(file', dir'))
  <2>1. \A n \in Nat : Log(n) \in Names' =>
          Log(n) \in Names /\ file'[Log(n)].data = file[Log(n)].data
    BY <1>5 DEF Kept, Names
  <2> QED
    BY <1>0, <1>3, <1>4, <2>1, QuietDiskKeeps
<1>7. Reading'
  <2>1. \A n \in dir.names : Kept(file[n], file'[n])
    BY <1>4, <1>5 DEF Names
  <2> QED
    BY <1>0, <1>1, <1>2, <1>4, <1>6, <2>1, ReadingKeeps DEF DInv
<1>8. Numbered'
  <2>1. \A n \in Nat : Log(n) \in Names' => Log(n) \in Names
    BY <1>5 DEF Names
  <2> QED
    BY <1>0, <1>1, <1>2, <1>3, <1>6, <2>1, NumberedOpening DEF DInv
<1>9. Writing'
  BY <1>0, <1>1, <1>4 DEF DInv, Writing, Kept
<1>10. ~db'.hasImm => db'.imm = {}
  BY <1>1 DEF DInv, LogsFollow
<1>11. Silent
  <2>1. \A n \in Names' : n \in Names /\ file'[n].data = file[n].data
    BY <1>5 DEF Kept, Names
  <2> QED
    BY <1>4, <2>1, SameLogs DEF Silent
<1> QED
  BY <1>11, <1>2, <1>6, <1>7, <1>8, <1>9, <1>10, NotAliveKeeps

LEMMA OpenManifestLoses ==
  ASSUME IInv, IInv', DInv, OpenManifest
  PROVE  DInv' /\ Silent
<1> DEFINE name == Manifest(db.manifest)
<1> DEFINE first == Snapshot(db.live)
<1> DEFINE second == [full |-> TRUE, log |-> db.log, next |-> db.next, seq |-> db.seq,
                      add |-> db.add, del |-> {}]
<1> DEFINE es == <<first, second>>
<1>0. /\ ProcessTypeOK /\ db.st = "edit" /\ Opening /\ UNCHANGED <<comp, owed, synced>>
      /\ db' = [db EXCEPT !.st = "sync"] /\ SetDisk(Create(Disk, name, es))
  BY DEF IInv, OpenManifest, Opening
<1>1. /\ db'.st = "sync" /\ db'.live = db.live /\ db'.minlog = db.minlog
      /\ db'.add = db.add /\ db'.todo = db.todo /\ db'.log = db.log
      /\ db'.next = db.next /\ db'.manifest = db.manifest
      /\ db'.imm = db.imm /\ db'.hasImm = db.hasImm
  BY <1>0 DEF ProcessTypeOK
<1>2. Opening' /\ ~Alive' /\ db'.st # "newdb"
  BY <1>1 DEF Opening, Alive
<1>3. dir.current # 0 /\ comp'.pc = "idle"
  BY <1>0, OpeningFacts, IdleOK
<1>4. NewName(name)
  <2>1. dir.current # db.manifest /\ ddir.current # db.manifest
    BY <1>0, OpeningFacts, FilesAre DEF IInv
  <2>2. name # Manifest(dir.current) /\ name # Manifest(ddir.current)
    BY <2>1, NameIs
  <2> QED
    BY <2>2, NameIs DEF NewName
<1>5. /\ first.next = 0 /\ first.log = 0 /\ first.del = {} /\ second.del = {}
      /\ second.log = db.log /\ second.next = db.next
      /\ es[1] = first /\ es[2] = second
  BY DEF Snapshot
<1> HIDE DEF first, second, es
<1>6. /\ Quiet /\ Others(name) /\ ddir' = ddir
      /\ dir'.names = dir.names \union {name} /\ dir'.current = dir.current
      /\ file'[name] = [data |-> es, dur |-> 0]
  BY <1>0, <1>4, CreateQuiet
<1>7. /\ \A n : Log(n) # name /\ Table(n) # name
      /\ \A n \in Names : n # name => Kept(file[n], file'[n])
  <2>1. \A n : Log(n) # name /\ Table(n) # name
    BY DEF Log, Table, Manifest
  <2> QED
    BY <2>1, <1>6, SameStays DEF Others, Names
<1>8. /\ \A n \in Nat : Log(n) \in Names' => Log(n) \in Names
      /\ \A n \in Nat : Log(n) \in dir'.names => Log(n) \in dir.names
      /\ \A n \in Nat : Log(n) \in dir.names => Kept(file[Log(n)], file'[Log(n)])
      /\ \A n \in Nat : Table(n) \in dir.names => Kept(file[Table(n)], file'[Table(n)])
  BY <1>6, <1>7 DEF Names
<1>9. /\ Whole' /\ DirsGood' /\ OldNumbers' /\ OldLogs' /\ Owing'
      /\ Kept(Current(file, dir), Current(file', dir'))
  <2>1. \A n \in Nat : Log(n) \in Names' =>
          Log(n) \in Names /\ file'[Log(n)].data = file[Log(n)].data
    BY <1>7, <1>8 DEF Kept
  <2> QED
    BY <1>0, <1>3, <1>6, <2>1, QuietDiskKeeps
<1>10. Reading'
  BY <1>0, <1>1, <1>2, <1>8, <1>9, ReadingKeeps DEF DInv
<1>11. Numbered'
  BY <1>0, <1>1, <1>2, <1>3, <1>8, <1>9, NumberedOpening DEF DInv
<1>12. Writing'
  <2>1. file'[name].data = es
    BY <1>6
  <2> QED
    BY <1>1, <1>5, <2>1 DEF Writing
<1>13. ~db'.hasImm => db'.imm = {}
  BY <1>1 DEF DInv, LogsFollow
<1>14. Silent
  <2>1. \A n \in Nat : Log(n) \in Names' =>
          Log(n) \in Names /\ file'[Log(n)].data = file[Log(n)].data
    BY <1>7, <1>8 DEF Kept
  <2> QED
    BY <1>6, <1>8, <2>1, SameLogs DEF Silent
<1> QED
  BY <1>14, <1>2, <1>9, <1>10, <1>11, <1>12, <1>13, NotAliveKeeps

\* The new log gets a number above all the others.
LEMMA OpenLogLoses ==
  ASSUME IInv, IInv', DInv, OpenLog
  PROVE  DInv' /\ Silent
<1> DEFINE l == db.next
<1>0. /\ ProcessTypeOK /\ db.st = "logs" /\ db.todo = {} /\ Opening
      /\ UNCHANGED <<comp, owed, synced>>
      /\ db' = [db EXCEPT !.st = "edit", !.log = db.next, !.next = @ + 1]
      /\ SetDisk(Create(Disk, Log(l), << >>))
  BY DEF IInv, OpenLog, Opening
<1>1. /\ db'.st = "edit" /\ db'.live = db.live /\ db'.minlog = db.minlog
      /\ db'.add = db.add /\ db'.todo = db.todo /\ db'.log = l
      /\ db'.next = l + 1 /\ db'.manifest = db.manifest
      /\ db'.imm = db.imm /\ db'.hasImm = db.hasImm
  BY <1>0 DEF ProcessTypeOK
<1>2. Opening' /\ ~Alive' /\ db'.st # "newdb"
  BY <1>1 DEF Opening, Alive
<1>3. /\ dir.current # 0 /\ comp'.pc = "idle" /\ l \in Nat
      /\ db.live \subseteq Nat /\ db.add \subseteq Nat
      /\ \A t \in db.add : Table(t) \in dir.names
  BY <1>0, OpeningFacts, IdleOK
<1>4. \A n \in Nat : Log(n) \in Names => n < l
  BY <1>0 DEF DInv, Numbered
<1>5. Log(l) \notin Names
  BY <1>3, <1>4
<1>6. /\ Quiet /\ Others(Log(l)) /\ ddir' = ddir
      /\ dir'.names = dir.names \union {Log(l)} /\ dir'.current = dir.current
      /\ file'[Log(l)] = [data |-> << >>, dur |-> 0]
  BY <1>0, <1>5, CreateQuiet DEF NewName
<1>7. /\ \A n \in Nat : Log(n) \in Names' /\ n # l =>
           Log(n) \in Names /\ Kept(file[Log(n)], file'[Log(n)])
      /\ \A n \in Nat : Log(n) \in dir'.names /\ n # l => Log(n) \in dir.names
      /\ \A n \in Nat : Table(n) \in dir.names => Kept(file[Table(n)], file'[Table(n)])
  <2>1. \A n \in Nat : n # l => Log(n) # Log(l)
    BY DEF Log
  <2>2. \A n : Table(n) # Log(l)
    BY DEF Log, Table
  <2>3. \A n \in Names : n # Log(l) => Kept(file[n], file'[n])
    BY <1>6, SameStays DEF Others, Names
  <2> QED
    BY <2>1, <2>2, <2>3, <1>6 DEF Names
<1>8. /\ Whole' /\ DirsGood' /\ OldNumbers' /\ OldLogs' /\ Owing'
      /\ Kept(Current(file, dir), Current(file', dir'))
  <2>1. \A n \in Nat : Log(n) \in Names' =>
          \/ Log(n) \in Names /\ file'[Log(n)].data = file[Log(n)].data
          \/ file'[Log(n)].data = << >>
    BY <1>6, <1>7 DEF Kept
  <2> QED
    BY <1>0, <1>3, <1>6, <2>1, QuietDiskKeeps
<1> DEFINE m == Current(file, dir)
<1> DEFINE o == Current(file', dir')
<1>9. o.data = m.data /\ Len(m.data) \in Nat
  BY <1>3, <1>8, CurrentIs DEF Kept
<1>10. Reading'
  <2>1. /\ View(m, Len(m.data)) /\ db.live = LiveAt(m.data, Len(m.data))
        /\ db.minlog = LogNo(m.data, Len(m.data))
        /\ \A t \in db.add : Done(file[Table(t)])
        /\ \A n \in Nat : Log(n) \in dir.names /\ db.minlog <= n =>
             \A r \in Soft(file[Log(n)]) : InTables(file, db.add, r)
    BY <1>0 DEF DInv, Reading
  <2>2. View(o, Len(o.data))
    <3>1. Len(m.data) \in o.dur .. Len(m.data)
      BY <1>8 DEF Kept
    <3> QED
      BY <1>9, <2>1, <3>1 DEF View
  <2>3. \A t \in db.add : Done(file'[Table(t)]) /\ Recs(file'[Table(t)]) = Recs(file[Table(t)])
    BY <1>3, <1>7, <2>1, KeptIs
  <2>4. \A r : InTables(file, db.add, r) => InTables(file', db.add, r)
    BY <2>3 DEF InTables
  <2>5. ASSUME NEW n \in Nat, Log(n) \in dir'.names, db.minlog <= n
        PROVE  \A r \in Soft(file'[Log(n)]) : InTables(file', db.add, r)
    <3>1. CASE n = l
      BY <1>6, <3>1 DEF Soft
    <3>2. CASE n # l
      <4>1. Log(n) \in dir.names /\ Soft(file'[Log(n)]) = Soft(file[Log(n)])
        BY <1>7, <2>5, <3>2, KeptIs DEF Names
      <4> QED
        BY <4>1, <2>1, <2>4, <2>5
    <3> QED
      BY <3>1, <3>2
  <2> QED
    BY <1>0, <1>1, <1>6, <1>9, <2>1, <2>2, <2>3, <2>5 DEF Reading
<1>11. Numbered'
  <2>1. /\ Below(m.data, Len(m.data), l) /\ Below(m.data, Len(m.data), db.manifest)
        /\ \A t \in db.live \union db.add : t < l
    BY <1>0 DEF DInv, Numbered
  <2>2. Below(m.data, Len(m.data), l + 1)
    <3>1. \A i \in 1 .. Len(m.data) :
            m.data[i].next \in Nat /\ m.data[i].log \in Nat /\ m.data[i].add \subseteq Nat
      <4>1. \A i \in 1 .. Len(m.data) : m.data[i] \in Edit
        BY <1>3, CurrentIs
      <4> QED
        BY <4>1 DEF Edit
    <3> QED
      BY <3>1, <2>1, <1>3 DEF Below
  <2>3. \A n \in Nat : Log(n) \in Names' => n <= l /\ n < l + 1
    BY <1>3, <1>4, <1>7
  <2>4. \A t \in db'.live \union db'.add : t < l + 1
    BY <1>1, <1>3, <2>1
  <2> QED
    BY <1>1, <1>3, <1>9, <2>1, <2>2, <2>3, <2>4 DEF Numbered
<1>12. Writing'
  BY <1>1 DEF Writing
<1>13. ~db'.hasImm => db'.imm = {}
  BY <1>1 DEF DInv, LogsFollow
<1>14. Silent
  BY <1>3, <1>6, EmptyLog DEF Silent
<1> QED
  BY <1>14, <1>2, <1>8, <1>10, <1>11, <1>12, <1>13, NotAliveKeeps

\* A log without torn records is read to its end.
LEMMA WholeReads ==
  ASSUME NEW f, f.data \in Seq(Rec), \A i \in 1 .. Len(f.data) : f.data[i] # Torn
  PROVE  ReadLog(f) = Soft(f) /\ Soft(f) \subseteq Rec
<1> DEFINE q == f.data
<1> DEFINE cut == {i \in DOMAIN q : q[i] = Torn}
<1>1. DOMAIN q = 1 .. Len(q) /\ \A i \in 1 .. Len(q) : q[i] \in Rec
  OBVIOUS
<1>2. cut = {}
  BY <1>1
<1>3. ReadLog(f) = {q[i] : i \in 1 .. Len(q)}
  BY <1>2 DEF ReadLog
<1> QED
  BY <1>1, <1>3 DEF Soft

LEMMA ReadsAll ==
  ASSUME IInv, Whole, NEW n \in Nat, Log(n) \in Names
  PROVE  ReadLog(file[Log(n)]) = Soft(file[Log(n)]) /\ Soft(file[Log(n)]) \subseteq Rec
<1>1. file[Log(n)].data \in Seq(Rec)
  BY FilesAre, NameIs DEF IInv, FileOK, Names
<1>2. \A i \in 1 .. Len(file[Log(n)].data) : file[Log(n)].data[i] # Torn
  BY DEF Whole
<1> QED
  BY <1>1, <1>2, WholeReads

\* A log that is read, and the table it goes to.
LEMMA RecoverLogFileLoses ==
  ASSUME IInv, IInv', DInv, RecoverLogFile
  PROVE  /\ DInv' /\ Silent
         /\ \A t \in db'.add : \/ t \in db.add
                               \/ \E n \in db.todo : Recs(file'[Table(t)]) = Soft(file[Log(n)])
<1> DEFINE n == Min(db.todo)
<1> DEFINE recs == ReadLog(file[Log(n)])
<1> DEFINE t == db.next
<1>0. /\ ProcessTypeOK /\ db.st = "logs" /\ db.todo # {} /\ Opening /\ t < MaxNumber
      /\ UNCHANGED <<comp, owed, synced>>
  BY DEF IInv, RecoverLogFile, Opening
<1>1. /\ dir.current # 0 /\ comp'.pc = "idle" /\ t \in Nat /\ t # 0 /\ MaxNumber \in Nat
      /\ db.live \subseteq Nat /\ db.add \subseteq Nat /\ db.todo \subseteq Nat
      /\ \A u \in db.add : Table(u) \in dir.names
      /\ \A k \in db.todo : Log(k) \in dir.names
  BY <1>0, OpeningFacts, IdleOK, BoundsAssumption DEF ProcessTypeOK
<1>2. n \in db.todo /\ n \in Nat /\ Log(n) \in Names
  BY <1>0, <1>1, MinExists DEF Names
<1>3. recs = Soft(file[Log(n)]) /\ recs \in SUBSET Rec
  BY <1>2, ReadsAll DEF DInv
<1>4. /\ recs = {} => /\ UNCHANGED <<dir, ddir, file>>
                      /\ db' = [db EXCEPT !.todo = @ \ {n}, !.next = MaxOf(@, n + 1)]
      /\ recs # {} => /\ SetDisk(Sync(Create(Disk, Table(t), <<recs>>), Table(t)))
                      /\ \E s : db' = [db EXCEPT !.todo = @ \ {n}, !.add = @ \union {t},
                                                 !.next = MaxOf(@ + 1, n + 1), !.seq = s]
  BY DEF RecoverLogFile
<1> HIDE DEF n, recs
<1>5. /\ db'.st = "logs" /\ db'.live = db.live /\ db'.minlog = db.minlog
      /\ db'.todo = db.todo \ {n} /\ db'.manifest = db.manifest
      /\ db'.imm = db.imm /\ db'.hasImm = db.hasImm
      /\ recs = {} => db'.add = db.add /\ db'.next = MaxOf(t, n + 1)
      /\ recs # {} => db'.add = db.add \union {t} /\ db'.next = MaxOf(t + 1, n + 1)
  BY <1>0, <1>4 DEF ProcessTypeOK
<1>6. /\ db'.next \in Nat /\ t <= db'.next /\ n < db'.next
      /\ recs # {} => t < db'.next
  BY <1>1, <1>2, <1>5, MaxOfIs
<1>7. Opening' /\ ~Alive'
  BY <1>5 DEF Opening, Alive
<1>8. /\ Quiet
      /\ \A k \in Nat : Log(k) \in Names' =>
           Log(k) \in Names /\ file'[Log(k)].data = file[Log(k)].data
      /\ \A k \in Nat : Log(k) \in dir'.names => Log(k) \in dir.names
      /\ \A u \in Nat : Table(u) \in dir.names /\ u # t =>
           Kept(file[Table(u)], file'[Table(u)])
      /\ recs # {} => file'[Table(t)].data = <<recs>> /\ file'[Table(t)].dur = 1
  <2>1. CASE recs = {}
    <3>1. UNCHANGED <<dir, ddir, file>>
      BY <2>1, <1>4
    <3>2. Quiet /\ \A k \in dir.names : Kept(file[k], file'[k])
      BY <3>1, KernelQuiet
    <3> QED
      BY <2>1, <3>1, <3>2 DEF Names
  <2>2. CASE recs # {}
    <3>1. SetDisk(Sync(Create(Disk, Table(t), <<recs>>), Table(t)))
      BY <2>2, <1>4
    <3>2. <<recs>> \in Seq(SUBSET Rec) /\ t >= 1 /\ t <= MaxNumber /\ Len(<<recs>>) = 1
      BY <1>0, <1>1, <1>3
    <3>3. Table(t) \in Name /\ FileOK(Table(t), [data |-> <<recs>>, dur |-> 0], writes)
      BY <1>1, <3>2, NewTableOK
    <3>4. NewName(Table(t))
      <4>1. ~(t < t)
        BY <1>1
      <4> QED
        BY <1>0, <4>1, NameIs DEF NewName
    <3>5. /\ Quiet /\ Others(Table(t)) /\ ddir' = dir'
          /\ dir'.names = dir.names \union {Table(t)} /\ dir'.current = dir.current
          /\ file'[Table(t)].data = <<recs>> /\ file'[Table(t)].dur = Len(<<recs>>)
      BY <3>1, <3>3, <3>4, CreateSyncQuiet
    <3> QED
      BY <1>1, <3>2, <3>5, OneTable
  <2> QED
    BY <2>1, <2>2
<1>9. /\ Whole' /\ DirsGood' /\ OldNumbers' /\ OldLogs' /\ Owing'
      /\ Kept(Current(file, dir), Current(file', dir'))
  BY <1>0, <1>1, <1>8, QuietDiskKeeps
<1> DEFINE m == Current(file, dir)
<1> DEFINE o == Current(file', dir')
<1>10. o.data = m.data /\ Len(m.data) \in Nat
  BY <1>1, <1>9, CurrentIs DEF Kept
<1>11. /\ Below(m.data, Len(m.data), t) /\ Below(m.data, Len(m.data), db.manifest)
       /\ \A u \in db.live \union db.add : u < t
       /\ \A k \in Nat : Log(k) \in Names => k < t \/ k \in db.todo
  BY <1>0 DEF DInv, Numbered
<1>12. \A u \in db'.add : u \in db.add \/ (u = t /\ recs # {})
  BY <1>5
<1>13. Reading'
  <2>1. /\ View(m, Len(m.data)) /\ db.live = LiveAt(m.data, Len(m.data))
        /\ db.minlog = LogNo(m.data, Len(m.data))
        /\ \A u \in db.add : Done(file[Table(u)])
        /\ \A k \in Nat : Log(k) \in dir.names /\ db.minlog <= k =>
             k \in db.todo \/ \A r \in Soft(file[Log(k)]) : InTables(file, db.add, r)
    BY <1>0 DEF DInv, Reading
  <2>2. View(o, Len(o.data))
    <3>1. Len(m.data) \in o.dur .. Len(m.data)
      BY <1>9 DEF Kept
    <3> QED
      BY <1>10, <2>1, <3>1 DEF View
  <2>3. \A u \in db.add : Done(file'[Table(u)]) /\ Recs(file'[Table(u)]) = Recs(file[Table(u)])
    <3>1. \A u \in db.add : u \in Nat /\ u # t /\ Table(u) \in dir.names
      BY <1>1, <1>11
    <3> QED
      BY <3>1, <1>8, <2>1, KeptIs
  <2>4. ASSUME recs # {}
        PROVE  Done(file'[Table(t)]) /\ Recs(file'[Table(t)]) = recs
    <3>1. Len(<<recs>>) = 1 /\ <<recs>>[1] = recs
      OBVIOUS
    <3>2. file'[Table(t)].data = <<recs>> /\ file'[Table(t)].dur = 1
      BY <1>8, <2>4
    <3> QED
      BY <3>1, <3>2 DEF Done, Recs
  <2>5. \A u \in db'.add : Done(file'[Table(u)])
    BY <1>12, <2>3, <2>4
  <2>6. \A r : InTables(file, db.add, r) => InTables(file', db'.add, r)
    BY <1>5, <2>3 DEF InTables
  <2>7. ASSUME NEW k \in Nat, Log(k) \in dir'.names, db.minlog <= k
        PROVE  k \in db'.todo \/ \A r \in Soft(file'[Log(k)]) : InTables(file', db'.add, r)
    <3>1. Log(k) \in dir.names /\ Soft(file'[Log(k)]) = Soft(file[Log(k)])
      BY <1>8, <2>7 DEF Soft, Names
    <3>2. CASE k = n
      BY <3>1, <3>2, <1>3, <1>5, <2>4 DEF InTables
    <3>3. CASE k # n
      BY <3>1, <3>3, <1>5, <2>1, <2>6, <2>7
    <3> QED
      BY <3>2, <3>3
  <2> QED
    BY <1>0, <1>5, <1>10, <2>1, <2>2, <2>5, <2>7 DEF Reading
<1>14. Numbered'
  <2>1. Below(m.data, Len(m.data), db'.next)
    <3>1. \A i \in 1 .. Len(m.data) :
            m.data[i].next \in Nat /\ m.data[i].log \in Nat /\ m.data[i].add \subseteq Nat
      <4>1. \A i \in 1 .. Len(m.data) : m.data[i] \in Edit
        BY <1>1, CurrentIs
      <4> QED
        BY <4>1 DEF Edit
    <3> QED
      BY <3>1, <1>11, <1>1, <1>6 DEF Below
  <2>2. \A u \in db'.live \union db'.add : u < db'.next
    BY <1>1, <1>5, <1>6, <1>11, <1>12
  <2>3. \A k \in Nat : Log(k) \in Names' => k < db'.next \/ k \in db'.todo
    BY <1>1, <1>2, <1>5, <1>6, <1>8, <1>11
  <2> QED
    BY <1>1, <1>5, <1>10, <1>11, <2>1, <2>2, <2>3 DEF Numbered
<1>15. Writing'
  BY <1>5 DEF Writing
<1>16. ~db'.hasImm => db'.imm = {}
  BY <1>5 DEF DInv, LogsFollow
<1>17. Silent
  BY <1>8, SameLogs DEF Silent
<1>18. \A u \in db'.add : \/ u \in db.add
                         \/ \E k \in db.todo : Recs(file'[Table(u)]) = Soft(file[Log(k)])
  <2>1. Len(<<recs>>) = 1 /\ <<recs>>[1] = recs
    OBVIOUS
  <2>2. recs # {} => Recs(file'[Table(t)]) = recs
    BY <1>8, <2>1 DEF Recs
  <2> QED
    BY <2>2, <1>2, <1>3, <1>12
<1> QED
  BY <1>17, <1>18, <1>7, <1>9, <1>13, <1>14, <1>15, <1>16, NotAliveKeeps

LEMMA RecoverLoses ==
  ASSUME IInv, IInv', DInv, Recover
  PROVE  DInv'
<1> DEFINE m == Current(file, dir)
<1> DEFINE es == m.data
<1> DEFINE N == Len(es)
<1>0. /\ ProcessTypeOK /\ db.st \in {"recover", "down"}
      /\ UNCHANGED <<dir, ddir, file, comp, wr, owed, synced>>
  BY DEF IInv, Recover
<1>1. dir.current # 0 /\ db.add = {} /\ comp'.pc = "idle"
  <2>1. comp = NoComp
    BY <1>0 DEF IInv, Resting
  <2> QED
    BY <1>0, <2>1, IdleOK DEF IInv, Recovering, Recover
<1>2. Quiet
  BY <1>0, KernelQuiet
<1>3. Whole' /\ DirsGood' /\ OldNumbers' /\ OldLogs' /\ Owing'
  <2>1. \A n \in Nat : Log(n) \in Names' =>
          Log(n) \in Names /\ file'[Log(n)].data = file[Log(n)].data
    BY <1>0 DEF Names
  <2> QED
    BY <1>0, <1>2, <2>1, QuietDiskKeeps
<1>4. CASE ~Openable(Disk)
  <2>1. db'.st = "corrupt" /\ db'.imm = db.imm /\ db'.hasImm = db.hasImm
    BY <1>0, <1>4 DEF Recover, ProcessTypeOK
  <2>2. ~Opening' /\ ~Alive' /\ db'.st # "newdb" /\ (~db'.hasImm => db'.imm = {})
    BY <2>1 DEF Opening, Alive, DInv, LogsFollow
  <2> QED
    BY <1>3, <2>2, AsideKeeps, NotAliveKeeps
<1>5. CASE Openable(Disk)
  <2> DEFINE x == es[Max(Full(es))]
  <2>1. /\ db'.st = "logs" /\ db'.imm = db.imm /\ db'.hasImm = db.hasImm
        /\ db'.minlog = x.log /\ db'.next = x.next + 1 /\ db'.manifest = x.next
        /\ db'.live = LiveOf(es) /\ db'.todo = LogsFrom(Disk, x.log) /\ db'.add = {}
    <3>1. db' = [db EXCEPT !.st = "logs", !.live = LiveOf(es),
                    !.manifest = x.next, !.next = x.next + 1, !.seq = x.seq,
                    !.minlog = x.log, !.todo = LogsFrom(Disk, x.log)]
      BY <1>5 DEF Recover, Current
    <3> HIDE DEF x, es
    <3> QED
      BY <1>0, <1>1, <3>1 DEF ProcessTypeOK
  <2>2. Opening' /\ ~Alive' /\ db'.st # "newdb" /\ (~db'.hasImm => db'.imm = {})
    BY <2>1 DEF Opening, Alive, DInv, LogsFollow
  <2>3. /\ es \in Seq(Edit) /\ N \in Nat /\ m.dur \in 0 .. N
        /\ \A i \in 1 .. N : es[i] \in Edit
    BY <1>1, CurrentIs
  <2>4. Full(es) = {i \in 1 .. N : Counts(es[i])}
    <3>1. DOMAIN es = 1 .. N
      BY <2>3
    <3> QED
      BY <3>1 DEF Full, Counts
  <2>5. \E i \in 1 .. N : Counts(es[i])
    <3>1. Full(es) # {}
      BY <1>5, DiskIs DEF Openable, Readable, Current
    <3> QED
      BY <2>4, <3>1
  <2>6. View(m, N)
    <3>1. N \in m.dur .. N
      BY <2>3
    <3> QED
      BY <2>5, <3>1 DEF View
  <2>7. x = es[Deciding(es, N)] /\ x.log = LogNo(es, N) /\ x.next = NextNo(es, N)
    BY <2>4 DEF Deciding, LogNo, NextNo
  <2>8. Deciding(es, N) \in 1 .. N
    BY <2>3, <2>5, DecidingIs
  <2>9. x \in Edit /\ x.log \in Nat /\ x.next \in Nat
    <3>1. x \in Edit
      BY <2>3, <2>7, <2>8
    <3> HIDE DEF x
    <3> QED
      BY <3>1 DEF Edit
  <2>10. Below(es, N, x.next)
    <3>1. NumbersOK(file, dir)
      BY DEF DInv, DirsGood
    <3> QED
      BY <3>1, <1>1, <2>3, <2>6, <2>7 DEF NumbersOK
  <2>11. x.log < x.next
    BY <2>7, <2>8, <2>10 DEF Below
  <2>12. LiveOf(es) = LiveAt(es, N)
    BY <2>3, LiveOfIs
  <2> HIDE DEF x
  <2>13. \A n \in Nat : Log(n) \in dir.names /\ x.log <= n => n \in LogsFrom(Disk, x.log)
    BY <2>9, DiskIs, NameIs DEF LogsFrom
  <2>14. Reading'
    BY <1>0, <2>1, <2>6, <2>7, <2>12, <2>13 DEF Reading
  <2>15. Numbered'
    <3>1. \A i \in 1 .. N :
            es[i].next \in Nat /\ es[i].log \in Nat /\ es[i].add \subseteq Nat
      BY <2>3 DEF Edit
    <3>2. Below(es, N, x.next + 1)
      BY <2>9, <2>10, <3>1 DEF Below
    <3>3. \A t \in LiveAt(es, N) : t < x.next + 1
      <4> SUFFICES ASSUME NEW t \in LiveAt(es, N)
                   PROVE  t < x.next + 1
        OBVIOUS
      <4>1. PICK i \in 1 .. N : t \in es[i].add
        BY DEF LiveAt
      <4>2. t < x.next + 1 /\ t \in Nat
        BY <3>1, <3>2, <4>1 DEF Below
      <4> QED
        BY <4>2
    <3>4. ASSUME NEW n \in Nat, Log(n) \in Names
          PROVE  n < x.next + 1 \/ n \in LogsFrom(Disk, x.log)
      <4>1. CASE Log(n) \in dir.names
        <5>1. CASE x.log <= n
          BY <4>1, <5>1, <2>13
        <5>2. CASE n < x.log
          BY <5>2, <2>9, <2>11
        <5> QED
          BY <5>1, <5>2, <2>9
      <4>2. CASE Log(n) \notin dir.names
        <5>1. Log(n) \in ddir.names
          BY <3>4, <4>2 DEF Names
        <5>2. n < LogNo(es, N)
          BY <4>2, <5>1, <2>3, <2>6 DEF DInv, OldLogs
        <5> QED
          BY <5>2, <2>7, <2>9, <2>11
      <4> QED
        BY <4>1, <4>2
    <3>5. Names' = Names
      BY <1>0 DEF Names
    <3> QED
      BY <1>0, <1>1, <2>1, <2>10, <2>12, <3>2, <3>3, <3>4, <3>5 DEF Numbered
  <2>16. Writing'
    BY <2>1 DEF Writing
  <2> QED
    BY <1>3, <2>2, <2>14, <2>15, <2>16, NotAliveKeeps
<1> QED
  BY <1>4, <1>5

\* CURRENT is switched to manifest n: the directory as it was stays behind.
LEMMA SwitchIs ==
  ASSUME IInv, Whole, DirsGood, OldNumbers, Numbered, NEW n, SetDisk(SetCurrentFile(Disk, n))
  PROVE  /\ dir'.names = dir.names /\ dir'.current = n /\ ddir' = dir
         /\ Names' = dir.names /\ \A x \in dir.names : file'[x] = file[x]
         /\ Whole' /\ OldLogs' /\ TablesDone(file', ddir') /\ NumbersOK(file', ddir')
         /\ \A r : Lasting(file, dir, r) => Lasting(file', ddir', r)
<1> DEFINE e == SetCurrentFile(Disk, n)
<1>1. /\ e.dir.names = dir.names /\ e.dir.current = n /\ e.ddir = dir /\ e.file = file
  BY DiskIs DEF SetCurrentFile, IInv, DiskInv, DiskOK, DirOK
<1>2. /\ dir' = e.dir /\ ddir' = e.ddir
      /\ \A x \in dir'.names \union ddir'.names : file'[x] = e.file[x]
  BY SetDiskIs
<1> HIDE DEF e
<1>3. /\ dir'.names = dir.names /\ dir'.current = n /\ ddir' = dir
      /\ Names' = dir.names /\ \A x \in dir.names : file'[x] = file[x]
  BY <1>1, <1>2 DEF Names
<1>4. \A x \in dir.names : Stays(x)
  BY <1>3, SameStays DEF Names
<1>5. /\ TablesDone(file', dir) /\ NumbersOK(file', dir)
      /\ \A r : Lasting(file, dir, r) => Lasting(file', dir, r)
  BY <1>4, QuietDir
<1>6. Whole'
  <2>1. \A k \in Nat : Log(k) \in Names' =>
          Log(k) \in Names /\ file'[Log(k)].data = file[Log(k)].data
    BY <1>3 DEF Names
  <2> QED
    BY <2>1, WholeKeeps
<1>7. OldLogs'
  BY <1>3 DEF OldLogs
<1> QED
  BY <1>3, <1>5, <1>6, <1>7

LEMMA NewDBCurrentLoses ==
  ASSUME IInv, IInv', DInv, NewDBCurrent
  PROVE  /\ DInv'
         /\ \A k \in Nat : View(Current(file', dir'), k) => LiveAt(Current(file', dir').data, k) = {}
<1> DEFINE m == file[Manifest(1)]
<1>0. /\ db.st = "newdb" /\ UNCHANGED <<owed, synced>> /\ SetDisk(SetCurrentFile(Disk, 1))
      /\ db'.st = "recover" /\ db'.imm = db.imm /\ db'.hasImm = db.hasImm
  BY DEF NewDBCurrent, IInv, ProcessTypeOK
<1>1. /\ dir.current = 0 /\ Manifest(1) \in dir.names
      /\ Len(m.data) = 1 /\ m.data[1].next # 0 /\ m.data[1].add = {} /\ m.data[1].log = 0
  BY <1>0 DEF IInv, Created, DInv, Writing
<1>2. /\ dir'.names = dir.names /\ dir'.current = 1 /\ ddir' = dir
      /\ \A x \in dir.names : file'[x] = file[x]
      /\ Whole' /\ OldLogs' /\ TablesDone(file', ddir') /\ NumbersOK(file', ddir')
  BY <1>0, SwitchIs DEF DInv
<1>3. Current(file', dir') = m
  BY <1>1, <1>2 DEF Current
<1>4. m.dur \in Nat /\ m.data[1].next \in Nat
  <2>1. m.data \in Seq(Edit) /\ m.dur \in 0 .. Len(m.data)
    BY <1>1, FilesAre, NameIs DEF IInv, FileOK
  <2>2. m.data[1] \in Edit
    BY <1>1, <2>1
  <2>3. m.data[1].next \in Nat
    BY <2>2 DEF Edit
  <2> QED
    BY <1>1, <2>1, <2>3
<1>5. ASSUME NEW k \in Nat, View(m, k)
      PROVE  k = 1 /\ LiveAt(m.data, k) = {} /\ NextNo(m.data, k) = m.data[1].next
  <2>1. PICK i \in 1 .. k : Counts(m.data[i])
    BY <1>5 DEF View
  <2>2. k = 1
    BY <1>1, <1>4, <1>5, <2>1 DEF View
  <2>3. Deciding(m.data, k) \in 1 .. k
    BY <2>1, DecidingIs
  <2>4. Deciding(m.data, k) = 1
    BY <2>2, <2>3
  <2>5. \A j \in 1 .. k : j = 1
    BY <2>2
  <2> QED
    BY <1>1, <2>2, <2>4, <2>5 DEF LiveAt, NextNo
<1>6. TablesDone(file', dir')
  BY <1>3, <1>5 DEF TablesDone
<1>7. NumbersOK(file', dir')
  <2> SUFFICES ASSUME NEW k \in Nat, View(m, k)
               PROVE  Below(m.data, k, NextNo(m.data, k))
    BY <1>3 DEF NumbersOK
  <2>1. \A j \in 1 .. k : j = 1
    BY <1>5
  <2> QED
    BY <1>1, <1>4, <1>5, <2>1 DEF Below
<1>8. OldNumbers'
  BY <1>1, <1>2 DEF OldNumbers
<1>9. Owing'
  <2>1. owed = {} /\ synced = {}
    BY <1>1 DEF IInv, AcksBehindInstall, CountsOK
  <2> QED
    BY <1>0, <2>1 DEF Owing
<1>10. ~Opening' /\ ~Alive' /\ db'.st # "newdb" /\ (~db'.hasImm => db'.imm = {})
  BY <1>0 DEF Opening, Alive, DInv, LogsFollow
<1>11. \A k \in Nat : View(Current(file', dir'), k) => LiveAt(Current(file', dir').data, k) = {}
  BY <1>3, <1>5
<1> QED
  BY <1>11, <1>2, <1>6, <1>7, <1>8, <1>9, <1>10, AsideKeeps, NotAliveKeeps DEF DirsGood

\* What lasts is shown.
LEMMA LastingShows ==
  ASSUME IInv, NEW D, D = dir \/ D = ddir, D.current # 0,
         View(Current(file, D), Len(Current(file, D).data)), NEW r, Lasting(file, D, r)
  PROVE  Shown(file, D, r)
<1> DEFINE m == Current(file, D)
<1>1. Len(m.data) \in Nat
  BY CurrentIs
<1>2. Keeps(file, D, LiveAt(m.data, Len(m.data)), LogNo(m.data, Len(m.data)), r)
  BY <1>1 DEF Lasting
<1>3. \A n \in Nat : Log(n) \in D.names => Hard(file[Log(n)]) \subseteq Soft(file[Log(n)])
  <2> SUFFICES ASSUME NEW n \in Nat, Log(n) \in D.names
               PROVE  Hard(file[Log(n)]) \subseteq Soft(file[Log(n)])
    OBVIOUS
  <2>1. file[Log(n)].dur \in 0 .. Len(file[Log(n)].data) /\ Len(file[Log(n)].data) \in Nat
    BY FilesAre DEF IInv
  <2> QED
    BY <2>1 DEF Hard, Soft
<1> QED
  BY <1>2, <1>3 DEF Keeps, Shows, Shown

\* The one view of the new manifest.
LEMMA NewManifest ==
  ASSUME IInv, Writing, db.st = "current"
  PROVE  LET m == file[Manifest(db.manifest)]
         IN /\ Manifest(db.manifest) \in dir.names /\ Len(m.data) = 2
            /\ View(m, 2) /\ (\A k \in Nat : View(m, k) => k = 2)
            /\ LiveAt(m.data, 2) = db.live \union db.add
            /\ LogNo(m.data, 2) = db.log /\ NextNo(m.data, 2) = db.next
            /\ m.data[1].next = 0 /\ m.data[1].log = 0 /\ m.data[1].add = db.live
            /\ m.data[2].next = db.next /\ m.data[2].log = db.log /\ m.data[2].add = db.add
<1> DEFINE m == file[Manifest(db.manifest)]
<1> DEFINE es == m.data
<1>1. /\ Manifest(db.manifest) \in dir.names /\ Len(es) = 2 /\ m.dur = 2
      /\ es[1].add = db.live /\ es[2].add = db.add /\ es[2].full /\ es[2].next # 0
  BY DEF IInv, Installing
<1>2. /\ es[1].next = 0 /\ es[1].log = 0 /\ es[2].del = {}
      /\ es[2].log = db.log /\ es[2].next = db.next
  BY DEF Writing
<1> HIDE DEF m, es
<1>3. Counts(es[2]) /\ 2 \in 1 .. 2
  BY <1>1 DEF Counts
<1>4. Deciding(es, 2) = 2
  <2>1. Deciding(es, 1 + 1) = 1 + 1
    BY <1>3, OneMoreEdit
  <2> QED
    BY <2>1
<1>5. View(m, 2) /\ \A k \in Nat : View(m, k) => k = 2
  <2>1. \A k \in Nat : k \in m.dur .. Len(m.data) <=> k = 2
    BY <1>1 DEF es
  <2> QED
    BY <1>3, <2>1 DEF View, es
<1>6. LiveAt(es, 2) = db.live \union db.add
  <2>1. db.live \subseteq Nat /\ db.add \subseteq Nat
    BY DEF IInv, ProcessTypeOK
  <2>2. \A t \in Nat : t \in es[2].add => t \in LiveAt(es, 2)
    <3>1. \A j \in 2 + 1 .. 2 : FALSE
      OBVIOUS
    <3> QED
      BY <1>3, <3>1 DEF LiveAt
  <2>3. \A t \in Nat : t \in es[1].add => t \in LiveAt(es, 2)
    <3>1. (\A j \in 1 + 1 .. 2 : j = 2) /\ 1 \in 1 .. 2
      OBVIOUS
    <3> QED
      BY <1>2, <3>1 DEF LiveAt
  <2>4. ASSUME NEW t \in LiveAt(es, 2)
        PROVE  t \in es[1].add \union es[2].add
    <3>1. PICK i \in 1 .. 2 : t \in es[i].add
      BY DEF LiveAt
    <3>2. i = 1 \/ i = 2
      BY <3>1
    <3> QED
      BY <3>1, <3>2
  <2> QED
    BY <1>1, <2>1, <2>2, <2>3, <2>4
<1> QED
  BY <1>1, <1>2, <1>4, <1>5, <1>6 DEF LogNo, NextNo, m, es

LEMMA OpenInstallLoses ==
  ASSUME IInv, IInv', DInv, OpenInstall
  PROVE  DInv' /\ \A r : Shown(file, dir, r) => Shown(file', dir', r)
<1> DEFINE m == file[Manifest(db.manifest)]
<1> DEFINE es == m.data
<1> DEFINE old == Current(file, dir)
<1> DEFINE N == Len(old.data)
<1> DEFINE live == db.live \union db.add
<1>0. /\ ProcessTypeOK /\ db.st = "current" /\ Opening
      /\ UNCHANGED <<bg, comp, wr, owed, synced>>
      /\ SetDisk(SetCurrentFile(Disk, db.manifest))
      /\ db'.st = "gc" /\ db'.imm = db.imm /\ db'.hasImm = db.hasImm
      /\ db'.log = db.log /\ db'.minlog = db.log /\ db'.next = db.next
      /\ db'.live = live /\ db'.add = {} /\ db'.todo = db.todo
  BY DEF OpenInstall, IInv, ProcessTypeOK, Opening
<1>1. /\ dir.current # 0 /\ dir.current \in Nat /\ dir.current < db.manifest
      /\ db.manifest \in Nat /\ db.log \in Nat /\ db.next \in Nat /\ db.manifest # 0
      /\ live \subseteq Nat /\ Log(db.log) \in dir.names
      /\ \A t \in live : Table(t) \in dir.names
      /\ bg = IdleBg /\ comp = NoComp /\ wr = IdleWr
  BY <1>0, OpeningFacts
<1>2. /\ dir'.names = dir.names /\ dir'.current = db.manifest /\ ddir' = dir
      /\ Names' = dir.names /\ \A x \in dir.names : file'[x] = file[x]
      /\ Whole' /\ OldLogs' /\ TablesDone(file', ddir') /\ NumbersOK(file', ddir')
      /\ \A r : Lasting(file, dir, r) => Lasting(file', ddir', r)
  BY <1>0, SwitchIs DEF DInv
<1>3. /\ Manifest(db.manifest) \in dir.names /\ Len(es) = 2
      /\ View(m, 2) /\ (\A k \in Nat : View(m, k) => k = 2)
      /\ LiveAt(es, 2) = live /\ LogNo(es, 2) = db.log /\ NextNo(es, 2) = db.next
      /\ es[1].next = 0 /\ es[1].log = 0 /\ es[1].add = db.live
      /\ es[2].next = db.next /\ es[2].log = db.log /\ es[2].add = db.add
  BY <1>0, NewManifest DEF DInv
<1>4. Current(file', dir') = m
  BY <1>2, <1>3 DEF Current
<1> HIDE DEF m, es
<1>5. /\ View(old, N) /\ N \in Nat /\ db.live = LiveAt(old.data, N)
      /\ db.minlog = LogNo(old.data, N) /\ (\A t \in db.add : Done(file[Table(t)]))
      /\ (\A n \in Nat : Log(n) \in dir.names /\ db.minlog <= n =>
            \A r \in Soft(file[Log(n)]) : InTables(file, db.add, r))
      /\ file[Log(db.log)].data = << >>
  BY <1>0, <1>1, CurrentIs DEF DInv, Reading
<1>6. \A t \in live : Done(file'[Table(t)]) /\ Recs(file'[Table(t)]) = Recs(file[Table(t)])
  <2>1. \A t \in db.live : Done(file[Table(t)])
    BY <1>1, <1>5, ViewTables DEF DInv
  <2> QED
    BY <2>1, <1>1, <1>2, <1>5
<1>7. TablesDone(file', dir')
  BY <1>3, <1>4, <1>6 DEF TablesDone, es
<1>8. /\ Below(old.data, N, db.manifest) /\ \A t \in live : t < db.next
      /\ \A n \in Nat : Log(n) \in Names => n <= db.log
  BY <1>0 DEF DInv, Numbered
<1>9. Below(es, 2, db.next)
  <2>1. \A i \in 1 .. 2 : i = 1 \/ i = 2
    OBVIOUS
  <2>2. db.log < db.next /\ db.next # 0
    BY <1>0, <1>1 DEF IInv, Recovering
  <2> QED
    BY <1>1, <1>3, <1>8, <2>1, <2>2 DEF Below
<1>10. NumbersOK(file', dir')
  BY <1>3, <1>4, <1>9 DEF NumbersOK, es
<1>11. OldNumbers'
  <2>1. Current(file', ddir') = old
    BY <1>1, <1>2, CurrentIs DEF Current
  <2> QED
    BY <1>2, <1>8, <2>1 DEF OldNumbers
<1>12. ASSUME NEW r, Shown(file, dir, r)
       PROVE  Shown(file', dir', r) /\ Lasting(file', dir', r)
  <2>1. Shows(file, dir, db.live, db.minlog, r)
    BY <1>5, <1>12 DEF Shown
  <2>2. InTables(file, live, r)
    BY <2>1, <1>5 DEF Shows, InTables
  <2>3. InTables(file', live, r)
    BY <2>2, <1>6 DEF InTables
  <2>4. Shows(file', dir', live, LogNo(es, 2), r) /\ Keeps(file', dir', live, LogNo(es, 2), r)
    BY <2>3 DEF Shows, Keeps
  <2>5. Shown(file', dir', r)
    BY <2>4, <1>1, <1>2, <1>3, <1>4 DEF Shown, es
  <2>6. Lasting(file', dir', r)
    BY <2>4, <1>3, <1>4 DEF Lasting, es
  <2> QED
    BY <2>5, <2>6
<1>13. Owing'
  <2>1. \A i \in owed : \E r \in Rec : r.id = i /\ Shown(file', dir', r)
    BY <1>12 DEF DInv, Owing
  <2>2. \A r : Lasting(file, dir, r) => Lasting(file', dir', r)
    BY <1>1, <1>5, <1>12, LastingShows
  <2>3. \A i \in synced : \E r \in Rec :
          r.id = i /\ Lasting(file', dir', r) /\ Lasting(file', ddir', r)
    BY <1>2, <2>2 DEF DInv, Owing
  <2> QED
    BY <1>0, <2>1, <2>3 DEF Owing
<1>14. wr'.pc = "idle" /\ comp'.pc = "idle" /\ bg'.pc = "idle"
  BY <1>0, <1>1, IdleOK
<1>15. Pended'
  BY <1>14 DEF Pended
<1>16. Numbered'
  <2>1. \A n \in Nat : Log(n) \in Names' => n <= db.log /\ n < db.next
    <3>1. db.log < db.next
      BY <1>0 DEF IInv, Recovering
    <3> QED
      BY <3>1, <1>1, <1>2, <1>8 DEF Names
  <2> QED
    BY <1>0, <1>3, <1>4, <1>8, <1>9, <1>14, <2>1 DEF Numbered, Opening, es
<1>17. Reading' /\ Writing'
  BY <1>0 DEF Reading, Writing, Opening
<1>18. LogsFollow'
  <2>1. Soft(file'[Log(db.log)]) = {}
    BY <1>1, <1>2, <1>5 DEF Soft
  <2>2. \A k \in Nat : View(Current(file', dir'), k) =>
          db'.minlog <= LogNo(Current(file', dir').data, k)
          /\ LogNo(Current(file', dir').data, k) <= db'.log
    BY <1>0, <1>1, <1>3, <1>4 DEF es
  <2>3. \A n \in Nat : ~(db'.minlog <= n /\ n < db'.log)
    BY <1>0, <1>1
  <2> QED
    BY <1>0, <1>2, <2>1, <2>2, <2>3 DEF LogsFollow, DInv
<1>19. TablesFollow'
  BY <1>0, <1>6 DEF TablesFollow
<1>20. CompactionFollows' /\ FlushFollows' /\ EditFollows'
  BY <1>14 DEF CompactionFollows, FlushFollows, EditFollows
<1> QED
  BY <1>12, <1>2, <1>7, <1>10, <1>11, <1>13, <1>15, <1>16, <1>17, <1>18, <1>19, <1>20
     DEF DInv, DirsGood

-----------------------------------------------------------------------------
(* The version: what is deleted, and what is installed *)

\* A file goes that no view of the current manifest needs.
LEMMA DeleteObsoleteFileLoses ==
  ASSUME IInv, DInv, DeleteObsoleteFile
  PROVE  DInv' /\ Fewer /\ Retained
<1> DEFINE m == Current(file, dir)
<1> DEFINE N == Len(m.data)
<1>0. /\ ProcessTypeOK /\ UNCHANGED <<db, bg, comp, wr, owed, synced>>
      /\ db.st = "gc" \/ bg.pc = "gc"
  BY DEF IInv, DeleteObsoleteFile, Collecting
<1>1. Alive /\ Alive' /\ bg.pc \in {"idle", "gc"} /\ db.st # "logs"
  <2>1. db.st \in {"gc", "open"} /\ bg.pc \in {"idle", "gc"}
    BY <1>0, IdleOK DEF IInv, Resting
  <2> QED
    BY <2>1, <1>0 DEF Alive
<1>2. PICK nm \in Obsolete : SetDisk(DeleteFile(Disk, nm))
  BY DEF DeleteObsoleteFile
<1>3. /\ ~db.err /\ nm \in dir.names
      /\ \/ nm[1] = "log" /\ nm[2] < db.minlog
         \/ nm[1] = "manifest" /\ nm[2] < db.manifest
         \/ nm[1] = "table" /\ nm[2] \notin db.live \union db.pins \union Pending
  BY <1>2 DEF Obsolete
<1>4. /\ dir.current # 0 /\ dir.current = db.manifest /\ db.manifest \in Nat
      /\ Log(db.log) \in dir.names /\ Manifest(db.manifest) \in dir.names
      /\ db.minlog <= db.log /\ db.minlog \in Nat /\ db.log \in Nat /\ db.next \in Nat
      /\ db.live \subseteq Nat /\ comp.out \in Nat
      /\ \A t \in db.live : Table(t) \in dir.names
      /\ comp.in \subseteq db.live
      /\ comp.pc # "idle" => Table(comp.out) \in dir.names
  BY <1>0, <1>1, AliveIs, BoundsAssumption DEF ProcessTypeOK
<1>5. /\ nm # Manifest(db.manifest)
      /\ \A n \in Nat : db.minlog <= n => nm # Log(n)
      /\ \A t \in db.live : Table(t) # nm
      /\ comp.pc # "idle" => Table(comp.out) # nm
  BY <1>3, <1>4, NameIs DEF Pending
<1>6. m.dur = N /\ LiveAt(m.data, N) \subseteq db.live /\ N \in Nat
  BY <1>1, <1>3, <1>4, CurrentIs DEF IInv, Registering, Registered, Current, Alive
<1>7. \A k \in Nat : View(m, k) => k = N
  BY <1>6 DEF View
<1>8. /\ dir'.names = dir.names \ {nm} /\ dir'.current = dir.current /\ ddir' = ddir
      /\ \A n \in dir'.names \union ddir.names : file'[n] = file[n]
  <2> DEFINE e == DeleteFile(Disk, nm)
  <2>1. /\ e.dir.names = dir.names \ {nm} /\ e.dir.current = dir.current
        /\ e.ddir = ddir /\ e.file = file
    BY DiskIs DEF DeleteFile, IInv, DiskInv, DiskOK, DirOK
  <2>2. /\ dir' = e.dir /\ ddir' = e.ddir
        /\ \A x \in dir'.names \union ddir'.names : file'[x] = e.file[x]
    BY <1>2, SetDiskIs
  <2> HIDE DEF e
  <2> QED
    BY <2>1, <2>2
<1>9. /\ \A n \in Names' : n \in Names /\ Kept(file[n], file'[n])
      /\ \A n \in dir.names : n # nm => n \in dir'.names
  BY <1>8, SameStays DEF Names
<1>10. LogsFollow /\ \A k \in Nat : View(m, k) =>
         /\ db.minlog <= LogNo(m.data, k) /\ LogNo(m.data, k) <= db.log /\ LogNo(m.data, k) \in Nat
  <2>1. LogsFollow /\ \A k \in Nat : View(m, k) =>
          /\ db.minlog <= LogNo(m.data, k) /\ LogNo(m.data, k) <= db.log
    BY <1>1 DEF DInv, LogsFollow
  <2>2. ASSUME NEW k \in Nat, View(m, k)
        PROVE  LogNo(m.data, k) \in Nat
    <3>1. Deciding(m.data, k) \in 1 .. k
      BY <2>2, DecidingIs DEF View
    <3>2. m.data[Deciding(m.data, k)] \in Edit
      BY <3>1, <2>2, <1>4, <1>7, CurrentIs
    <3> QED
      BY <3>2 DEF LogNo, Edit
  <2> QED
    BY <2>1, <2>2
<1>11. Kept(m, Current(file', dir'))
  <2>1. Manifest(dir.current) \in dir'.names
    BY <1>4, <1>5, <1>9
  <2> QED
    BY <2>1, <1>8, <1>9 DEF Current, Names
<1>12. /\ TablesDone(file', dir') /\ NumbersOK(file', dir')
       /\ \A r : Lasting(file, dir, r) => Lasting(file', dir', r)
       /\ \A r : Shown(file, dir, r) => Shown(file', dir', r)
  <2>1. ASSUME NEW k \in Nat, View(m, k)
        PROVE  /\ \A t \in LiveAt(m.data, k) : Kept(file[Table(t)], file'[Table(t)])
               /\ \A n \in Nat : Log(n) \in dir.names /\ LogNo(m.data, k) <= n =>
                    /\ Log(n) \in dir'.names
                    /\ Soft(file[Log(n)]) \subseteq Soft(file'[Log(n)])
                    /\ Hard(file[Log(n)]) \subseteq Hard(file'[Log(n)])
    <3>1. ASSUME NEW t \in LiveAt(m.data, k)
          PROVE  Kept(file[Table(t)], file'[Table(t)])
      <4>1. Table(t) \in dir'.names
        BY <2>1, <3>1, <1>4, <1>5, <1>6, <1>7, <1>9
      <4> QED
        BY <4>1, <1>9 DEF Names
    <3>2. ASSUME NEW n \in Nat, Log(n) \in dir.names, LogNo(m.data, k) <= n
          PROVE  Log(n) \in dir'.names
      <4>1. db.minlog <= n
        BY <2>1, <3>2, <1>4, <1>10
      <4> QED
        BY <4>1, <3>2, <1>5, <1>9
    <3> QED
      BY <3>1, <3>2, <1>8
  <2>2. TablesDone(file, dir) /\ NumbersOK(file, dir)
    BY DEF DInv, DirsGood
  <2> QED
    BY <2>1, <2>2, <1>8, <1>11, DirFrame
<1>13. /\ TablesDone(file', ddir') /\ NumbersOK(file', ddir')
       /\ \A r : Lasting(file, ddir, r) => Lasting(file', ddir', r)
       /\ ddir.current # 0 => Current(file', ddir') = Current(file, ddir)
  <2>1. \A n \in ddir.names : Stays(n)
    BY <1>8, SameStays DEF Names
  <2>2. ddir.current # 0 => Current(file', ddir') = Current(file, ddir)
    BY <1>8, CurrentIs DEF Current
  <2> QED
    BY <2>1, <2>2, <1>8, QuietDir DEF DInv
<1>14. OldNumbers'
  BY <1>8, <1>13 DEF DInv, OldNumbers
<1>15. /\ Current(file', dir').data = m.data
       /\ \A k : View(Current(file', dir'), k) => View(m, k)
  BY <1>11, KeptIs DEF Kept
<1>16. OldLogs'
  <2> SUFFICES ASSUME NEW n \in Nat, Log(n) \in ddir.names, Log(n) \notin dir'.names,
                      NEW k \in Nat, View(m, k)
               PROVE  n < LogNo(m.data, k)
    BY <1>4, <1>8, <1>15 DEF OldLogs
  <2>1. CASE Log(n) \notin dir.names
    BY <2>1 DEF DInv, OldLogs
  <2>2. CASE Log(n) \in dir.names
    <3>1. nm = Log(n)
      BY <2>2, <1>9
    <3>2. ~(db.minlog <= n)
      BY <3>1, <1>5
    <3> QED
      BY <3>2, <1>4, <1>10
  <2> QED
    BY <2>1, <2>2
<1>17. Retained
  BY <1>12, <1>13 DEF Retained
<1>18. Owing'
  BY <1>0, <1>17, OwingKeeps DEF DInv
<1>19. Soft(file'[Log(db.log)]) = Soft(file[Log(db.log)])
  <2>1. Log(db.log) \in dir'.names
    BY <1>4, <1>5, <1>9
  <2> QED
    BY <2>1, <1>8
<1>20. Pended'
  BY <1>0, <1>17, <1>19, PendedKeeps DEF DInv
<1>21. Whole'
  <2>1. \A n \in Nat : Log(n) \in Names' =>
          Log(n) \in Names /\ file'[Log(n)].data = file[Log(n)].data
    BY <1>9 DEF Kept
  <2> QED
    BY <2>1, WholeKeeps DEF DInv
<1>22. Numbered'
  <2>1. \A n \in Nat : Log(n) \in Names' => Log(n) \in Names
    BY <1>9
  <2>2. \/ comp'.out = comp.out /\ comp.pc # "idle"
        \/ comp'.pc = "idle"
    BY <1>0
  <2>3. db.next <= db'.next /\ db'.next \in Nat
    BY <1>0, <1>4
  <2> QED
    BY <1>0, <1>1, <1>8, <1>11, <2>1, <2>2, <2>3, NumberedKeeps DEF DInv
<1>23. Reading' /\ Writing'
  BY <1>0, <1>1 DEF Reading, Writing, Opening, Alive
<1>24. LogsFollow'
  <2>1. \A n \in Nat : Log(n) \in ddir.names /\ Log(n) \notin dir'.names => n < db.minlog
    <3> SUFFICES ASSUME NEW n \in Nat, Log(n) \in ddir.names, Log(n) \notin dir'.names
                 PROVE  n < db.minlog
      OBVIOUS
    <3>1. CASE Log(n) \notin dir.names
      BY <3>1, <1>1, <1>10 DEF LogsFollow
    <3>2. CASE Log(n) \in dir.names
      <4>1. nm = Log(n)
        BY <3>2, <1>9
      <4> QED
        BY <4>1, <1>4, <1>5
    <3> QED
      BY <3>1, <3>2
  <2>2. \A n \in Nat : Log(n) \in dir'.names /\ db.minlog <= n /\ n < db.log =>
          Soft(file'[Log(n)]) \subseteq db.imm
    <3>1. \A n \in Nat : Log(n) \in dir'.names => file'[Log(n)] = file[Log(n)] /\ Log(n) \in dir.names
      BY <1>8
    <3> QED
      BY <3>1, <1>1, <1>10 DEF LogsFollow
  <2>3. /\ ~db.hasImm => db.imm = {}
        /\ ~db.err => Soft(file[Log(db.log)]) \subseteq
                        db.mem \union (IF wr.pc = "idle" THEN {} ELSE {wr.rec})
    BY <1>1, <1>10 DEF LogsFollow
  <2>4. \A k \in Nat : View(Current(file', dir'), k) =>
          /\ db.minlog <= LogNo(Current(file', dir').data, k)
          /\ LogNo(Current(file', dir').data, k) <= db.log
    BY <1>10, <1>15
  <2> QED
    BY <1>0, <1>8, <1>19, <2>1, <2>2, <2>3, <2>4 DEF LogsFollow
<1>25. \A t \in db.live : Kept(file[Table(t)], file'[Table(t)])
  <2>1. \A t \in db.live : Table(t) \in dir'.names
    BY <1>4, <1>5, <1>9
  <2> QED
    BY <2>1, <1>9 DEF Names
<1>26. TablesFollow'
  BY <1>0, <1>1, <1>25, KeptIs DEF TablesFollow, DInv
<1>27. CompactionFollows'
  <2>1. comp.pc # "idle" => Kept(file[Table(comp.out)], file'[Table(comp.out)])
    BY <1>4, <1>5, <1>9 DEF Names
  <2>2. comp.pc = "open" => file'[Table(comp.out)].data = << >>
    BY <1>1, <2>1 DEF Kept, DInv, CompactionFollows
  <2>3. ASSUME comp.pc = "done"
        PROVE  /\ Done(file'[Table(comp.out)])
               /\ \A t \in comp.in : Recs(file'[Table(t)]) \subseteq Recs(file'[Table(comp.out)])
    <3>1. /\ Done(file[Table(comp.out)])
          /\ \A t \in comp.in : Recs(file[Table(t)]) \subseteq Recs(file[Table(comp.out)])
      BY <1>1, <2>3 DEF DInv, CompactionFollows
    <3>2. Kept(file[Table(comp.out)], file'[Table(comp.out)])
      BY <2>1, <2>3
    <3>3. \A t \in comp.in : Recs(file'[Table(t)]) = Recs(file[Table(t)])
      BY <1>4, <1>25, KeptIs
    <3> QED
      BY <3>1, <3>2, <3>3, KeptIs
  <2> QED
    BY <1>0, <2>2, <2>3 DEF CompactionFollows
<1>28. FlushFollows' /\ EditFollows'
  BY <1>0, <1>1 DEF FlushFollows, EditFollows
<1>29. Fewer
  BY <1>8, <1>9 DEF Fewer, Names
<1> QED
  BY <1>29, <1>17, <1>12, <1>13, <1>14, <1>16, <1>18, <1>20, <1>21, <1>22, <1>23, <1>24, <1>26, <1>27, <1>28
     DEF DInv, DirsGood

\* The last edit of a synced manifest is the one that counts.
LEMMA LastEditCounts ==
  ASSUME NEW es, NEW N \in Nat, N # 0, Counts(es[N])
  PROVE  Deciding(es, N) = N /\ \A t \in Nat : t \in es[N].add => t \in LiveAt(es, N)
<1> DEFINE k == N - 1
<1>1. k \in Nat /\ k + 1 = N
  OBVIOUS
<1> HIDE DEF k
<1>2. /\ Counts(es[k + 1]) => Deciding(es, k + 1) = k + 1
      /\ \A t \in Nat : t \in es[k + 1].add => t \in LiveAt(es, k + 1)
  BY <1>1, OneMoreEdit
<1> QED
  BY <1>1, <1>2

LEMMA InstallVersionLoses ==
  ASSUME IInv, DInv, InstallVersion
  PROVE  DInv'
<1> DEFINE m == Current(file, dir)
<1> DEFINE es == m.data
<1> DEFINE N == Len(es)
<1>0. /\ ProcessTypeOK /\ db.st = "open" /\ Alive /\ bg.pc = "synced"
      /\ UNCHANGED <<dir, ddir, file, wr, owed, synced>> /\ bg' = [bg EXCEPT !.pc = "gc"]
  BY DEF IInv, InstallVersion, Running, Alive
<1>1. /\ db'.st = db.st /\ db'.log = db.log /\ db'.next = db.next /\ db'.add = db.add
      /\ db'.mem = db.mem /\ db'.err = db.err /\ db'.minlog = bg.edit.log
      /\ db'.live = (db.live \ bg.edit.del) \union bg.edit.add
      /\ bg.edit.del = {} => db'.hasImm = FALSE /\ db'.imm = {} /\ comp' = comp
      /\ bg.edit.del # {} => /\ db'.hasImm = db.hasImm /\ db'.imm = db.imm
                             /\ comp' = NoComp
      /\ bg'.pc = "gc"
  BY <1>0 DEF InstallVersion, ProcessTypeOK
<1>2. Alive' /\ db.next \in Nat /\ db.log \in Nat /\ db.minlog \in Nat /\ db.minlog <= db.log
      /\ dir.current # 0 /\ bg.edit.add \subseteq Nat
  <2>1. bg.edit.add \subseteq Nat
    BY <1>0 DEF ProcessTypeOK, Edit
  <2> QED
    BY <1>0, <1>1, <2>1, AliveIs DEF Alive
<1>3. /\ es[N] = bg.edit /\ Counts(es[N]) /\ m.dur = N
      /\ bg.edit.del = {} => db.hasImm /\ bg.edit.log = db.log
      /\ bg.edit.del # {} => bg.edit.log = db.minlog
  BY <1>0 DEF DInv, EditFollows, Counts
<1>4. N \in Nat /\ N # 0 /\ View(m, N)
  <2>1. N \in Nat /\ View(m, N)
    BY <1>0, <1>2, AliveView, CurrentIs
  <2> QED
    BY <2>1 DEF View
<1>5. Deciding(es, N) = N /\ \A t \in Nat : t \in es[N].add => t \in LiveAt(es, N)
  <2> HIDE DEF N
  <2> QED
    BY <1>3, <1>4, LastEditCounts
<1>6. LogNo(es, N) = bg.edit.log
  BY <1>3, <1>5 DEF LogNo
<1>7. \A k \in Nat : View(m, k) => k = N
  BY <1>3, <1>4 DEF View
<1>8. \A t \in bg.edit.add : t \in Nat /\ Done(file[Table(t)]) /\ t < db.next
  <2> SUFFICES ASSUME NEW t \in bg.edit.add
               PROVE  t \in Nat /\ Done(file[Table(t)]) /\ t < db.next
    OBVIOUS
  <2>1. t \in Nat /\ t \in LiveAt(es, N)
    BY <1>2, <1>3, <1>5
  <2> QED
    BY <2>1, <1>0, <1>2, <1>4, ViewTables DEF DInv
<1>9. Quiet /\ \A n \in dir.names : Kept(file[n], file'[n])
  BY <1>0, KernelQuiet
<1>10. Whole' /\ DirsGood' /\ OldNumbers' /\ OldLogs' /\ Owing' /\ Retained
       /\ Kept(m, Current(file', dir'))
  <2>1. \A n \in Nat : Log(n) \in Names' =>
          Log(n) \in Names /\ file'[Log(n)].data = file[Log(n)].data
    BY <1>0 DEF Names
  <2> QED
    BY <1>0, <1>2, <1>9, <2>1, QuietDiskKeeps
<1>11. Pended'
  BY <1>0, <1>1, <1>10, PendedKeeps DEF DInv
<1>12. Numbered'
  <2>1. /\ Below(es, N, db.next) /\ (\A t \in db.live \union db.add : t < db.next)
        /\ (\A n \in Nat : Log(n) \in Names => n < db.next \/ n \in db.todo)
        /\ (\A n \in Nat : Log(n) \in Names => n <= db.log)
        /\ comp.pc # "idle" => comp.out < db.next
    BY <1>0 DEF DInv, Numbered
  <2>2. \A n \in Nat : Log(n) \in Names' => n <= db.log /\ n < db.next
    <3>1. db.log < db.next
      BY <1>0, AliveIs
    <3> QED
      BY <3>1, <2>1, <1>0, <1>2 DEF Names
  <2>3. \A t \in db'.live \union db'.add : t < db.next
    BY <1>1, <1>8, <2>1
  <2>4. comp'.pc # "idle" => comp'.out < db.next
    BY <1>1, <2>1, IdleOK
  <2> QED
    BY <1>0, <1>1, <2>1, <2>2, <2>3, <2>4 DEF Numbered, Opening
<1>13. Reading' /\ Writing'
  BY <1>0, <1>1 DEF Reading, Writing, Opening
<1>14. LogsFollow'
  <2>1. /\ (\A n \in Nat : Log(n) \in ddir.names /\ Log(n) \notin dir.names => n < db.minlog)
        /\ (\A n \in Nat : Log(n) \in dir.names /\ db.minlog <= n /\ n < db.log =>
              Soft(file[Log(n)]) \subseteq db.imm)
        /\ ~db.hasImm => db.imm = {}
        /\ ~db.err => Soft(file[Log(db.log)]) \subseteq
                        db.mem \union (IF wr.pc = "idle" THEN {} ELSE {wr.rec})
    BY <1>0 DEF DInv, LogsFollow
  <2>2. db.minlog <= db'.minlog /\ db'.minlog \in Nat /\ db'.minlog <= db.log
    BY <1>1, <1>2, <1>3
  <2>3. \A k \in Nat : View(m, k) =>
          db'.minlog <= LogNo(es, k) /\ LogNo(es, k) <= db.log
    BY <1>1, <1>6, <1>7, <2>2
  <2>4. \A n \in Nat : Log(n) \in ddir.names /\ Log(n) \notin dir.names => n < db'.minlog
    BY <1>2, <2>1, <2>2
  <2>5. \A n \in Nat : Log(n) \in dir.names /\ db'.minlog <= n /\ n < db.log =>
          Soft(file[Log(n)]) \subseteq db'.imm
    <3>1. CASE bg.edit.del = {}
      BY <3>1, <1>1, <1>2, <1>3
    <3>2. CASE bg.edit.del # {}
      BY <3>2, <1>1, <1>3, <2>1
    <3> QED
      BY <3>1, <3>2
  <2>6. ~db'.hasImm => db'.imm = {}
    BY <1>1, <2>1
  <2>7. /\ Current(file', dir') = m /\ dir' = dir /\ ddir' = ddir /\ file' = file /\ wr' = wr
        /\ db'.log = db.log /\ db'.mem = db.mem /\ db'.err = db.err
    BY <1>0, <1>1 DEF Current
  <2>8. ~db'.err => Soft(file'[Log(db'.log)]) \subseteq
                      db'.mem \union (IF wr'.pc = "idle" THEN {} ELSE {wr'.rec})
    BY <2>1, <2>7
  <2>9. \A k \in Nat : View(Current(file', dir'), k) =>
          db'.minlog <= LogNo(Current(file', dir').data, k)
          /\ LogNo(Current(file', dir').data, k) <= db'.log
    BY <2>3, <2>7
  <2>10. \A n \in Nat : Log(n) \in dir'.names /\ db'.minlog <= n /\ n < db'.log =>
           Soft(file'[Log(n)]) \subseteq db'.imm
    BY <2>5, <2>7
  <2>11. \A n \in Nat : Log(n) \in ddir'.names /\ Log(n) \notin dir'.names => n < db'.minlog
    BY <2>4, <2>7
  <2> QED
    BY <2>6, <2>8, <2>9, <2>10, <2>11 DEF LogsFollow
<1>15. TablesFollow'
  <2>1. \A t \in db.live : Done(file[Table(t)])
    BY <1>0 DEF DInv, TablesFollow
  <2> QED
    BY <1>0, <1>1, <1>8, <2>1 DEF TablesFollow
<1>16. CompactionFollows'
  <2>1. comp' = comp \/ comp'.pc = "idle"
    BY <1>1, IdleOK
  <2>2. \A t \in Nat : Table(t) \in dir.names /\ t < db.next =>
          Kept(file[Table(t)], file'[Table(t)])
    BY <1>9
  <2>3. db.next <= db'.next /\ db'.next \in Nat
    BY <1>1, <1>2
  <2> QED
    BY <1>0, <2>1, <2>2, <2>3, TablesFollowKeeps DEF DInv
<1>17. FlushFollows' /\ EditFollows'
  BY <1>1 DEF FlushFollows, EditFollows
<1> QED
  BY <1>10, <1>11, <1>12, <1>13, <1>14, <1>15, <1>16, <1>17 DEF DInv

-----------------------------------------------------------------------------
(* The edits that go to the manifest *)

(* Edit x goes to the end of the current manifest. *)
Appended(x) ==
  /\ dir' = dir /\ ddir' = ddir
  /\ \A n \in Names : n # Manifest(dir.current) => file'[n] = file[n]
  /\ Current(file', dir).data = Append(Current(file, dir).data, x)
  /\ Current(file', dir).dur = Current(file, dir).dur

(* One more edit leaves out no table or log whose records are not in       *)
(* another table that stays.                                               *)
Covers(es, fs, k) ==
  /\ \A r : InTables(file, LiveAt(es, k), r) => InTables(file, LiveAt(fs, k + 1), r)
  /\ \A n \in Nat : Log(n) \in Names /\ LogNo(es, k) <= n /\ n < LogNo(fs, k + 1) =>
       \A r \in Soft(file[Log(n)]) : InTables(file, LiveAt(fs, k + 1), r)

(* Edit x may follow the edits es. *)
Fits(es, x) ==
  LET N == Len(es)
      fs == Append(es, x)
  IN /\ x \in Edit /\ \A t \in x.add : Table(t) \in dir.names /\ Done(file[Table(t)])
     /\ Below(fs, N + 1, NextNo(fs, N + 1)) /\ Below(fs, N + 1, db.next)
     /\ db.minlog <= LogNo(fs, N + 1) /\ LogNo(fs, N + 1) <= db.log
     /\ Covers(es, fs, N)

LEMMA AppendedIs ==
  ASSUME IInv, Alive, NEW x, SetDisk(AddRecord(Disk, Manifest(db.manifest), x))
  PROVE  Appended(x)
<1> DEFINE name == Manifest(db.manifest)
           e == AddRecord(Disk, name, x)
<1>1. /\ DiskOK(Disk, writes) /\ DOMAIN file = Names /\ name \in Names
      /\ dir.current = db.manifest
  BY AliveIs DEF IInv, DiskInv, Names
<1> HIDE DEF name
<1>2. /\ e.dir = dir /\ e.ddir = ddir
      /\ e.file[name].data = Append(file[name].data, x)
      /\ e.file[name].dur = file[name].dur
      /\ \A n \in Names : n # name => e.file[n] = file[n]
  BY <1>1, AddRecordIs, DiskIs
<1>3. SetDisk(e)
  BY DEF name
<1> HIDE DEF e
<1>4. /\ dir' = e.dir /\ ddir' = e.ddir
      /\ \A n \in dir'.names \union ddir'.names : file'[n] = e.file[n]
  BY <1>3, SetDiskIs
<1>5. dir' = dir /\ ddir' = ddir /\ \A n \in Names : file'[n] = e.file[n]
  BY <1>2, <1>4 DEF Names
<1>6. Manifest(dir.current) = name
  BY <1>1 DEF name
<1> QED
  BY <1>1, <1>2, <1>5, <1>6 DEF Appended, Current

LEMMA EditAdded ==
  ASSUME NEW es \in Seq(Edit), NEW x \in Edit
  PROVE  LET N == Len(es)
             fs == Append(es, x)
         IN /\ N \in Nat /\ Len(fs) = N + 1 /\ fs[N + 1] = x
            /\ \A i \in 1 .. N : fs[i] = es[i]
            /\ \A k \in Nat : k <= N =>
                 /\ LiveAt(fs, k) = LiveAt(es, k)
                 /\ (\E i \in 1 .. k : Counts(es[i])) <=> (\E i \in 1 .. k : Counts(fs[i]))
                 /\ (\E i \in 1 .. k : Counts(es[i])) =>
                      LogNo(fs, k) = LogNo(es, k) /\ NextNo(fs, k) = NextNo(es, k)
                 /\ \A b : Below(es, k, b) <=> Below(fs, k, b)
            /\ LiveAt(fs, N + 1) \subseteq (LiveAt(es, N) \ x.del) \union x.add
            /\ (LiveAt(es, N) \ x.del) \union x.add \subseteq LiveAt(fs, N + 1)
<1> DEFINE N == Len(es)
           fs == Append(es, x)
<1>1. /\ N \in Nat /\ Len(fs) = N + 1 /\ fs[N + 1] = x
      /\ \A i \in 1 .. N : fs[i] = es[i]
  BY AppendProperties, LenProperties
<1>2. LiveAt(fs, N + 1) \subseteq (LiveAt(es, N) \ x.del) \union x.add
  BY LiveAtAppend
<1>3. x.add \subseteq Nat
  BY DEF Edit
<1> HIDE DEF N, fs
<1>4. ASSUME NEW k \in Nat, k <= N
      PROVE  /\ LiveAt(es, k) = LiveAt(fs, k)
             /\ (\E i \in 1 .. k : Counts(es[i])) <=> (\E i \in 1 .. k : Counts(fs[i]))
             /\ (\E i \in 1 .. k : Counts(es[i])) =>
                  LogNo(es, k) = LogNo(fs, k) /\ NextNo(es, k) = NextNo(fs, k)
             /\ \A b : Below(es, k, b) <=> Below(fs, k, b)
  <2>1. \A i \in 1 .. k : es[i] = fs[i]
    BY <1>1, <1>4
  <2> QED
    BY <2>1, SameEdits
<1>5. (LiveAt(es, N) \ x.del) \union x.add \subseteq LiveAt(fs, N + 1)
  <2>1. LiveAt(fs, N) = LiveAt(es, N)
    BY <1>1, <1>4
  <2>2. /\ \A t \in LiveAt(fs, N) : t \notin fs[N + 1].del => t \in LiveAt(fs, N + 1)
        /\ \A t \in Nat : t \in fs[N + 1].add => t \in LiveAt(fs, N + 1)
    BY <1>1, OneMoreEdit
  <2> QED
    BY <2>1, <2>2, <1>1, <1>3
<1> QED
  BY <1>1, <1>2, <1>4, <1>5 DEF N, fs

\* A directory with one more edit in its manifest.
LEMMA EditOneDir ==
  ASSUME IInv, DirsGood, Alive, NEW D, D = dir \/ D = ddir, NEW x, Appended(x),
         Fits(Current(file, dir).data, x)
  PROVE  /\ TablesDone(file', D) /\ NumbersOK(file', D)
         /\ \A r : Lasting(file, D, r) => Lasting(file', D, r)
         /\ \A r : Shown(file, D, r) => Shown(file', D, r)
<1> DEFINE m == Current(file, dir)
           o == Current(file', dir)
           es == m.data
           fs == Append(es, x)
           N == Len(es)
<1>0. TablesDone(file, D) /\ NumbersOK(file, D) /\ D.names \subseteq Names
  BY DEF DirsGood, Names
<1>1. /\ \A t : Table(t) \in Names => file'[Table(t)] = file[Table(t)]
      /\ \A n : Log(n) \in Names => file'[Log(n)] = file[Log(n)]
  <2>1. \A n : Log(n) # Manifest(dir.current) /\ Table(n) # Manifest(dir.current)
    BY DEF Log, Table, Manifest
  <2> QED
    BY <2>1 DEF Appended
<1>2. CASE D.current = 0
  BY <1>2 DEF TablesDone, NumbersOK, Lasting, Shown
<1>3. CASE D.current # 0 /\ D.current # dir.current
  <2>1. Manifest(D.current) \in Names /\ Manifest(D.current) # Manifest(dir.current)
    <3>1. Manifest(D.current) \in D.names
      BY <1>3, CurrentIs
    <3> QED
      BY <1>0, <1>3, <3>1 DEF Manifest
  <2>2. file'[Manifest(D.current)] = file[Manifest(D.current)]
    BY <2>1 DEF Appended
  <2>3. Kept(Current(file, D), Current(file', D))
    BY <2>1, <2>2, SameStays DEF Current
  <2>4. \A k \in Nat : View(Current(file, D), k) =>
          \A t \in LiveAt(Current(file, D).data, k) : Kept(file[Table(t)], file'[Table(t)])
    <3> SUFFICES ASSUME NEW k \in Nat, View(Current(file, D), k),
                        NEW t \in LiveAt(Current(file, D).data, k)
                 PROVE  Kept(file[Table(t)], file'[Table(t)])
      OBVIOUS
    <3>1. TablesThere(D, Current(file, D))
      BY <1>3, CurrentIs
    <3>2. Table(t) \in D.names
      BY <3>1 DEF View, TablesThere
    <3> QED
      BY <1>0, <1>1, <3>2, SameStays
  <2>5. \A n \in Nat : Log(n) \in D.names =>
          /\ Soft(file[Log(n)]) \subseteq Soft(file'[Log(n)])
          /\ Hard(file[Log(n)]) \subseteq Hard(file'[Log(n)])
    BY <1>0, <1>1
  <2>6. /\ TablesDone(file, D) => TablesDone(file', D)
        /\ NumbersOK(file, D) => NumbersOK(file', D)
        /\ \A r : Lasting(file, D, r) => Lasting(file', D, r)
        /\ \A r : Shown(file, D, r) => Shown(file', D, r)
    BY <2>3, <2>4, <2>5, DirFrame
  <2> QED
    BY <1>0, <2>6
<1>4. CASE D.current # 0 /\ D.current = dir.current
  <2>0. Current(file, D) = m /\ Current(file', D) = o
    BY <1>4 DEF Current
  <2>1. es \in Seq(Edit) /\ x \in Edit /\ m.dur \in 0 .. N /\ View(m, N) /\ TablesThere(D, m)
    <3>1. View(m, N)
      BY AliveView
    <3> QED
      BY <1>4, <2>0, <3>1, CurrentIs DEF Fits
  <2>2. o.data = fs /\ o.dur = m.dur
    BY DEF Appended
  <2>3. /\ N \in Nat /\ Len(fs) = N + 1 /\ fs[N + 1] = x
        /\ \A i \in 1 .. N : fs[i] = es[i]
        /\ \A k \in Nat : k <= N =>
             /\ LiveAt(fs, k) = LiveAt(es, k)
             /\ (\E i \in 1 .. k : Counts(es[i])) <=> (\E i \in 1 .. k : Counts(fs[i]))
             /\ (\E i \in 1 .. k : Counts(es[i])) =>
                  LogNo(fs, k) = LogNo(es, k) /\ NextNo(fs, k) = NextNo(es, k)
             /\ \A b : Below(es, k, b) <=> Below(fs, k, b)
        /\ LiveAt(fs, N + 1) \subseteq (LiveAt(es, N) \ x.del) \union x.add
        /\ (LiveAt(es, N) \ x.del) \union x.add \subseteq LiveAt(fs, N + 1)
    BY <2>1, EditAdded
  <2>4. /\ \A t \in x.add : Done(file[Table(t)])
        /\ Below(fs, N + 1, NextNo(fs, N + 1)) /\ Covers(es, fs, N)
    BY DEF Fits
  <2> HIDE DEF m, o, es, fs, N
  <2>5. ASSUME NEW k \in Nat, View(o, k)
        PROVE  k = N + 1 \/ (k <= N /\ View(m, k))
    <3>1. k \in m.dur .. N + 1
      BY <2>2, <2>3, <2>5 DEF View
    <3>2. CASE k <= N
      <4>1. k \in m.dur .. Len(m.data)
        BY <2>1, <2>3, <3>1, <3>2 DEF N, es
      <4>2. \E i \in 1 .. k : Counts(o.data[i])
        BY <2>5 DEF View
      <4>3. \E i \in 1 .. k : Counts(m.data[i])
        BY <2>2, <2>3, <3>2, <4>2 DEF es
      <4> QED
        BY <3>2, <4>1, <4>3 DEF View
    <3> QED
      BY <2>1, <2>3, <3>1, <3>2
  <2>6. \A k \in Nat : View(m, k) => \E i \in 1 .. k : Counts(es[i])
    BY DEF View, es
  <2>7. \A t \in LiveAt(es, N) : Done(file[Table(t)])
    BY <1>0, <1>4, <2>0, <2>1, <2>3 DEF TablesDone, es
  <2>8. \A k \in Nat : View(m, k) => \A t \in LiveAt(es, k) : Table(t) \in Names
    BY <1>0, <2>1 DEF View, TablesThere, es
  <2>9. \A t \in LiveAt(fs, N + 1) : Done(file[Table(t)]) /\ Table(t) \in Names
    <3>1. \A t \in x.add : Done(file[Table(t)]) /\ Table(t) \in Names
      BY DEF Fits, Names
    <3>2. \A t \in LiveAt(es, N) : Done(file[Table(t)]) /\ Table(t) \in Names
      BY <2>1, <2>3, <2>7, <2>8
    <3> QED
      BY <2>3, <3>1, <3>2
  <2>10. TablesDone(file', D)
    <3> SUFFICES ASSUME NEW k \in Nat, View(o, k), NEW t \in LiveAt(fs, k)
                 PROVE  Done(file'[Table(t)])
      BY <2>0, <2>2 DEF TablesDone
    <3>1. CASE k = N + 1
      BY <3>1, <2>9, <1>1
    <3>2. CASE k <= N /\ View(m, k)
      <4>1. t \in LiveAt(es, k)
        BY <2>3, <3>2
      <4>2. Done(file[Table(t)])
        BY <1>0, <1>4, <2>0, <3>2, <4>1 DEF TablesDone, es
      <4>3. Table(t) \in Names
        BY <2>8, <3>2, <4>1
      <4> QED
        BY <4>2, <4>3, <1>1
    <3> QED
      BY <2>5, <3>1, <3>2
  <2>11. NumbersOK(file', D)
    <3> SUFFICES ASSUME NEW k \in Nat, View(o, k)
                 PROVE  Below(fs, k, NextNo(fs, k))
      BY <2>0, <2>2 DEF NumbersOK
    <3>1. CASE k = N + 1
      BY <3>1, <2>4
    <3>2. CASE k <= N /\ View(m, k)
      <4>1. Below(es, k, NextNo(es, k))
        BY <1>0, <1>4, <2>0, <3>2 DEF NumbersOK, es
      <4>2. NextNo(fs, k) = NextNo(es, k)
        BY <2>3, <2>6, <3>2
      <4> QED
        BY <4>1, <4>2, <2>3, <3>2
    <3> QED
      BY <2>5, <3>1, <3>2
  <2>12. \A k \in Nat : \A r : InTables(file, LiveAt(es, k), r) /\ View(m, k) =>
           InTables(file', LiveAt(es, k), r)
    BY <2>8, <1>1 DEF InTables
  <2>13. \A r : InTables(file, LiveAt(fs, N + 1), r) => InTables(file', LiveAt(fs, N + 1), r)
    BY <2>9, <1>1 DEF InTables
  <2>14. \A n \in Nat : Log(n) \in D.names =>
           /\ Soft(file'[Log(n)]) = Soft(file[Log(n)])
           /\ Hard(file'[Log(n)]) = Hard(file[Log(n)])
           /\ Hard(file[Log(n)]) \subseteq Soft(file[Log(n)])
    <3> SUFFICES ASSUME NEW n \in Nat, Log(n) \in D.names
                 PROVE  /\ file'[Log(n)] = file[Log(n)]
                        /\ Hard(file[Log(n)]) \subseteq Soft(file[Log(n)])
      OBVIOUS
    <3>1. file[Log(n)].dur \in 0 .. Len(file[Log(n)].data) /\ Len(file[Log(n)].data) \in Nat
      BY <1>0, FilesAre DEF IInv, Names
    <3>2. file'[Log(n)] = file[Log(n)]
      BY <1>0, <1>1
    <3> QED
      BY <3>1, <3>2 DEF Hard, Soft
  <2>15. LogNo(es, N) \in Nat /\ LogNo(fs, N + 1) \in Nat
    <3>1. \A i \in 1 .. N : es[i] \in Edit
      BY <2>1, <2>3, ElementOfSeq DEF N
    <3>2. \A i \in 1 .. N + 1 : fs[i] \in Edit
      <4> SUFFICES ASSUME NEW i \in 1 .. N + 1
                   PROVE  fs[i] \in Edit
        OBVIOUS
      <4>1. CASE i = N + 1
        BY <4>1, <2>1, <2>3
      <4>2. CASE i # N + 1
        <5>1. i \in 1 .. N
          BY <4>2, <2>3
        <5> QED
          BY <5>1, <3>1, <2>3
      <4> QED
        BY <4>1, <4>2
    <3>3. (\E i \in 1 .. N : Counts(es[i])) /\ (\E i \in 1 .. N + 1 : Counts(fs[i]))
      <4>1. PICK i \in 1 .. N : Counts(es[i])
        BY <2>1, <2>3, <2>6
      <4>2. i \in 1 .. N + 1 /\ fs[i] = es[i]
        BY <2>3
      <4> QED
        BY <4>1, <4>2
    <3>4. Deciding(es, N) \in 1 .. N
      BY <2>3, <3>3, DecidingIs
    <3>5. Deciding(fs, N + 1) \in 1 .. N + 1
      <4>1. N + 1 \in Nat
        BY <2>3
      <4> QED
        BY <3>3, <4>1, DecidingIs
    <3>6. \A y \in Edit : y.log \in Nat
      BY DEF Edit
    <3> QED
      BY <3>1, <3>2, <3>4, <3>5, <3>6 DEF LogNo
  <2>16. /\ \A r : InTables(file, LiveAt(es, N), r) => InTables(file, LiveAt(fs, N + 1), r)
         /\ \A n \in Nat : Log(n) \in D.names /\ LogNo(es, N) <= n =>
              \/ LogNo(fs, N + 1) <= n
              \/ \A r \in Soft(file[Log(n)]) : InTables(file, LiveAt(fs, N + 1), r)
    BY <1>0, <2>4, <2>15 DEF Covers
  <2>17. ASSUME NEW r, Keeps(file, D, LiveAt(es, N), LogNo(es, N), r)
         PROVE  Keeps(file', D, LiveAt(fs, N + 1), LogNo(fs, N + 1), r)
    <3>1. CASE InTables(file, LiveAt(es, N), r)
      BY <3>1, <2>13, <2>16 DEF Keeps
    <3>2. CASE \E n \in Nat : Log(n) \in D.names /\ LogNo(es, N) <= n /\ r \in Hard(file[Log(n)])
      <4>1. PICK n \in Nat : Log(n) \in D.names /\ LogNo(es, N) <= n /\ r \in Hard(file[Log(n)])
        BY <3>2
      <4>2. r \in Hard(file'[Log(n)]) /\ r \in Soft(file[Log(n)])
        BY <4>1, <2>14
      <4>3. LogNo(fs, N + 1) <= n \/ InTables(file, LiveAt(fs, N + 1), r)
        BY <4>1, <4>2, <2>16
      <4> QED
        BY <4>1, <4>2, <4>3, <2>13 DEF Keeps
    <3> QED
      BY <2>17, <3>1, <3>2 DEF Keeps
  <2>18. ASSUME NEW r, Shows(file, D, LiveAt(es, N), LogNo(es, N), r)
         PROVE  Shows(file', D, LiveAt(fs, N + 1), LogNo(fs, N + 1), r)
    <3>1. CASE InTables(file, LiveAt(es, N), r)
      BY <3>1, <2>13, <2>16 DEF Shows
    <3>2. CASE \E n \in Nat : Log(n) \in D.names /\ LogNo(es, N) <= n /\ r \in Soft(file[Log(n)])
      <4>1. PICK n \in Nat : Log(n) \in D.names /\ LogNo(es, N) <= n /\ r \in Soft(file[Log(n)])
        BY <3>2
      <4>2. r \in Soft(file'[Log(n)])
        BY <4>1, <2>14
      <4>3. LogNo(fs, N + 1) <= n \/ InTables(file, LiveAt(fs, N + 1), r)
        BY <4>1, <2>16
      <4> QED
        BY <4>1, <4>2, <4>3, <2>13 DEF Shows
    <3> QED
      BY <2>18, <3>1, <3>2 DEF Shows
  <2>19. ASSUME NEW r, Lasting(file, D, r)
         PROVE  Lasting(file', D, r)
    <3> SUFFICES ASSUME NEW k \in Nat, View(o, k)
                 PROVE  Keeps(file', D, LiveAt(fs, k), LogNo(fs, k), r)
      BY <2>0, <2>2 DEF Lasting
    <3>1. \A j \in Nat : View(m, j) => Keeps(file, D, LiveAt(es, j), LogNo(es, j), r)
      BY <2>19, <1>4, <2>0 DEF Lasting, es
    <3>2. CASE k = N + 1
      BY <3>1, <3>2, <2>1, <2>3, <2>17
    <3>3. CASE k <= N /\ View(m, k)
      <4>1. LiveAt(fs, k) = LiveAt(es, k) /\ LogNo(fs, k) = LogNo(es, k)
        BY <2>3, <2>6, <3>3
      <4> QED
        BY <4>1, <3>1, <3>3, <2>12, <2>14 DEF Keeps
    <3> QED
      BY <2>5, <3>2, <3>3
  <2>20. ASSUME NEW r, Shown(file, D, r)
         PROVE  Shown(file', D, r)
    <3>1. Shows(file, D, LiveAt(es, N), LogNo(es, N), r)
      BY <2>20, <2>0 DEF Shown, es, N
    <3>2. Shows(file', D, LiveAt(fs, N + 1), LogNo(fs, N + 1), r)
      BY <3>1, <2>18
    <3>3. Len(o.data) = N + 1
      BY <2>2, <2>3
    <3>4. View(o, N + 1)
      <4>1. N + 1 \in o.dur .. Len(o.data)
        BY <2>1, <2>2, <2>3, <3>3
      <4>2. PICK i \in 1 .. N : Counts(es[i])
        BY <2>1, <2>3, <2>6
      <4>3. i \in 1 .. N + 1 /\ Counts(o.data[i])
        BY <4>2, <2>2, <2>3
      <4> QED
        BY <4>1, <4>3 DEF View
    <3> QED
      BY <1>4, <2>0, <2>2, <3>2, <3>3, <3>4 DEF Shown
  <2> QED
    BY <2>10, <2>11, <2>19, <2>20
<1> QED
  BY <1>2, <1>3, <1>4

\* A step of the running process that appends an edit.
LEMMA AppendedKeeps ==
  ASSUME IInv, DInv, Alive, Alive', NEW x, Appended(x), Fits(Current(file, dir).data, x),
         db'.minlog = db.minlog, db'.log = db.log, db'.mem = db.mem,
         db'.imm = db.imm, db'.hasImm = db.hasImm,
         db'.next = db.next, db'.live = db.live, db'.add = db.add,
         ~db'.err => ~db.err, wr' = wr, owed' = owed, synced' = synced,
         comp' = comp \/ comp'.pc = "idle", bg'.pc # "built"
  PROVE  /\ Whole' /\ DirsGood' /\ OldNumbers' /\ OldLogs' /\ Owing' /\ Pended'
         /\ Numbered' /\ Reading' /\ Writing' /\ LogsFollow'
         /\ TablesFollow' /\ CompactionFollows' /\ FlushFollows'
<1> DEFINE m == Current(file, dir)
           o == Current(file', dir)
           es == m.data
           fs == Append(es, x)
           N == Len(es)
<1>0. /\ Whole /\ DirsGood /\ OldNumbers /\ OldLogs /\ Owing /\ Pended /\ Numbered
      /\ LogsFollow /\ TablesFollow /\ CompactionFollows /\ FlushFollows
      /\ dir' = dir /\ ddir' = ddir
  BY DEF DInv, Appended
<1>1. /\ \A t : Table(t) \in Names => file'[Table(t)] = file[Table(t)]
      /\ \A n : Log(n) \in Names => file'[Log(n)] = file[Log(n)]
  <2>1. \A n : Log(n) # Manifest(dir.current) /\ Table(n) # Manifest(dir.current)
    BY DEF Log, Table, Manifest
  <2> QED
    BY <2>1 DEF Appended
<1>2. /\ TablesDone(file', dir) /\ NumbersOK(file', dir)
      /\ \A r : Lasting(file, dir, r) => Lasting(file', dir, r)
      /\ \A r : Shown(file, dir, r) => Shown(file', dir, r)
  BY <1>0, EditOneDir
<1>3. /\ TablesDone(file', ddir) /\ NumbersOK(file', ddir)
      /\ \A r : Lasting(file, ddir, r) => Lasting(file', ddir, r)
  BY <1>0, EditOneDir
<1>4. DirsGood' /\ Retained
  BY <1>0, <1>2, <1>3 DEF DirsGood, Retained
<1>5. Owing'
  BY <1>0, <1>4, OwingKeeps
<1>6. /\ dir.current # 0 /\ Log(db.log) \in dir.names /\ dir.current \in Nat
      /\ db.next \in Nat /\ db.minlog \in Nat /\ db.log \in Nat
  BY AliveIs, FilesAre DEF IInv
<1>7. Pended'
  <2>1. Soft(file[Log(db.log)]) \subseteq Soft(file'[Log(db.log)])
    BY <1>1, <1>6 DEF Names
  <2> QED
    BY <1>0, <1>4, <2>1, PendedKeeps
<1>8. Whole'
  <2>1. \A n \in Nat : Log(n) \in Names' =>
          Log(n) \in Names /\ file'[Log(n)].data = file[Log(n)].data
    BY <1>0, <1>1 DEF Names
  <2> QED
    BY <1>0, <2>1, WholeKeeps
<1>9. OldNumbers'
  <2> SUFFICES ASSUME ddir.current # 0, ddir.current < dir.current
               PROVE  Below(Current(file', ddir).data, Len(Current(file', ddir).data),
                            dir.current)
    BY <1>0 DEF OldNumbers
  <2>1. Manifest(ddir.current) \in ddir.names /\ ddir.current \in Nat
    BY CurrentIs, FilesAre DEF IInv
  <2>2. Manifest(ddir.current) # Manifest(dir.current)
    BY <1>6, <2>1 DEF Manifest
  <2>3. Current(file', ddir) = Current(file, ddir)
    BY <2>1, <2>2 DEF Appended, Current, Names
  <2> QED
    BY <1>0, <2>3 DEF OldNumbers
<1>10. /\ es \in Seq(Edit) /\ x \in Edit /\ N \in Nat /\ View(m, N)
       /\ m.dur \in 0 .. N /\ o.data = fs /\ o.dur = m.dur
  <2>1. View(m, N)
    BY AliveView
  <2> QED
    BY <1>6, <2>1, CurrentIs DEF Fits, Appended
<1>11. /\ Len(fs) = N + 1
       /\ \A i \in 1 .. N : fs[i] = es[i]
       /\ \A k \in Nat : k <= N /\
            (\E i \in 1 .. k : Counts(es[i])) => LogNo(fs, k) = LogNo(es, k)
  BY <1>10, EditAdded
<1>12. /\ Below(fs, N + 1, db.next)
       /\ db.minlog <= LogNo(fs, N + 1) /\ LogNo(fs, N + 1) <= db.log
  BY DEF Fits
<1> HIDE DEF m, o, es, fs, N
<1>13. ASSUME NEW k \in Nat, View(o, k)
       PROVE  \/ k = N + 1
              \/ View(m, k) /\ LogNo(fs, k) = LogNo(es, k)
  <2>1. k \in m.dur .. N + 1
    BY <1>10, <1>11, <1>13 DEF View
  <2>2. CASE k <= N
    <3>1. k \in m.dur .. Len(m.data)
      BY <1>10, <2>1, <2>2 DEF N, es
    <3>2. \E i \in 1 .. k : Counts(o.data[i])
      BY <1>13 DEF View
    <3>3. \E i \in 1 .. k : Counts(es[i])
      BY <1>10, <1>11, <2>2, <3>2
    <3>4. View(m, k)
      BY <3>1, <3>3 DEF View, es
    <3> QED
      BY <2>2, <3>3, <3>4, <1>11
  <2> QED
    BY <1>10, <2>1, <2>2
<1>14. LogsFollow'
  <2>1. /\ (\A n \in Nat : Log(n) \in ddir.names /\ Log(n) \notin dir.names => n < db.minlog)
        /\ (\A n \in Nat : Log(n) \in dir.names /\ db.minlog <= n /\ n < db.log =>
              Soft(file[Log(n)]) \subseteq db.imm)
        /\ ~db.hasImm => db.imm = {}
        /\ ~db.err => Soft(file[Log(db.log)]) \subseteq
                        db.mem \union (IF wr.pc = "idle" THEN {} ELSE {wr.rec})
        /\ \A k \in Nat : View(m, k) => db.minlog <= LogNo(es, k) /\ LogNo(es, k) <= db.log
    BY <1>0 DEF LogsFollow, m, es
  <2>2. \A k \in Nat : View(o, k) =>
          db.minlog <= LogNo(fs, k) /\ LogNo(fs, k) <= db.log
    BY <2>1, <1>12, <1>13
  <2>3. \A n \in Nat : Log(n) \in dir.names /\ db.minlog <= n /\ n < db.log =>
          Soft(file'[Log(n)]) \subseteq db.imm
    BY <2>1, <1>1 DEF Names
  <2>4. Soft(file'[Log(db.log)]) = Soft(file[Log(db.log)])
    BY <1>1, <1>6 DEF Names
  <2>5. ~db'.err => Soft(file'[Log(db.log)]) \subseteq
                      db.mem \union (IF wr.pc = "idle" THEN {} ELSE {wr.rec})
    BY <2>1, <2>4
  <2>6. \A k \in Nat : View(Current(file', dir'), k) =>
          db'.minlog <= LogNo(Current(file', dir').data, k)
          /\ LogNo(Current(file', dir').data, k) <= db'.log
    BY <1>0, <1>10, <2>2 DEF o
  <2>7. ~db'.err => Soft(file'[Log(db'.log)]) \subseteq
                      db'.mem \union (IF wr'.pc = "idle" THEN {} ELSE {wr'.rec})
    BY <2>5
  <2>8. ~db'.hasImm => db'.imm = {}
    BY <2>1
  <2>9. /\ \A n \in Nat : Log(n) \in ddir'.names /\ Log(n) \notin dir'.names => n < db'.minlog
        /\ \A n \in Nat : Log(n) \in dir'.names /\ db'.minlog <= n /\ n < db'.log =>
             Soft(file'[Log(n)]) \subseteq db'.imm
    BY <1>0, <2>1, <2>3
  <2> QED
    BY <2>6, <2>7, <2>8, <2>9 DEF LogsFollow
<1>15. OldLogs'
  <2> SUFFICES ASSUME NEW n \in Nat, Log(n) \in ddir.names, Log(n) \notin dir.names
               PROVE  \A k \in Nat : View(o, k) => n < LogNo(fs, k)
    BY <1>0, <1>6, <1>10 DEF OldLogs, o
  <2>1. \A k \in Nat : View(m, k) => n < LogNo(es, k)
    BY <1>0 DEF OldLogs, m, es
  <2>2. n < db.minlog
    BY <1>0 DEF LogsFollow
  <2>3. n < LogNo(fs, N + 1)
    <3>1. LogNo(fs, N + 1) \in Nat
      <4>1. \A i \in 1 .. N + 1 : fs[i] \in Edit
        <5>1. fs \in Seq(Edit)
          BY <1>10 DEF fs
        <5> QED
          BY <5>1, <1>11, ElementOfSeq
      <4>2. \E i \in 1 .. N + 1 : Counts(fs[i])
        <5>1. PICK i \in 1 .. N : Counts(es[i])
          BY <1>10 DEF View, es
        <5>2. i \in 1 .. N + 1 /\ fs[i] = es[i]
          BY <1>10, <1>11
        <5> QED
          BY <5>1, <5>2
      <4>3. Deciding(fs, N + 1) \in 1 .. N + 1
        <5>1. N + 1 \in Nat
          BY <1>10
        <5> QED
          BY <4>2, <5>1, DecidingIs
      <4>4. \A y \in Edit : y.log \in Nat
        BY DEF Edit
      <4> QED
        BY <4>1, <4>3, <4>4 DEF LogNo
    <3> QED
      BY <2>2, <3>1, <1>6, <1>12
  <2> QED
    BY <2>1, <2>3, <1>13
<1>16. Numbered'
  <2>1. /\ \A t \in db.live \union db.add : t < db.next
        /\ \A n \in Nat : Log(n) \in Names => n < db.next \/ n \in db.todo
        /\ \A n \in Nat : Log(n) \in Names => n <= db.log
        /\ comp.pc # "idle" => comp.out < db.next
    BY <1>0 DEF Numbered, Alive
  <2>2. \A n \in Nat : Log(n) \in Names' => n < db.next /\ n <= db.log
    <3>1. db.log < db.next
      BY AliveIs
    <3> QED
      BY <1>0, <1>6, <2>1, <3>1 DEF Names
  <2>3. Below(Current(file', dir').data, Len(Current(file', dir').data), db.next)
    BY <1>0, <1>10, <1>11, <1>12 DEF o
  <2>4. comp'.pc # "idle" => comp'.out < db.next
    BY <2>1
  <2>5. ~Opening'
    BY DEF Opening, Alive
  <2> QED
    BY <2>1, <2>2, <2>3, <2>4, <2>5 DEF Numbered
<1>17. Reading' /\ Writing'
  BY DEF Reading, Writing, Opening, Alive
<1>18. TablesFollow' /\ CompactionFollows' /\ FlushFollows'
  <2>1. \A t \in Nat : Table(t) \in dir.names /\ t < db.next =>
          Kept(file[Table(t)], file'[Table(t)])
    BY <1>1, SameStays DEF Names
  <2>2. db.next <= db'.next /\ db'.next \in Nat
    BY <1>6
  <2> QED
    BY <1>0, <2>1, <2>2, TablesFollowKeeps
<1> QED
  BY <1>4, <1>5, <1>7, <1>8, <1>9, <1>14, <1>15, <1>16, <1>17, <1>18

\* When an edit with the next file number may be appended.
LEMMA FullEditFits ==
  ASSUME IInv, DInv, Alive, NEW x \in Edit, x.full, x.next = db.next,
         db.minlog <= x.log, x.log <= db.log,
         \A t \in x.add : t < db.next /\ Table(t) \in dir.names /\ Done(file[Table(t)]),
         \A t \in x.del : \A r : r \in Recs(file[Table(t)]) => InTables(file, x.add, r),
         \A n \in Nat : Log(n) \in Names /\ db.minlog <= n /\ n < x.log
           /\ LogNo(Current(file, dir).data, Len(Current(file, dir).data)) <= n =>
             \A r \in Soft(file[Log(n)]) : InTables(file, x.add, r)
  PROVE  Fits(Current(file, dir).data, x)
<1> DEFINE m == Current(file, dir)
           es == m.data
           fs == Append(es, x)
           N == Len(es)
<1>1. /\ es \in Seq(Edit) /\ View(m, N) /\ dir.current # 0 /\ db.log < db.next
      /\ db.log \in Nat /\ db.next \in Nat /\ x.log \in Nat /\ db.minlog \in Nat
      /\ db.next # 0
  <2>1. View(m, N)
    BY AliveView
  <2>2. x.log \in Nat
    BY DEF Edit
  <2>3. db.log < db.next /\ db.log \in Nat /\ db.next \in Nat
    BY AliveIs
  <2>4. db.next # 0
    BY <2>3
  <2> QED
    BY <2>1, <2>2, <2>3, <2>4, AliveIs, CurrentIs
<1>2. /\ N \in Nat /\ Len(fs) = N + 1 /\ fs[N + 1] = x
      /\ \A i \in 1 .. N : fs[i] = es[i]
      /\ (LiveAt(es, N) \ x.del) \union x.add \subseteq LiveAt(fs, N + 1)
  BY <1>1, EditAdded
<1>3. /\ Below(es, N, db.next)
      /\ \A k \in Nat : View(m, k) => db.minlog <= LogNo(es, k)
  BY DEF DInv, Numbered, LogsFollow
<1> HIDE DEF m, es, fs, N
<1>4. Deciding(fs, N + 1) = N + 1
  BY <1>1, <1>2, OneMoreEdit DEF Counts
<1>5. NextNo(fs, N + 1) = db.next /\ LogNo(fs, N + 1) = x.log
  BY <1>2, <1>4 DEF NextNo, LogNo
<1>6. Below(fs, N + 1, db.next)
  <2> SUFFICES ASSUME NEW i \in 1 .. N + 1
               PROVE  /\ fs[i].next <= db.next /\ fs[i].log < db.next
                      /\ \A t \in fs[i].add : t < db.next
    BY DEF Below
  <2>1. CASE i = N + 1
    BY <2>1, <1>1, <1>2
  <2>2. CASE i # N + 1
    <3>1. i \in 1 .. N /\ fs[i] = es[i]
      BY <2>2, <1>2
    <3> QED
      BY <3>1, <1>3 DEF Below
  <2> QED
    BY <2>1, <2>2
<1>7. \A r : InTables(file, x.add, r) => InTables(file, LiveAt(fs, N + 1), r)
  BY <1>2 DEF InTables
<1>8. ASSUME NEW r, InTables(file, LiveAt(es, N), r)
      PROVE  InTables(file, LiveAt(fs, N + 1), r)
  <2>1. PICK t \in LiveAt(es, N) : r \in Recs(file[Table(t)])
    BY <1>8 DEF InTables
  <2>2. CASE t \in x.del
    BY <2>1, <2>2, <1>7
  <2>3. CASE t \notin x.del
    BY <2>1, <2>3, <1>2 DEF InTables
  <2> QED
    BY <2>2, <2>3
<1>9. ASSUME NEW n \in Nat, Log(n) \in Names, LogNo(es, N) <= n, n < LogNo(fs, N + 1),
             NEW r \in Soft(file[Log(n)])
      PROVE  InTables(file, LiveAt(fs, N + 1), r)
  <2>1. db.minlog <= LogNo(es, N) /\ LogNo(es, N) \in Nat
    <3>1. \E i \in 1 .. N : Counts(es[i])
      BY <1>1 DEF View, es
    <3>2. Deciding(es, N) \in 1 .. N
      BY <1>2, <3>1, DecidingIs
    <3>3. es[Deciding(es, N)] \in Edit
      BY <1>1, <3>2, ElementOfSeq DEF N
    <3>4. \A y \in Edit : y.log \in Nat
      BY DEF Edit
    <3> QED
      BY <1>1, <1>2, <1>3, <3>3, <3>4 DEF LogNo
  <2>2. db.minlog <= n
    BY <2>1, <1>1, <1>9
  <2> QED
    BY <2>2, <1>5, <1>7, <1>9 DEF es, N, m
<1>10. Covers(es, fs, N)
  BY <1>8, <1>9 DEF Covers
<1>11. Fits(es, x)
  BY <1>5, <1>6, <1>10 DEF Fits, fs, N
<1> QED
  BY <1>11 DEF es, m

\* An edit with the tables of the immutable memtable, or of a compaction.
LEMMA LogAndApplyLoses ==
  ASSUME IInv, DInv, LogAndApply
  PROVE  DInv' /\ Appended(NextEdit) /\ Fits(Current(file, dir).data, NextEdit)
<1> DEFINE x == NextEdit
           es == Current(file, dir).data
           N == Len(es)
<1>0. /\ ProcessTypeOK /\ Compacting /\ Alive
      /\ bg.pc = "built" \/ (bg.pc = "idle" /\ comp.pc = "done")
      /\ UNCHANGED <<db, comp, wr, owed, synced>>
      /\ SetDisk(AddRecord(Disk, Manifest(db.manifest), x))
      /\ bg' = [pc |-> "logged", out |-> bg.out, edit |-> x]
  BY DEF IInv, LogAndApply, Running, EditReady, Alive
<1>1. /\ db.minlog <= db.log /\ db.log < db.next /\ db.next \in Nat
      /\ db.minlog \in Nat /\ db.log \in Nat /\ dir.current # 0 /\ bg.out \in Nat
      /\ comp.pc # "idle" => Table(comp.out) \in dir.names
      /\ bg.pc = "built" /\ bg.out # 0 => Table(bg.out) \in dir.names
  BY <1>0, AliveIs
<1>2. /\ x \in Edit /\ x.full /\ x.next = db.next
      /\ bg.pc = "built" => /\ x.log = db.log /\ x.del = {}
                            /\ x.add = IF bg.out = 0 THEN {} ELSE {bg.out}
      /\ bg.pc # "built" => /\ x.log = db.minlog /\ x.del = comp.in
                            /\ x.add = {comp.out}
  <2>1. CASE bg.pc = "built"
    BY <1>0, <2>1 DEF NextEdit, FlushEdit, Edit, ProcessTypeOK
  <2>2. CASE bg.pc # "built"
    BY <1>0, <2>2 DEF NextEdit, CompactionEdit, Edit, ProcessTypeOK
  <2> QED
    BY <2>1, <2>2
<1> HIDE DEF x
<1>3. Fits(es, x)
  <2>1. CASE bg.pc = "built"
    <3>1. /\ db.hasImm /\ bg.out < db.next
          /\ bg.out = 0 => db.imm = {}
          /\ bg.out # 0 =>
               Done(file[Table(bg.out)]) /\ db.imm \subseteq Recs(file[Table(bg.out)])
      BY <1>0, <2>1 DEF DInv, FlushFollows
    <3>2. \A t \in x.add : t < db.next /\ Table(t) \in dir.names /\ Done(file[Table(t)])
      BY <1>1, <1>2, <2>1, <3>1
    <3>3. \A r \in db.imm : InTables(file, x.add, r)
      BY <1>2, <2>1, <3>1 DEF InTables
    <3>4. \A n \in Nat : Log(n) \in Names /\ db.minlog <= n /\ n < x.log =>
            \A r \in Soft(file[Log(n)]) : InTables(file, x.add, r)
      <4> SUFFICES ASSUME NEW n \in Nat, Log(n) \in Names, db.minlog <= n, n < db.log,
                          NEW r \in Soft(file[Log(n)])
                   PROVE  InTables(file, x.add, r)
        BY <1>2, <2>1
      <4>1. Log(n) \in dir.names
        <5>1. Log(n) \in ddir.names /\ Log(n) \notin dir.names => n < db.minlog
          BY <1>0 DEF DInv, LogsFollow
        <5> QED
          BY <5>1, <1>1 DEF Names
      <4>2. Soft(file[Log(n)]) \subseteq db.imm
        BY <1>0, <4>1 DEF DInv, LogsFollow
      <4> QED
        BY <4>2, <3>3
    <3> QED
      BY <1>0, <1>1, <1>2, <2>1, <3>2, <3>4, FullEditFits
  <2>2. CASE bg.pc # "built"
    <3>1. /\ Done(file[Table(comp.out)]) /\ comp.out < db.next
          /\ \A t \in comp.in : Recs(file[Table(t)]) \subseteq Recs(file[Table(comp.out)])
      BY <1>0, <2>2 DEF DInv, CompactionFollows, Numbered
    <3>2. \A t \in x.add : t < db.next /\ Table(t) \in dir.names /\ Done(file[Table(t)])
      BY <1>0, <1>1, <1>2, <2>2, <3>1
    <3>3. \A t \in x.del : \A r : r \in Recs(file[Table(t)]) => InTables(file, x.add, r)
      BY <1>2, <2>2, <3>1 DEF InTables
    <3>4. \A n \in Nat : ~(db.minlog <= n /\ n < x.log)
      BY <1>1, <1>2, <2>2
    <3>5. db.minlog <= x.log /\ x.log <= db.log
      BY <1>1, <1>2, <2>2
    <3> QED
      BY <1>0, <1>2, <3>2, <3>3, <3>4, <3>5, FullEditFits
  <2> QED
    BY <2>1, <2>2
<1>4. Appended(x)
  BY <1>0, AppendedIs DEF x
<1>5. bg'.pc = "logged" /\ bg'.edit = x
  BY <1>0 DEF x
<1>6. Alive'
  BY <1>0 DEF Alive
<1>7. /\ Whole' /\ DirsGood' /\ OldNumbers' /\ OldLogs' /\ Owing' /\ Pended'
      /\ Numbered' /\ Reading' /\ Writing' /\ LogsFollow'
      /\ TablesFollow' /\ CompactionFollows' /\ FlushFollows'
  BY <1>0, <1>3, <1>4, <1>5, <1>6, AppendedKeeps
<1>8. EditFollows'
  <2>1. es \in Seq(Edit)
    BY <1>1, CurrentIs
  <2>2. /\ Current(file', dir').data = Append(es, x)
        /\ Len(Append(es, x)) = N + 1 /\ Append(es, x)[N + 1] = x
    BY <2>1, <1>2, <1>4, EditAdded DEF Appended
  <2>3. x.next # 0
    BY <1>1, <1>2
  <2>4. x.del = {} => db.hasImm /\ x.log = db.log
    <3>1. bg.pc = "built" => db.hasImm
      BY <1>0 DEF DInv, FlushFollows
    <3>2. bg.pc # "built" => comp.in # {}
      BY <1>0 DEF Compacting
    <3> QED
      BY <3>1, <3>2, <1>2
  <2>5. x.del # {} => x.log = db.minlog
    BY <1>2
  <2>6. bg'.pc # "synced"
    BY <1>5
  <2>7. Current(file', dir').data[Len(Current(file', dir').data)] = x
    BY <2>2
  <2>8. db' = db
    BY <1>0
  <2> QED
    BY <1>2, <1>5, <2>3, <2>4, <2>5, <2>6, <2>7, <2>8 DEF EditFollows
<1>9. Appended(NextEdit) /\ Fits(es, NextEdit)
  BY <1>3, <1>4 DEF x
<1> QED
  BY <1>9, <1>7, <1>8 DEF DInv

\* The manifest is torn at its end, or keeps an edit that was not synced.
LEMMA ManifestFailsLoses ==
  ASSUME IInv, DInv, ManifestFails
  PROVE  /\ DInv'
         /\ \/ UNCHANGED <<dir, ddir, file>>
            \/ Appended(TornEdit) /\ Fits(Current(file, dir).data, TornEdit)
<1> DEFINE m == Current(file, dir)
           es == m.data
           N == Len(es)
<1>0. /\ ProcessTypeOK /\ Alive /\ UNCHANGED <<wr, owed, synced>> /\ bg'.pc = "idle"
      /\ comp' = comp \/ comp'.pc = "idle"
  BY IdleOK DEF IInv, ManifestFails, Running, Alive
<1>1. /\ db'.st = db.st /\ db'.mem = db.mem /\ db'.imm = db.imm /\ db'.hasImm = db.hasImm
      /\ db'.log = db.log /\ db'.minlog = db.minlog /\ db'.next = db.next
      /\ db'.live = db.live /\ db'.add = db.add /\ db'.err = TRUE
  BY <1>0 DEF ProcessTypeOK, ManifestFails
<1>2. Alive'
  BY <1>0, <1>1 DEF Alive
<1>3. CASE UNCHANGED <<dir, ddir, file>>
  <2>1. bg' = bg \/ bg'.pc \in {"idle", "gc"}
    BY <1>0
  <2> QED
    BY <1>0, <1>1, <1>2, <1>3, <2>1, AliveSameKeeps
<1>4. CASE SetDisk(AddRecord(Disk, Manifest(db.manifest), TornEdit))
  <2> DEFINE x == TornEdit
             fs == Append(es, x)
  <2>1. x \in Edit /\ ~Counts(x) /\ x.next = 0 /\ x.log = 0 /\ x.add = {} /\ x.del = {}
    BY DEF TornEdit, Edit, Counts
  <2> HIDE DEF x
  <2>2. Appended(x)
    BY <1>0, <1>4, AppendedIs DEF x
  <2>3. es \in Seq(Edit) /\ View(m, N) /\ db.next \in Nat /\ db.next # 0
    <3>1. View(m, N)
      BY <1>0, AliveView
    <3>2. dir.current # 0 /\ db.next \in Nat /\ db.log < db.next /\ db.log \in Nat
      BY <1>0, AliveIs
    <3>3. db.next # 0
      BY <3>2
    <3> QED
      BY <3>1, <3>2, <3>3, CurrentIs
  <2>4. /\ N \in Nat /\ Len(fs) = N + 1 /\ fs[N + 1] = x
        /\ \A i \in 1 .. N : fs[i] = es[i]
        /\ LiveAt(es, N) \subseteq LiveAt(fs, N + 1)
    <3>1. /\ N \in Nat /\ Len(fs) = N + 1 /\ fs[N + 1] = x
          /\ \A i \in 1 .. N : fs[i] = es[i]
          /\ (LiveAt(es, N) \ x.del) \union x.add \subseteq LiveAt(fs, N + 1)
      BY <2>1, <2>3, EditAdded
    <3> QED
      BY <3>1, <2>1
  <2>5. /\ Below(es, N, db.next) /\ Below(es, N, NextNo(es, N))
        /\ db.minlog <= LogNo(es, N) /\ LogNo(es, N) <= db.log
    <3>1. dir.current # 0
      BY <1>0, AliveIs
    <3>2. /\ Below(es, N, db.next)
          /\ \A k \in Nat : View(m, k) => Below(es, k, NextNo(es, k))
          /\ \A k \in Nat : View(m, k) => db.minlog <= LogNo(es, k) /\ LogNo(es, k) <= db.log
      BY <1>0, <3>1 DEF DInv, Numbered, LogsFollow, DirsGood, NumbersOK
    <3> QED
      BY <3>2, <2>3, <2>4
  <2> HIDE DEF m, es, fs, N
  <2>6. Deciding(es, N) \in 1 .. N /\ Counts(es[Deciding(es, N)])
    <3>1. \E i \in 1 .. N : Counts(es[i])
      BY <2>3 DEF View, es
    <3> QED
      BY <2>4, <3>1, DecidingIs
  <2>7. /\ NextNo(fs, N + 1) = NextNo(es, N) /\ LogNo(fs, N + 1) = LogNo(es, N)
        /\ NextNo(es, N) \in Nat /\ NextNo(es, N) # 0 /\ LogNo(es, N) \in Nat
    <3>1. Deciding(fs, N + 1) = Deciding(fs, N)
      BY <2>1, <2>4, OneMoreEdit
    <3>2. Deciding(fs, N) = Deciding(es, N)
      <4>1. {i \in 1 .. N : Counts(fs[i])} = {i \in 1 .. N : Counts(es[i])}
        BY <2>4
      <4> QED
        BY <4>1 DEF Deciding
    <3>3. fs[Deciding(es, N)] = es[Deciding(es, N)]
      BY <2>4, <2>6
    <3>4. es[Deciding(es, N)] \in Edit
      BY <2>3, <2>6, ElementOfSeq DEF N
    <3>5. \A y \in Edit : y.next \in Nat /\ y.log \in Nat
      BY DEF Edit
    <3> QED
      BY <3>1, <3>2, <3>3, <3>4, <3>5, <2>6 DEF NextNo, LogNo, Counts
  <2>8. \A b \in Nat : b # 0 /\ Below(es, N, b) => Below(fs, N + 1, b)
    <3> SUFFICES ASSUME NEW b \in Nat, b # 0, Below(es, N, b), NEW i \in 1 .. N + 1
                 PROVE  /\ fs[i].next <= b /\ fs[i].log < b
                        /\ \A t \in fs[i].add : t < b
      BY DEF Below
    <3>1. CASE i = N + 1
      BY <3>1, <2>1, <2>4
    <3>2. CASE i # N + 1
      <4>1. i \in 1 .. N /\ fs[i] = es[i]
        BY <3>2, <2>4
      <4> QED
        BY <4>1 DEF Below
    <3> QED
      BY <3>1, <3>2
  <2>9. Covers(es, fs, N)
    <3>1. \A r : InTables(file, LiveAt(es, N), r) => InTables(file, LiveAt(fs, N + 1), r)
      BY <2>4 DEF InTables
    <3>2. \A n \in Nat : ~(LogNo(es, N) <= n /\ n < LogNo(fs, N + 1))
      BY <2>7
    <3> QED
      BY <3>1, <3>2 DEF Covers
  <2>10. Fits(es, x)
    <3>1. Below(fs, N + 1, NextNo(fs, N + 1)) /\ Below(fs, N + 1, db.next)
      BY <2>3, <2>5, <2>7, <2>8
    <3>2. db.minlog <= LogNo(fs, N + 1) /\ LogNo(fs, N + 1) <= db.log
      BY <2>5, <2>7
    <3> QED
      BY <2>1, <2>9, <3>1, <3>2 DEF Fits, fs, N
  <2>11. /\ Whole' /\ DirsGood' /\ OldNumbers' /\ OldLogs' /\ Owing' /\ Pended'
         /\ Numbered' /\ Reading' /\ Writing' /\ LogsFollow'
         /\ TablesFollow' /\ CompactionFollows' /\ FlushFollows'
    <3>1. bg'.pc # "built"
      BY <1>0
    <3>2. ~db'.err => ~db.err
      BY <1>1
    <3>3. Fits(Current(file, dir).data, x)
      BY <2>10 DEF es, m
    <3> QED
      BY <1>0, <1>1, <1>2, <2>2, <3>1, <3>2, <3>3, AppendedKeeps
  <2>12. EditFollows'
    BY <1>0 DEF EditFollows
  <2>13. Appended(TornEdit) /\ Fits(Current(file, dir).data, TornEdit)
    BY <2>2, <2>10 DEF x, es, m
  <2> QED
    BY <2>11, <2>12, <2>13 DEF DInv
<1> QED
  BY <1>3, <1>4 DEF ManifestFails

-----------------------------------------------------------------------------
(* What a machine crash leaves *)

(* File y is what is left of file x. *)
Cut(x, y) ==
  /\ Len(x.data) \in Nat /\ x.dur \in 0 .. Len(x.data)
  /\ Len(y.data) = x.dur /\ y.dur = x.dur
  /\ \A i \in 1 .. x.dur : y.data[i] = x.data[i]

LEMMA CutIs ==
  ASSUME IInv
  PROVE  /\ AfterCrash(Disk).dir = ddir /\ AfterCrash(Disk).ddir = ddir
         /\ \A n \in Names : Cut(file[n], AfterCrash(Disk).file[n])
<1> DEFINE e == AfterCrash(Disk)
<1>1. DiskOK(Disk, writes) /\ DOMAIN file = Names
  BY DEF IInv, DiskInv, Names
<1>2. e.dir = ddir /\ e.ddir = ddir
  BY <1>1, DiskIs DEF AfterCrash, DiskOK
<1>3. ASSUME NEW n \in Names
      PROVE  Cut(file[n], e.file[n])
  <2>1. /\ FileOK(n, file[n], writes) /\ n \in Name
        /\ Len(file[n].data) \in Nat /\ file[n].dur \in 0 .. Len(file[n].data)
    BY <1>3, FilesAre DEF IInv, Names
  <2>2. /\ e.file[n].data = SubSeq(file[n].data, 1, file[n].dur)
        /\ e.file[n].dur = file[n].dur
    BY <1>1, <1>3, <2>1, DiskIs DEF AfterCrash, DiskOK, FileOK
  <2>3. \/ file[n].data \in Seq(Rec) \/ file[n].data \in Seq(SUBSET Rec)
        \/ file[n].data \in Seq(Edit)
    BY <2>1 DEF FileOK, Name
  <2>4. /\ Len(SubSeq(file[n].data, 1, file[n].dur)) = file[n].dur
        /\ \A i \in 1 .. file[n].dur : SubSeq(file[n].data, 1, file[n].dur)[i] = file[n].data[i]
    BY <2>1, <2>3, PrefixIs
  <2> QED
    BY <2>1, <2>2, <2>4 DEF Cut
<1> QED
  BY <1>2, <1>3

LEMMA CutTable ==
  ASSUME NEW x, NEW y, Cut(x, y)
  PROVE  /\ Hard(y) = Hard(x) /\ Soft(y) = Hard(x)
         /\ Done(x) => Done(y) /\ Recs(y) = Recs(x)
<1>1. Hard(y) = Hard(x) /\ Soft(y) = Hard(x)
  BY DEF Cut, Hard, Soft
<1>2. ASSUME Done(x)
      PROVE  Done(y) /\ Recs(y) = Recs(x)
  <2>1. x.dur = 1 /\ Len(x.data) = 1 /\ Len(y.data) = 1 /\ y.dur = 1
    BY <1>2 DEF Done, Cut
  <2>2. \A i \in 1 .. 1 : y.data[i] = x.data[i]
    BY <2>1 DEF Cut
  <2> QED
    BY <2>1, <2>2 DEF Done, Recs
<1> QED
  BY <1>1, <1>2

\* The files that are left show what lasts.
LEMMA CutDir ==
  ASSUME IInv, DirsGood, NEW g, \A n \in ddir.names : Cut(file[n], g[n])
  PROVE  /\ TablesDone(g, ddir) /\ NumbersOK(g, ddir)
         /\ \A r : Lasting(file, ddir, r) => Lasting(g, ddir, r)
         /\ \A r : Lasting(file, ddir, r) /\ ddir.current > 1 => Shown(g, ddir, r)
<1> DEFINE m == Current(file, ddir)
           o == Current(g, ddir)
           es == m.data
           fs == o.data
<1>1. CASE ddir.current = 0
  BY <1>1 DEF TablesDone, NumbersOK, Lasting
<1>2. CASE ddir.current # 0
  <2>1. /\ Manifest(ddir.current) \in ddir.names
        /\ es \in Seq(Edit) /\ Len(es) \in Nat /\ m.dur \in 0 .. Len(es)
        /\ TablesThere(ddir, m) /\ Readables(ddir.current, m, torn)
    BY <1>2, CurrentIs
  <2>2. Cut(m, o)
    BY <2>1 DEF Current
  <2> DEFINE k == m.dur
  <2>3. k \in Nat /\ Len(fs) = k /\ o.dur = k /\ \A i \in 1 .. k : es[i] = fs[i]
    BY <2>2 DEF Cut
  <2> HIDE DEF m, o, es, fs, k
  <2>4. \A j \in Nat : View(o, j) => j = k
    <3>1. \A j \in Nat : j \in o.dur .. Len(o.data) => j = k
      BY <2>3 DEF fs
    <3> QED
      BY <3>1 DEF View
  <2>5. /\ LiveAt(es, k) = LiveAt(fs, k)
        /\ (\E i \in 1 .. k : Counts(es[i])) <=> (\E i \in 1 .. k : Counts(fs[i]))
        /\ (\E i \in 1 .. k : Counts(es[i])) =>
             LogNo(es, k) = LogNo(fs, k) /\ NextNo(es, k) = NextNo(fs, k)
        /\ \A b : Below(es, k, b) <=> Below(fs, k, b)
    BY <2>3, SameEdits
  <2>6. k \in m.dur .. Len(m.data)
    BY <2>1, <2>3 DEF k, es
  <2>7. ASSUME \E i \in 1 .. k : Counts(es[i])
        PROVE  View(m, k)
    BY <2>6, <2>7 DEF View, es
  <2>8. View(o, k) => \E i \in 1 .. k : Counts(es[i])
    BY <2>5 DEF View, fs
  <2>9. View(m, k) => \A t \in LiveAt(es, k) :
          Table(t) \in ddir.names /\ Done(file[Table(t)])
    <3>1. View(m, k) => \A t \in LiveAt(es, k) : Done(file[Table(t)])
      BY <1>2, <2>3 DEF DirsGood, TablesDone, m, es
    <3>2. \A t \in LiveAt(es, k) : Table(t) \in ddir.names
      BY <2>1, <2>6 DEF TablesThere, es
    <3> QED
      BY <3>1, <3>2
  <2>10. View(m, k) => \A t \in LiveAt(es, k) :
           Done(g[Table(t)]) /\ Recs(g[Table(t)]) = Recs(file[Table(t)])
    <3> SUFFICES ASSUME View(m, k), NEW t \in LiveAt(es, k)
                 PROVE  Done(g[Table(t)]) /\ Recs(g[Table(t)]) = Recs(file[Table(t)])
      OBVIOUS
    <3>1. Cut(file[Table(t)], g[Table(t)]) /\ Done(file[Table(t)])
      BY <2>9
    <3> QED
      BY <3>1, CutTable
  <2>11. TablesDone(g, ddir)
    <3> SUFFICES ASSUME NEW j \in Nat, View(o, j), NEW t \in LiveAt(fs, j)
                 PROVE  Done(g[Table(t)])
      BY DEF TablesDone, o, fs
    <3>1. j = k
      BY <2>4
    <3> QED
      BY <3>1, <2>5, <2>7, <2>8, <2>10
  <2>12. NumbersOK(g, ddir)
    <3> SUFFICES ASSUME NEW j \in Nat, View(o, j)
                 PROVE  Below(fs, j, NextNo(fs, j))
      BY DEF NumbersOK, o, fs
    <3>1. j = k
      BY <2>4
    <3>2. View(m, k)
      BY <3>1, <2>7, <2>8
    <3>3. Below(es, k, NextNo(es, k))
      BY <3>2, <1>2, <2>3 DEF DirsGood, NumbersOK, m, es
    <3> QED
      BY <3>1, <3>3, <2>5, <2>8
  <2>13. \A n \in Nat : Log(n) \in ddir.names =>
           Hard(g[Log(n)]) = Hard(file[Log(n)]) /\ Soft(g[Log(n)]) = Hard(file[Log(n)])
    BY CutTable
  <2>14. ASSUME NEW r, Lasting(file, ddir, r), \E i \in 1 .. k : Counts(es[i])
         PROVE  /\ Keeps(g, ddir, LiveAt(fs, k), LogNo(fs, k), r)
                /\ Shows(g, ddir, LiveAt(fs, k), LogNo(fs, k), r)
    <3>1. View(m, k)
      BY <2>7, <2>14
    <3>2. Keeps(file, ddir, LiveAt(es, k), LogNo(es, k), r)
      BY <3>1, <1>2, <2>3, <2>14 DEF Lasting, m, es
    <3>3. InTables(file, LiveAt(es, k), r) => InTables(g, LiveAt(fs, k), r)
      BY <3>1, <2>5, <2>10 DEF InTables
    <3>4. LogNo(fs, k) = LogNo(es, k)
      BY <2>5, <2>14
    <3> QED
      BY <3>2, <3>3, <3>4, <2>13 DEF Keeps, Shows
  <2>15. ASSUME NEW r, Lasting(file, ddir, r)
         PROVE  Lasting(g, ddir, r)
    <3> SUFFICES ASSUME NEW j \in Nat, View(o, j)
                 PROVE  Keeps(g, ddir, LiveAt(fs, j), LogNo(fs, j), r)
      BY DEF Lasting, o, fs
    <3>1. j = k
      BY <2>4
    <3> QED
      BY <3>1, <2>8, <2>14, <2>15
  <2>16. ASSUME NEW r, Lasting(file, ddir, r), ddir.current > 1
         PROVE  Shown(g, ddir, r)
    <3>1. k >= 2 /\ Counts(es[2])
      BY <2>1, <2>16 DEF Readables, Counts, es, k
    <3>2. 2 \in 1 .. k
      BY <3>1, <2>3
    <3>3. \E i \in 1 .. k : Counts(es[i])
      BY <3>1, <3>2
    <3>4. Shows(g, ddir, LiveAt(fs, k), LogNo(fs, k), r)
      BY <3>3, <2>14, <2>16
    <3>5. View(o, k)
      <4>1. k \in o.dur .. Len(o.data)
        BY <2>3 DEF fs
      <4> QED
        BY <4>1, <3>3, <2>5 DEF View, fs
    <3>6. View(o, Len(fs)) /\ Shows(g, ddir, LiveAt(fs, Len(fs)), LogNo(fs, Len(fs)), r)
      BY <3>4, <3>5, <2>3
    <3> QED
      BY <3>6, <1>2 DEF Shown, o, fs
  <2> QED
    BY <2>11, <2>12, <2>15, <2>16
<1>3. ddir.current \in Nat
  BY FilesAre DEF IInv
<1> QED
  BY <1>1, <1>2, <1>3

LEMMA MachineCrashesLoses ==
  ASSUME IInv, IInv', DInv, MachineCrashes
  PROVE  DInv'
<1> DEFINE e == AfterCrash(Disk)
<1>0. /\ SetDisk(e) /\ db'.st = "down" /\ db'.imm = {} /\ owed' = synced /\ synced' = synced
  BY DEF MachineCrashes, Down
<1>1. e.dir = ddir /\ e.ddir = ddir /\ \A n \in Names : Cut(file[n], e.file[n])
  BY CutIs
<1> HIDE DEF e
<1>2. dir' = ddir /\ ddir' = ddir /\ \A n \in ddir.names : file'[n] = e.file[n]
  BY <1>0, <1>1, SetDiskIs
<1>3. \A n \in ddir.names : n \in Names /\ Cut(file[n], file'[n])
  BY <1>1, <1>2 DEF Names
<1>4. /\ TablesDone(file', ddir) /\ NumbersOK(file', ddir)
      /\ \A r : Lasting(file, ddir, r) => Lasting(file', ddir, r)
      /\ \A r : Lasting(file, ddir, r) /\ ddir.current > 1 => Shown(file', ddir, r)
  BY <1>3, CutDir DEF DInv
<1>5. Whole'
  <2> SUFFICES ASSUME NEW n \in Nat, Log(n) \in ddir.names,
                      NEW i \in 1 .. Len(file'[Log(n)].data)
               PROVE  file'[Log(n)].data[i] # Torn
    BY <1>2 DEF Whole, Names
  <2>1. /\ i \in 1 .. file[Log(n)].dur /\ i \in 1 .. Len(file[Log(n)].data)
        /\ file'[Log(n)].data[i] = file[Log(n)].data[i]
    BY <1>3 DEF Cut
  <2>2. Log(n) \in Names
    BY <1>3
  <2> QED
    BY <2>1, <2>2 DEF DInv, Whole
<1>6. ddir.current \in Nat
  BY FilesAre DEF IInv
<1>7. DirsGood' /\ OldLogs'
  BY <1>2, <1>4 DEF DirsGood, OldLogs
<1>8. OldNumbers'
  BY <1>2, <1>6 DEF OldNumbers
<1>9. Owing'
  <2> SUFFICES ASSUME NEW i \in synced
               PROVE  \E r \in Rec : /\ r.id = i /\ Shown(file', ddir, r)
                                     /\ Lasting(file', ddir, r)
    BY <1>0, <1>2 DEF Owing
  <2>1. ddir.current > 1
    BY DEF IInv, AcksBehindInstall
  <2>2. PICK r \in Rec : r.id = i /\ Lasting(file, ddir, r)
    BY DEF DInv, Owing
  <2> QED
    BY <2>1, <2>2, <1>4
<1>10. ~Opening' /\ ~Alive' /\ db'.st # "newdb" /\ (~db'.hasImm => db'.imm = {})
  BY <1>0 DEF Opening, Alive
<1> QED
  BY <1>5, <1>7, <1>8, <1>9, <1>10, AsideKeeps, NotAliveKeeps

-----------------------------------------------------------------------------
(* All steps, and what the invariant says of recovery *)

(* The inductive invariant. *)
DurInv == IInv /\ (~torn => DInv)

LEMMA InitLasts ==
  ASSUME Init
  PROVE  DInv
<1>1. /\ dir.names = {} /\ dir.current = 0 /\ ddir.names = {} /\ ddir.current = 0
      /\ owed = {} /\ synced = {} /\ wr.pc = "idle"
      /\ db.st = "down" /\ db.hasImm = FALSE /\ db.imm = {}
  BY IdleOK DEF Init, Down
<1>2. ~Opening /\ ~Alive
  BY <1>1 DEF Opening, Alive
<1>3. Whole /\ DirsGood /\ OldNumbers /\ OldLogs /\ Owing /\ Pended
  BY <1>1 DEF Whole, Names, DirsGood, TablesDone, NumbersOK, OldNumbers, OldLogs, Owing, Pended
<1>4. /\ Numbered /\ Reading /\ Writing /\ LogsFollow
      /\ TablesFollow /\ CompactionFollows /\ FlushFollows /\ EditFollows
  BY <1>1, <1>2 DEF Numbered, Reading, Writing, LogsFollow, TablesFollow,
     CompactionFollows, FlushFollows, EditFollows
<1> QED
  BY <1>3, <1>4 DEF DInv

\* A torn file stays torn, and the step that tears a log is the failed write.
LEMMA TornStays ==
  ASSUME IInv, Next, ~torn'
  PROVE  ~torn /\ ~LogWriteFails
<1>1. torn \in BOOLEAN
  BY DEF IInv, ProcessTypeOK
<1>2. CASE LogWriteFails
  BY <1>2 DEF LogWriteFails
<1>3. CASE LogAndApply \/ ManifestFails
  <2>1. torn' = torn \/ torn' = (torn \/ ManifestTorn)
    BY <1>3 DEF LogAndApply, ManifestFails
  <2>2. ~torn
    BY <1>1, <2>1
  <2>3. ~LogWriteFails
    BY DEF LogWriteFails
  <2> QED
    BY <2>2, <2>3
<1>4. CASE ~LogWriteFails /\ ~LogAndApply /\ ~ManifestFails
  <2>1. torn' = torn
    BY <1>4 DEF Next, NewDB, NewDBCurrent, Recover, RecoverLogFile, OpenLog,
       OpenManifest, OpenSync, OpenInstall, DeleteObsoleteFile, CollectingEnds,
       SwitchMemTable, LogWrite, SyncLog, SyncLogFails, InsertAndAcknowledge,
       BuildTable, OpenCompactionOutputFile, FinishCompactionOutputFile,
       SyncManifest, InstallVersion, NewIterator, CleanupIteratorState,
       CommitDirectory, WriteBack, ProcessEnds, MachineCrashes
  <2> QED
    BY <1>4, <2>1
<1> QED
  BY <1>2, <1>3, <1>4

LEMMA NextLoses ==
  ASSUME IInv, IInv', DInv, [Next]_vars, ~torn'
  PROVE  DInv'
<1>1. CASE UNCHANGED vars
  <2>1. UNCHANGED <<dir, ddir, file, db, bg, comp, wr, owed, synced>>
    BY <1>1 DEF vars
  <2>2. Whole' /\ OldNumbers' /\ OldLogs'
    BY <2>1 DEF DInv, Whole, Names, OldNumbers, OldLogs, Current
  <2>3. DirsGood'
    BY <2>1 DEF DInv, DirsGood
  <2>4. Owing' /\ Pended'
    BY <2>1 DEF DInv, Owing, Pended
  <2>5. Numbered' /\ Reading' /\ Writing'
    BY <2>1 DEF DInv, Numbered, Reading, Writing, Opening, Alive, Names, Current
  <2>6. LogsFollow' /\ TablesFollow'
    BY <2>1 DEF DInv, LogsFollow, TablesFollow, Alive, Current
  <2>7. CompactionFollows' /\ FlushFollows' /\ EditFollows'
    BY <2>1 DEF DInv, CompactionFollows, FlushFollows, EditFollows, Alive, Current
  <2> QED
    BY <2>2, <2>3, <2>4, <2>5, <2>6, <2>7 DEF DInv
<1>2. CASE Next
  <2>0. ~LogWriteFails
    BY <1>2, TornStays
  <2>1. CASE \/ NewDB \/ NewDBCurrent \/ Recover \/ RecoverLogFile \/ OpenLog
             \/ OpenManifest \/ OpenSync \/ OpenInstall
    BY <2>1, NewDBLoses, NewDBCurrentLoses, RecoverLoses, RecoverLogFileLoses,
       OpenLogLoses, OpenManifestLoses, OpenSyncLoses, OpenInstallLoses
  <2>2. CASE DeleteObsoleteFile \/ CollectingEnds \/ SwitchMemTable
    BY <2>2, DeleteObsoleteFileLoses, CollectingEndsLoses, SwitchMemTableLoses
  <2>3. CASE \/ (\E sync \in BOOLEAN : LogWrite(sync))
             \/ SyncLog \/ SyncLogFails \/ InsertAndAcknowledge
    BY <2>3, LogWriteLoses, SyncLogLoses, SyncLogFailsLoses, InsertAndAcknowledgeLoses
  <2>4. CASE BuildTable \/ OpenCompactionOutputFile \/ FinishCompactionOutputFile
    BY <2>4, BuildTableLoses, OpenCompactionOutputFileLoses,
       FinishCompactionOutputFileLoses
  <2>5. CASE LogAndApply \/ SyncManifest \/ InstallVersion \/ ManifestFails
    BY <2>5, LogAndApplyLoses, SyncManifestLoses, InstallVersionLoses, ManifestFailsLoses
  <2>6. CASE NewIterator \/ CleanupIteratorState
    BY <2>6, NewIteratorLoses
  <2>7. CASE CommitDirectory \/ WriteBack \/ ProcessEnds \/ MachineCrashes
    BY <2>7, KernelLoses, ProcessEndsLoses, MachineCrashesLoses
  <2> QED
    BY <1>2, <2>0, <2>1, <2>2, <2>3, <2>4, <2>5, <2>6, <2>7 DEF Next
<1> QED
  BY <1>1, <1>2

LEMMA DurableAlways == Spec => []DurInv
<1>1. Init => DurInv
  BY InitHolds, InitLasts DEF DurInv
<1>2. DurInv /\ [Next]_vars => DurInv'
  <2> SUFFICES ASSUME DurInv, [Next]_vars
               PROVE  DurInv'
    OBVIOUS
  <2>1. IInv'
    BY NextKeeps DEF DurInv
  <2>2. ASSUME ~torn'
        PROVE  DInv'
    <3>1. ~torn
      BY <2>2, TornStays DEF DurInv, vars
    <3> QED
      BY <2>1, <2>2, <3>1, NextLoses DEF DurInv
  <2> QED
    BY <2>1, <2>2 DEF DurInv
<1> QED
  BY <1>1, <1>2, PTL DEF Spec

\* What a directory shows is what recovery replays.
LEMMA ReplayHas ==
  ASSUME NEW d, Openable(d), NEW r, Shown(d.file, d.dir, r),
         Current(d.file, d.dir).data \in Seq(Edit),
         Current(d.file, d.dir).dur \in 0 .. Len(Current(d.file, d.dir).data),
         TablesThere(d.dir, Current(d.file, d.dir)),
         \A n \in Nat : Log(n) \in d.dir.names =>
           ReadLog(d.file[Log(n)]) = Soft(d.file[Log(n)]),
         \A t \in Nat : Table(t) \in d.dir.names =>
           DOMAIN d.file[Table(t)].data = 1 .. Len(d.file[Table(t)].data)
  PROVE  r \in Replay(d)
<1> DEFINE m == Current(d.file, d.dir)
           es == m.data
           N == Len(es)
           live == {t \in LiveOf(es) : Table(t) \in d.dir.names}
           tables == {UNION {d.file[Table(t)].data[i] : i \in DOMAIN d.file[Table(t)].data} : t \in live}
           logs == {ReadLog(d.file[Log(n)]) : n \in LogsFrom(d, es[Max(Full(es))].log)}
<1>1. Replay(d) = UNION (tables \union logs)
  BY DEF Replay, Current
<1>2. DOMAIN es = 1 .. N /\ N \in Nat /\ LiveOf(es) = LiveAt(es, N)
  BY LiveOfIs, LenProperties
<1>3. es[Max(Full(es))].log = LogNo(es, N)
  BY <1>2 DEF Full, LogNo, Deciding, Counts
<1>4. Shows(d.file, d.dir, LiveAt(es, N), LogNo(es, N), r)
  BY DEF Shown
<1> HIDE DEF logs, tables
<1>5. CASE InTables(d.file, LiveAt(es, N), r)
  <2>1. PICK t \in LiveAt(es, N) : r \in Recs(d.file[Table(t)])
    BY <1>5 DEF InTables
  <2>2. t \in Nat
    BY DEF LiveAt
  <2>3. Table(t) \in d.dir.names
    <3>1. N \in m.dur .. N
      BY <1>2
    <3> QED
      BY <3>1, <2>1 DEF TablesThere
  <2>4. t \in live
    BY <1>2, <2>1, <2>3
  <2>5. Recs(d.file[Table(t)]) =
          UNION {d.file[Table(t)].data[i] : i \in DOMAIN d.file[Table(t)].data}
    BY <2>2, <2>3 DEF Recs
  <2>6. Recs(d.file[Table(t)]) \in tables
    BY <2>4, <2>5 DEF tables
  <2> QED
    BY <1>1, <2>1, <2>6
<1>6. CASE \E n \in Nat : /\ Log(n) \in d.dir.names /\ LogNo(es, N) <= n
                          /\ r \in Soft(d.file[Log(n)])
  <2>1. PICK n \in Nat : /\ Log(n) \in d.dir.names /\ LogNo(es, N) <= n
                         /\ r \in Soft(d.file[Log(n)])
    BY <1>6
  <2>2. n \in LogsFrom(d, LogNo(es, N))
    <3>1. Log(n)[1] = "log" /\ Log(n)[2] = n /\ n >= LogNo(es, N)
      BY <2>1, NameIs
    <3> QED
      BY <2>1, <3>1 DEF LogsFrom
  <2>3. ReadLog(d.file[Log(n)]) \in logs
    BY <2>2, <1>3 DEF logs
  <2> QED
    BY <1>1, <2>1, <2>3
<1> QED
  BY <1>4, <1>5, <1>6 DEF Shows

\* No acknowledged write is lost: what the process acknowledged can be read
\* again after it ends, and what it synced after the machine crashes, at
\* every moment of Open, of the writes, the flushes, the compactions and the
\* deletions, until something is appended behind a torn record.
THEOREM AcknowledgedLasts == Spec => []OwedIsOnDisk
<1>1. ASSUME DurInv
      PROVE  OwedIsOnDisk
  <2> SUFFICES ASSUME ~torn
               PROVE  /\ owed \subseteq Ids(Replay(Disk))
                      /\ synced \subseteq Ids(Replay(AfterCrash(Disk)))
    BY DEF OwedIsOnDisk
  <2>0. IInv /\ DInv /\ torn = FALSE
    BY <1>1 DEF DurInv, IInv, ProcessTypeOK
  <2>1. /\ DiskOK(Disk, writes) /\ DiskSound(Disk, FALSE)
        /\ owed # {} => dir.current > 1
        /\ synced # {} => ddir.current > 1
    BY <2>0 DEF IInv, DiskInv, AcksBehindInstall
  <2>2. ASSUME NEW i \in owed
        PROVE  i \in Ids(Replay(Disk))
    <3>1. PICK r \in Rec : r.id = i /\ Shown(file, dir, r)
      BY <2>0, <2>2 DEF DInv, Owing
    <3>2. dir.current > 1 /\ dir.current # 0
      BY <2>1, <2>2
    <3>3. Openable(Disk)
      BY <2>1, <3>2, SoundOpens, DiskIs
    <3>4. /\ Current(file, dir).data \in Seq(Edit)
          /\ Current(file, dir).dur \in 0 .. Len(Current(file, dir).data)
          /\ TablesThere(dir, Current(file, dir))
      BY <2>0, <3>2, CurrentIs
    <3>5. \A n \in Nat : Log(n) \in dir.names => ReadLog(file[Log(n)]) = Soft(file[Log(n)])
      BY <2>0, ReadsAll DEF DInv, Names
    <3>6. \A t \in Nat : Table(t) \in dir.names =>
            DOMAIN file[Table(t)].data = 1 .. Len(file[Table(t)].data)
      <4> SUFFICES ASSUME NEW t \in Nat, Table(t) \in dir.names
                   PROVE  DOMAIN file[Table(t)].data = 1 .. Len(file[Table(t)].data)
        OBVIOUS
      <4>1. file[Table(t)].data \in Seq(SUBSET Rec)
        BY <2>0, FilesAre, NameIs DEF IInv, FileOK
      <4> QED
        BY <4>1
    <3>7. r \in Replay(Disk)
      BY <3>1, <3>3, <3>4, <3>5, <3>6, DiskIs, ReplayHas
    <3> QED
      BY <3>1, <3>7 DEF Ids
  <2>3. ASSUME NEW i \in synced
        PROVE  i \in Ids(Replay(AfterCrash(Disk)))
    <3> DEFINE e == AfterCrash(Disk)
               g == e.file
    <3>1. PICK r \in Rec : r.id = i /\ Lasting(file, ddir, r)
      BY <2>0, <2>3 DEF DInv, Owing
    <3>2. ddir.current > 1
      BY <2>1, <2>3
    <3>3. e.dir = ddir /\ \A n \in ddir.names : Cut(file[n], g[n])
      BY <2>0, CutIs DEF Names
    <3>4. Shown(g, ddir, r)
      <4> HIDE DEF e, g
      <4> QED
        BY <2>0, <3>1, <3>2, <3>3, CutDir DEF DInv
    <3>5. DiskOK(e, writes) /\ DiskSound(e, FALSE)
      BY <2>1, AfterCrashKeeps
    <3> HIDE DEF e
    <3>6. Openable(e)
      BY <3>2, <3>3, <3>5, SoundOpens
    <3>7. /\ e.dir.names \subseteq DOMAIN g
          /\ \A n \in e.dir.names : FileOK(n, g[n], writes)
          /\ e.dir.current # 0 /\ DirSound(e.dir, g, FALSE)
      <4>1. ddir.current \in Nat /\ ddir.current # 0
        BY <2>0, <3>2, FilesAre DEF IInv
      <4> QED
        BY <3>3, <3>5, <4>1 DEF DiskOK, DiskSound
    <3>8. /\ Current(g, e.dir).data \in Seq(Edit)
          /\ Current(g, e.dir).dur \in 0 .. Len(Current(g, e.dir).data)
          /\ TablesThere(e.dir, Current(g, e.dir))
      BY <3>7, NameIs DEF DirSound, FileOK, Current
    <3>9. ASSUME NEW n \in Nat, Log(n) \in e.dir.names
          PROVE  ReadLog(g[Log(n)]) = Soft(g[Log(n)])
      <4>1. g[Log(n)].data \in Seq(Rec)
        BY <3>7, <3>9, NameIs DEF FileOK
      <4>2. \A j \in 1 .. Len(g[Log(n)].data) : g[Log(n)].data[j] # Torn
        <5> SUFFICES ASSUME NEW j \in 1 .. Len(g[Log(n)].data)
                     PROVE  g[Log(n)].data[j] # Torn
          OBVIOUS
        <5>1. Cut(file[Log(n)], g[Log(n)]) /\ Log(n) \in Names
          BY <3>3, <3>9 DEF Names
        <5>2. j \in 1 .. Len(file[Log(n)].data) /\ g[Log(n)].data[j] = file[Log(n)].data[j]
          BY <5>1 DEF Cut
        <5> QED
          BY <2>0, <5>1, <5>2 DEF DInv, Whole
      <4> QED
        BY <4>1, <4>2, WholeReads
    <3>10. \A t \in Nat : Table(t) \in e.dir.names =>
             DOMAIN g[Table(t)].data = 1 .. Len(g[Table(t)].data)
      <4> SUFFICES ASSUME NEW t \in Nat, Table(t) \in e.dir.names
                   PROVE  DOMAIN g[Table(t)].data = 1 .. Len(g[Table(t)].data)
        OBVIOUS
      <4>1. g[Table(t)].data \in Seq(SUBSET Rec)
        BY <3>7, NameIs DEF FileOK
      <4> QED
        BY <4>1
    <3>11. r \in Replay(e)
      BY <3>3, <3>4, <3>6, <3>8, <3>9, <3>10, ReplayHas
    <3> QED
      BY <3>1, <3>11 DEF Ids, e
  <2> QED
    BY <2>2, <2>3
<1> QED
  BY <1>1, DurableAlways, PTL

-----------------------------------------------------------------------------
(* Nothing appears that was not written: what a reopened database shows    *)
(* changes only with a write, and with a machine crash.                    *)

(* What the views of directory D show, directory E shows now; and before   *)
(* there is a manifest there is no log.                                    *)
Covered(f, D, E) ==
  /\ D.current = 0 => \A n \in Nat : Log(n) \notin D.names
  /\ D.current # 0 =>
       \A k \in Nat : View(Current(f, D), k) =>
         \A r : Shows(f, D, LiveAt(Current(f, D).data, k), LogNo(Current(f, D).data, k), r)
                  => Shown(f, E, r)

ShownTable(t) == \A r \in Recs(file[Table(t)]) : Shown(file, dir, r)

(* The process has nothing that is not on disk. *)
NothingHidden ==
  /\ Opening => (\A t \in db.add : ShownTable(t)) /\ \A n \in db.todo : db.minlog <= n
  /\ ~Alive => db.mem = {} /\ db.imm = {}
  /\ Alive => /\ \A r \in db.mem \union db.imm : Shown(file, dir, r)
              /\ \A t \in db.live : ShownTable(t)

(* The tables that are not yet installed hold what they were made from. *)
FlushHolds ==
  Alive /\ bg.pc = "built" /\ bg.out # 0 => Recs(file[Table(bg.out)]) \subseteq db.imm

CompactionHolds ==
  Alive /\ comp.pc = "done" =>
    \A r \in Recs(file[Table(comp.out)]) : InTables(file, comp.in, r)

EditHolds ==
  Alive /\ bg.pc \in {"logged", "synced"} =>
    \A t \in bg.edit.add : \A r \in Recs(file[Table(t)]) :
      /\ bg.edit.del = {} => r \in db.imm
      /\ bg.edit.del # {} => InTables(file, bg.edit.del, r)

(* Only writes that were begun are shown. *)
Begun == \A r : Shown(file, dir, r) => r.id \in 1 .. writes

ShownInv ==
  /\ Covered(file, dir, dir) /\ Covered(file, ddir, dir)
  /\ NothingHidden /\ FlushHolds /\ CompactionHolds /\ EditHolds /\ Begun

\* A view of the new files shows no more than the old ones, and X.
LEMMA NoMore ==
  ASSUME NEW f, NEW D, NEW g, NEW E, NEW X, NEW k \in Nat,
         Current(g, E).data = Current(f, D).data,
         \A t \in LiveAt(Current(f, D).data, k) : Recs(g[Table(t)]) = Recs(f[Table(t)]),
         \A n \in Nat : Log(n) \in E.names =>
           \/ Soft(g[Log(n)]) \subseteq X
           \/ Log(n) \in D.names /\ Soft(g[Log(n)]) \subseteq Soft(f[Log(n)]) \union X,
         NEW r,
         Shows(g, E, LiveAt(Current(g, E).data, k), LogNo(Current(g, E).data, k), r)
  PROVE  \/ r \in X
         \/ Shows(f, D, LiveAt(Current(f, D).data, k), LogNo(Current(f, D).data, k), r)
<1> DEFINE T == LiveAt(Current(f, D).data, k)
           l == LogNo(Current(f, D).data, k)
<1>1. Shows(g, E, T, l, r)
  OBVIOUS
<1>2. CASE InTables(g, T, r)
  BY <1>2 DEF InTables, Shows
<1>3. CASE \E n \in Nat : Log(n) \in E.names /\ l <= n /\ r \in Soft(g[Log(n)])
  BY <1>3 DEF Shows
<1> QED
  BY <1>1, <1>2, <1>3 DEF Shows

\* One directory of a quiet step.
LEMMA QuietNoMore ==
  ASSUME IInv, DirsGood, OldNumbers, Numbered, NEW D, D = dir \/ D = ddir,
         NEW E, E.current = D.current, D.names \subseteq E.names, \A n \in D.names : Stays(n),
         NEW X,
         \A n \in Nat : Log(n) \in E.names =>
           \/ Soft(file'[Log(n)]) \subseteq X
           \/ Log(n) \in D.names /\ Soft(file'[Log(n)]) \subseteq Soft(file[Log(n)]) \union X,
         D.current # 0
  PROVE  /\ Current(file', E).data = Current(file, D).data
         /\ \A k \in Nat : View(Current(file', E), k) =>
              /\ View(Current(file, D), k)
              /\ \A r : Shows(file', E, LiveAt(Current(file', E).data, k),
                              LogNo(Current(file', E).data, k), r) =>
                   \/ r \in X
                   \/ Shows(file, D, LiveAt(Current(file, D).data, k),
                            LogNo(Current(file, D).data, k), r)
<1>1. Kept(Current(file, D), Current(file', E))
  BY QuietDir
<1>2. /\ Current(file', E).data = Current(file, D).data
      /\ \A k : View(Current(file', E), k) => View(Current(file, D), k)
  BY <1>1, KeptIs DEF Kept
<1>3. ASSUME NEW k \in Nat, View(Current(file, D), k), NEW t \in LiveAt(Current(file, D).data, k)
      PROVE  Recs(file'[Table(t)]) = Recs(file[Table(t)])
  <2>1. /\ Table(t) \in D.names /\ Done(file[Table(t)])
        /\ Opening \/ Alive => t < db.next
    BY <1>3, ViewTables
  <2>2. Stays(Table(t)) /\ Table(t)[1] = "table" /\ Table(t)[2] = t
    BY <2>1, NameIs
  <2>3. Kept(file[Table(t)], file'[Table(t)])
    BY <2>1, <2>2 DEF Stays
  <2> QED
    BY <2>3, KeptIs
<1>4. ASSUME NEW k \in Nat, View(Current(file', E), k), NEW r,
             Shows(file', E, LiveAt(Current(file', E).data, k),
                   LogNo(Current(file', E).data, k), r)
      PROVE  \/ r \in X
             \/ Shows(file, D, LiveAt(Current(file, D).data, k),
                      LogNo(Current(file, D).data, k), r)
  <2>1. View(Current(file, D), k)
    BY <1>2, <1>4
  <2>2. \A t \in LiveAt(Current(file, D).data, k) : Recs(file'[Table(t)]) = Recs(file[Table(t)])
    BY <1>3, <2>1
  <2> QED
    BY <1>2, <1>4, <2>2, NoMore
<1> QED
  BY <1>2, <1>4

LEMMA QuietShows ==
  ASSUME IInv, DInv, Quiet, NEW X, LoggedOnly(X),
         Covered(file, dir, dir), Covered(file, ddir, dir),
         \A r \in X : Shown(file', dir', r)
  PROVE  /\ \A r : Shown(file', dir', r) => r \in X \/ Shown(file, dir, r)
         /\ Covered(file', dir', dir') /\ Covered(file', ddir', dir')
<1>0. IInv /\ DirsGood /\ OldNumbers /\ OldLogs /\ Numbered
  BY DEF DInv
<1>1. \A r : Shown(file, dir, r) => Shown(file', dir', r)
  BY <1>0, QuietKeeps DEF Retained
<1>2. ASSUME NEW D, D = dir \/ D = ddir, Covered(file, D, dir),
             NEW E, E.current = D.current, D.names \subseteq E.names, \A n \in D.names : Stays(n),
             \A n \in Nat : Log(n) \in E.names =>
               \/ Soft(file'[Log(n)]) \subseteq X
               \/ Log(n) \in D.names /\ Soft(file'[Log(n)]) \subseteq Soft(file[Log(n)]) \union X,
             D.current = 0 => \A n \in Nat : Log(n) \in E.names => Log(n) \in D.names
      PROVE  Covered(file', E, dir')
  <2>1. E.current = 0 => \A n \in Nat : Log(n) \notin E.names
    BY <1>2 DEF Covered
  <2>2. ASSUME E.current # 0, NEW k \in Nat, View(Current(file', E), k), NEW r,
               Shows(file', E, LiveAt(Current(file', E).data, k),
                     LogNo(Current(file', E).data, k), r)
        PROVE  Shown(file', dir', r)
    <3>1. /\ View(Current(file, D), k)
          /\ \/ r \in X
             \/ Shows(file, D, LiveAt(Current(file, D).data, k),
                      LogNo(Current(file, D).data, k), r)
      BY <1>0, <1>2, <2>2, QuietNoMore
    <3>2. r \in X \/ Shown(file, dir, r)
      BY <1>2, <2>2, <3>1 DEF Covered
    <3> QED
      BY <3>2, <1>1
  <2> QED
    BY <2>1, <2>2 DEF Covered
<1>3. \A n \in Nat : Log(n) \in dir'.names =>
        \/ Soft(file'[Log(n)]) \subseteq X
        \/ Log(n) \in dir.names /\ Soft(file'[Log(n)]) \subseteq Soft(file[Log(n)]) \union X
  BY DEF LoggedOnly
<1>4. Covered(file', dir', dir')
  BY <1>2, <1>3 DEF Quiet, LoggedOnly
<1>5. Covered(file', ddir', dir')
  <2>1. CASE ddir' = dir'
    BY <2>1, <1>4
  <2>2. CASE ddir' = dir
    <3>1. \A n \in Nat : Log(n) \in dir.names =>
            \/ Soft(file'[Log(n)]) \subseteq X
            \/ Log(n) \in dir.names /\ Soft(file'[Log(n)]) \subseteq Soft(file[Log(n)]) \union X
      BY <1>3 DEF Quiet
    <3> QED
      BY <2>2, <3>1, <1>2 DEF Quiet
  <2>3. CASE ddir' = ddir
    <3>1. \A n \in Nat : Log(n) \in ddir.names =>
            Soft(file'[Log(n)]) \subseteq Soft(file[Log(n)]) \union X
      BY <2>3 DEF LoggedOnly
    <3> QED
      BY <2>3, <3>1, <1>2 DEF Quiet
  <2> QED
    BY <2>1, <2>2, <2>3 DEF Quiet
<1>6. ASSUME NEW r, Shown(file', dir', r)
      PROVE  r \in X \/ Shown(file, dir, r)
  <2> DEFINE o == Current(file', dir')
             N == Len(o.data)
  <2>1. dir'.current # 0 /\ View(o, N) /\ Shows(file', dir', LiveAt(o.data, N), LogNo(o.data, N), r)
    BY <1>6 DEF Shown
  <2>2. dir.current # 0 /\ \A n \in dir.names : Stays(n)
    BY <2>1 DEF Quiet
  <2>3. N \in Nat
    <3>1. Kept(Current(file, dir), o)
      BY <1>0, <2>2, QuietKeeps
    <3> QED
      BY <3>1 DEF Kept
  <2>4. /\ o.data = Current(file, dir).data
        /\ View(Current(file, dir), N)
        /\ \/ r \in X
           \/ Shows(file, dir, LiveAt(Current(file, dir).data, N),
                    LogNo(Current(file, dir).data, N), r)
    <3> HIDE DEF o, N
    <3>1. /\ Current(file', dir').data = Current(file, dir).data
          /\ View(Current(file', dir'), N) =>
               /\ View(Current(file, dir), N)
               /\ \A s : Shows(file', dir', LiveAt(Current(file', dir').data, N),
                               LogNo(Current(file', dir').data, N), s) =>
                    \/ s \in X
                    \/ Shows(file, dir, LiveAt(Current(file, dir).data, N),
                             LogNo(Current(file, dir).data, N), s)
      BY <1>0, <1>3, <2>2, <2>3, QuietNoMore DEF Quiet
    <3> QED
      BY <3>1, <2>1 DEF o
  <2> QED
    BY <2>2, <2>4 DEF Shown
<1> QED
  BY <1>4, <1>5, <1>6

(* The table numbered t holds the same records after the step. *)
Same(t) == Recs(file'[Table(t)]) = Recs(file[Table(t)])

(* The tables that the process uses. *)
SameTables ==
  /\ Opening => \A t \in db.add : Same(t)
  /\ Alive =>
       /\ \A t \in db.live : Same(t)
       /\ bg.pc = "built" /\ bg.out # 0 => Same(bg.out)
       /\ comp.pc = "done" => Same(comp.out)
       /\ bg.pc \in {"logged", "synced"} => \A t \in bg.edit.add : Same(t)

(* A reopened database shows the same after the step. *)
Steady == \A r : Shown(file', dir', r) <=> Shown(file, dir, r)

\* A table of the edit in flight is in the last view, and finished.
LEMMA EditTables ==
  ASSUME IInv, DInv, Alive, bg.pc \in {"logged", "synced"}, NEW t \in bg.edit.add
  PROVE  t \in Nat /\ Table(t) \in dir.names /\ Done(file[Table(t)]) /\ t < db.next
<1> DEFINE es == Current(file, dir).data
           N == Len(es)
<1>0. DirsGood /\ OldNumbers /\ Numbered /\ EditFollows
  BY DEF DInv
<1>1. dir.current # 0
  BY AliveIs
<1>2. es \in Seq(Edit) /\ N \in Nat
  BY <1>1, CurrentIs
<1>3. View(Current(file, dir), N)
  BY AliveView
<1>4. N # 0
  BY <1>2, <1>3 DEF View
<1>5. es[N] = bg.edit /\ bg.edit \in Edit /\ Counts(es[N])
  BY <1>0 DEF EditFollows, IInv, ProcessTypeOK, Counts
<1>6. t \in Nat
  BY <1>5 DEF Edit
<1>7. t \in LiveAt(es, N)
  BY <1>2, <1>4, <1>5, <1>6, LastEditCounts
<1> QED
  BY <1>0, <1>1, <1>2, <1>3, <1>6, <1>7, ViewTables

LEMMA QuietTables ==
  ASSUME IInv, DInv, Quiet
  PROVE  SameTables
<1>1. ASSUME NEW t \in Nat, Table(t) \in dir.names, Done(file[Table(t)]),
             Opening \/ Alive => t < db.next
      PROVE  Same(t)
  <2>1. Stays(Table(t)) /\ Table(t)[1] = "table" /\ Table(t)[2] = t
    BY <1>1, NameIs DEF Quiet
  <2>2. Kept(file[Table(t)], file'[Table(t)])
    BY <2>1, <1>1 DEF Stays
  <2> QED
    BY <2>2, KeptIs DEF Same
<1>2. ASSUME Opening
      PROVE  \A t \in db.add : Same(t)
  BY <1>1, <1>2, OpeningFacts DEF DInv, Reading, Numbered
<1>3. ASSUME Alive
      PROVE  \A t \in db.live : Same(t)
  BY <1>1, <1>3, AliveIs DEF DInv, TablesFollow, Numbered
<1>4. ASSUME Alive, bg.pc = "built", bg.out # 0
      PROVE  Same(bg.out)
  BY <1>1, <1>4, AliveIs DEF DInv, FlushFollows
<1>5. ASSUME Alive, comp.pc = "done"
      PROVE  Same(comp.out)
  BY <1>1, <1>5, AliveIs DEF DInv, CompactionFollows, Numbered
<1>6. ASSUME Alive, bg.pc \in {"logged", "synced"}
      PROVE  \A t \in bg.edit.add : Same(t)
  BY <1>1, <1>6, EditTables
<1> QED
  BY <1>2, <1>3, <1>4, <1>5, <1>6 DEF SameTables

LEMMA SilentShows ==
  ASSUME IInv, DInv, Silent, ShownInv
  PROVE  /\ Steady /\ SameTables
         /\ Covered(file', dir', dir') /\ Covered(file', ddir', dir')
<1>1. /\ \A r : Shown(file', dir', r) => Shown(file, dir, r)
      /\ Covered(file', dir', dir') /\ Covered(file', ddir', dir')
  BY QuietShows DEF Silent, ShownInv
<1>2. \A r : Shown(file, dir, r) => Shown(file', dir', r)
  BY QuietKeeps DEF Silent, DInv, Retained
<1>3. SameTables
  BY QuietTables DEF Silent
<1> QED
  BY <1>1, <1>2, <1>3 DEF Steady

\* The tables of the process, and what they were made from.
LEMMA HoldsKeep ==
  ASSUME IInv, Alive, ShownInv, SameTables,
         \/ bg' = bg /\ (bg.pc = "built" => db'.imm = db.imm)
         \/ bg'.pc # "built"
         \/ FlushHolds',
         comp' = comp \/ comp'.pc # "done" \/ CompactionHolds',
         \/ bg'.pc \notin {"logged", "synced"}
         \/ /\ bg.pc \in {"logged", "synced"} /\ bg'.edit = bg.edit
            /\ bg.edit.del = {} => db'.imm = db.imm
         \/ EditHolds'
  PROVE  FlushHolds' /\ CompactionHolds' /\ EditHolds'
<1>0. /\ \A t \in db.live : Same(t)
      /\ bg.pc = "built" /\ bg.out # 0 => Same(bg.out)
      /\ comp.pc = "done" => Same(comp.out)
      /\ bg.pc \in {"logged", "synced"} => \A t \in bg.edit.add : Same(t)
  BY DEF SameTables
<1>1. comp.in \subseteq db.live
  BY AliveIs
<1>2. FlushHolds'
  BY <1>0 DEF ShownInv, FlushHolds, Same
<1>3. \A r : InTables(file, comp.in, r) => InTables(file', comp.in, r)
  BY <1>0, <1>1 DEF InTables, Same
<1>4. CompactionHolds'
  BY <1>0, <1>3 DEF ShownInv, CompactionHolds, Same
<1>5. ASSUME Alive', bg'.pc \in {"logged", "synced"}, ~EditHolds',
             NEW t \in bg'.edit.add, NEW r \in Recs(file'[Table(t)])
      PROVE  /\ bg'.edit.del = {} => r \in db'.imm
             /\ bg'.edit.del # {} => InTables(file', bg'.edit.del, r)
  <2>1. /\ bg.pc \in {"logged", "synced"} /\ bg'.edit = bg.edit
        /\ bg.edit.del = {} => db'.imm = db.imm
    BY <1>5
  <2>2. r \in Recs(file[Table(t)])
    BY <1>0, <1>5, <2>1 DEF Same
  <2>3. /\ bg.edit.del = {} => r \in db.imm
        /\ bg.edit.del # {} => InTables(file, bg.edit.del, r)
    BY <1>5, <2>1, <2>2 DEF ShownInv, EditHolds
  <2>4. bg.edit.del # {} => bg.edit.del = comp.in
    BY <2>1 DEF IInv, Flushing
  <2> QED
    BY <2>1, <2>3, <2>4, <1>3
<1>6. EditHolds'
  BY <1>5 DEF EditHolds
<1> QED
  BY <1>2, <1>4, <1>6

\* A step of the running process.
LEMMA AliveShows ==
  ASSUME IInv, ShownInv, Alive, Alive', SameTables,
         Covered(file', dir', dir'), Covered(file', ddir', dir'), Begun',
         \A r : Shown(file, dir, r) => Shown(file', dir', r),
         \A r \in db'.mem \union db'.imm : r \in db.mem \union db.imm \/ Shown(file, dir, r),
         \A t \in db'.live : t \in db.live \/ ShownTable(t)',
         \/ bg' = bg /\ (bg.pc = "built" => db'.imm = db.imm)
         \/ bg'.pc # "built"
         \/ FlushHolds',
         comp' = comp \/ comp'.pc # "done" \/ CompactionHolds',
         \/ bg'.pc \notin {"logged", "synced"}
         \/ /\ bg.pc \in {"logged", "synced"} /\ bg'.edit = bg.edit
            /\ bg.edit.del = {} => db'.imm = db.imm
         \/ EditHolds'
  PROVE  ShownInv'
<1>1. FlushHolds' /\ CompactionHolds' /\ EditHolds'
  BY HoldsKeep
<1>2. NothingHidden'
  <2>1. ~Opening'
    BY DEF Alive, Opening
  <2>2. \A r \in db'.mem \union db'.imm : Shown(file', dir', r)
    BY DEF ShownInv, NothingHidden
  <2>3. \A t \in db'.live : ShownTable(t)'
    BY DEF ShownInv, NothingHidden, SameTables, Same, ShownTable
  <2> QED
    BY <2>1, <2>2, <2>3 DEF NothingHidden
<1> QED
  BY <1>1, <1>2 DEF ShownInv

LEMMA AliveSilentShows ==
  ASSUME IInv, DInv, ShownInv, Alive, Alive', Silent,
         \A r \in db'.mem \union db'.imm : r \in db.mem \union db.imm \/ Shown(file, dir, r),
         db'.live = db.live, writes' = writes,
         \/ bg' = bg /\ (bg.pc = "built" => db'.imm = db.imm)
         \/ bg'.pc # "built"
         \/ FlushHolds',
         comp' = comp \/ comp'.pc # "done" \/ CompactionHolds',
         \/ bg'.pc \notin {"logged", "synced"}
         \/ /\ bg.pc \in {"logged", "synced"} /\ bg'.edit = bg.edit
            /\ bg.edit.del = {} => db'.imm = db.imm
  PROVE  ShownInv' /\ Steady
<1>1. /\ Steady /\ SameTables
      /\ Covered(file', dir', dir') /\ Covered(file', ddir', dir')
  BY SilentShows
<1>2. Begun' /\ \A r : Shown(file, dir, r) => Shown(file', dir', r)
  BY <1>1 DEF ShownInv, Begun, Steady
<1>3. \A t \in db'.live : t \in db.live \/ ShownTable(t)'
  OBVIOUS
<1>4. ShownInv'
  BY <1>1, <1>2, <1>3, AliveShows
<1> QED
  BY <1>1, <1>4

\* The steps that change no file, no table and no edit.
LEMMA IteratorShows ==
  ASSUME IInv, DInv, ShownInv, NewIterator \/ CleanupIteratorState
  PROVE  ShownInv' /\ Steady
<1>1. /\ db.st = "open" /\ UNCHANGED <<dir, ddir, file, bg, comp, wr, writes>>
      /\ \/ db' = [db EXCEPT !.pins = db.live]
         \/ db' = [db EXCEPT !.pins = {}]
  BY DEF NewIterator, CleanupIteratorState, Running
<1>2. /\ db'.st = db.st /\ db'.mem = db.mem /\ db'.imm = db.imm /\ db'.live = db.live
  BY <1>1 DEF IInv, ProcessTypeOK
<1>3. Silent
  BY <1>1, KernelSilent
<1> QED
  BY <1>1, <1>2, <1>3, AliveSilentShows DEF Alive

LEMMA CollectingEndsShows ==
  ASSUME IInv, DInv, ShownInv, CollectingEnds
  PROVE  ShownInv' /\ Steady
<1>0. ProcessTypeOK /\ Resting
  BY DEF IInv
<1>1. /\ UNCHANGED <<dir, ddir, file, comp, wr, writes>>
      /\ db' = [db EXCEPT !.st = "open"] /\ bg' = IdleBg
  BY DEF CollectingEnds
<1>2. Alive /\ Alive'
  <2>1. CASE db.st = "gc"
    BY <2>1, <1>0, <1>1 DEF Alive, ProcessTypeOK
  <2>2. CASE bg.pc = "gc"
    BY <2>2, <1>0, <1>1, IdleOK DEF Alive, ProcessTypeOK, Resting
  <2> QED
    BY <2>1, <2>2 DEF CollectingEnds, Collecting
<1>3. db'.mem = db.mem /\ db'.imm = db.imm /\ db'.live = db.live
  BY <1>0, <1>1 DEF ProcessTypeOK
<1>4. bg'.pc = "idle"
  BY <1>1, IdleOK
<1>5. Silent
  BY <1>1, KernelSilent
<1> QED
  BY <1>1, <1>2, <1>3, <1>4, <1>5, AliveSilentShows

LEMMA SyncLogFailsShows ==
  ASSUME IInv, DInv, ShownInv, SyncLogFails
  PROVE  ShownInv' /\ Steady
<1>0. ProcessTypeOK /\ db.st = "open"
  BY DEF IInv, SyncLogFails, Running
<1>1. /\ UNCHANGED <<dir, ddir, file, bg, comp, writes>>
      /\ db' = [db EXCEPT !.err = TRUE, !.seq = @ + 1]
  BY DEF SyncLogFails
<1>2. db'.st = db.st /\ db'.mem = db.mem /\ db'.imm = db.imm /\ db'.live = db.live
  BY <1>0, <1>1 DEF ProcessTypeOK
<1>3. Silent
  BY <1>1, KernelSilent
<1> QED
  BY <1>0, <1>1, <1>2, <1>3, AliveSilentShows DEF Alive

\* The memtable gets the record that the log already has.
LEMMA InsertAndAcknowledgeShows ==
  ASSUME IInv, DInv, ShownInv, InsertAndAcknowledge
  PROVE  ShownInv' /\ Steady
<1>0. ProcessTypeOK /\ db.st = "open" /\ wr.pc = "insert"
  BY DEF IInv, InsertAndAcknowledge, Running
<1>1. /\ UNCHANGED <<dir, ddir, file, bg, comp, writes>>
      /\ db' = [db EXCEPT !.mem = @ \union {wr.rec}, !.seq = wr.rec.seq]
  BY DEF InsertAndAcknowledge
<1>2. /\ db'.st = db.st /\ db'.mem = db.mem \union {wr.rec}
      /\ db'.imm = db.imm /\ db'.live = db.live
  BY <1>0, <1>1 DEF ProcessTypeOK
<1>3. Shown(file, dir, wr.rec)
  BY <1>0 DEF DInv, Pended
<1>4. Silent
  BY <1>1, KernelSilent
<1>5. \A r \in db'.mem \union db'.imm : r \in db.mem \union db.imm \/ Shown(file, dir, r)
  BY <1>2, <1>3
<1> QED
  BY <1>0, <1>1, <1>2, <1>4, <1>5, AliveSilentShows DEF Alive

LEMMA SyncLogShows ==
  ASSUME IInv, DInv, ShownInv, SyncLog
  PROVE  ShownInv' /\ Steady
<1>1. db.st = "open" /\ UNCHANGED <<db, bg, comp, writes>>
  BY DEF SyncLog
<1>2. Silent
  BY SyncLogLoses
<1> QED
  BY <1>1, <1>2, AliveSilentShows DEF Alive

LEMMA SyncManifestShows ==
  ASSUME IInv, DInv, ShownInv, SyncManifest
  PROVE  ShownInv' /\ Steady
<1>1. /\ db.st = "open" /\ bg.pc = "logged" /\ UNCHANGED <<db, comp, writes>>
      /\ bg' = [bg EXCEPT !.pc = "synced"]
  BY DEF SyncManifest
<1>2. bg'.pc = "synced" /\ bg'.edit = bg.edit
  BY <1>1 DEF IInv, ProcessTypeOK
<1>3. Silent
  BY SyncManifestLoses
<1> QED
  BY <1>1, <1>2, <1>3, AliveSilentShows DEF Alive

\* Nothing that a flush or an edit in flight needs is switched.
LEMMA SwitchMemTableShows ==
  ASSUME IInv, DInv, ShownInv, SwitchMemTable
  PROVE  ShownInv' /\ Steady
<1>0. ProcessTypeOK /\ Alive /\ ~db.hasImm
  BY DEF IInv, SwitchMemTable, Running, Alive
<1>1. /\ UNCHANGED <<bg, comp, writes>>
      /\ db' = [db EXCEPT !.log = db.next, !.next = @ + 1, !.imm = db.mem,
                          !.hasImm = TRUE, !.mem = {}]
  BY DEF SwitchMemTable
<1>2. /\ db'.st = db.st /\ db'.mem = {} /\ db'.imm = db.mem /\ db'.live = db.live
  BY <1>0, <1>1 DEF ProcessTypeOK
<1>3. bg.pc # "built"
  BY <1>0 DEF DInv, FlushFollows
<1>4. bg.pc \in {"logged", "synced"} => bg.edit.del # {}
  BY <1>0 DEF DInv, EditFollows
<1>5. Silent
  BY SwitchMemTableLoses
<1>6. Alive'
  BY <1>0, <1>2 DEF Alive
<1> QED
  BY <1>0, <1>1, <1>2, <1>3, <1>4, <1>5, <1>6, AliveSilentShows

\* The new table holds the immutable memtable.
LEMMA BuildTableShows ==
  ASSUME IInv, DInv, ShownInv, BuildTable
  PROVE  ShownInv' /\ Steady
<1>0. ProcessTypeOK /\ Alive /\ bg.pc = "idle"
  BY DEF IInv, BuildTable, Running, Alive
<1>1. /\ UNCHANGED <<comp, writes>> /\ db' = [db EXCEPT !.next = @ + 1]
      /\ bg' = [bg EXCEPT !.pc = "built", !.out = IF db.imm = {} THEN 0 ELSE db.next]
  BY DEF BuildTable
<1>2. /\ db'.st = db.st /\ db'.mem = db.mem /\ db'.imm = db.imm /\ db'.live = db.live
      /\ bg'.pc = "built" /\ bg'.out = IF db.imm = {} THEN 0 ELSE db.next
  BY <1>0, <1>1 DEF ProcessTypeOK
<1>3. Silent /\ (db.imm # {} => Recs(file'[Table(db.next)]) = db.imm)
  BY BuildTableLoses
<1>4. FlushHolds'
  BY <1>2, <1>3 DEF FlushHolds
<1>5. Alive'
  BY <1>0, <1>2 DEF Alive
<1> QED
  BY <1>0, <1>1, <1>2, <1>3, <1>4, <1>5, AliveSilentShows

LEMMA OpenCompactionOutputFileShows ==
  ASSUME IInv, DInv, ShownInv, OpenCompactionOutputFile
  PROVE  ShownInv' /\ Steady
<1>0. ProcessTypeOK /\ Alive
  BY DEF IInv, OpenCompactionOutputFile, Running, Alive
<1>1. /\ UNCHANGED <<bg, writes>> /\ db' = [db EXCEPT !.next = @ + 1]
      /\ comp' = [pc |-> "open", in |-> db.live, out |-> db.next]
  BY DEF OpenCompactionOutputFile
<1>2. /\ db'.st = db.st /\ db'.mem = db.mem /\ db'.imm = db.imm /\ db'.live = db.live
      /\ comp'.pc # "done"
  BY <1>0, <1>1 DEF ProcessTypeOK
<1>3. Silent
  BY OpenCompactionOutputFileLoses
<1>4. Alive'
  BY <1>0, <1>2 DEF Alive
<1> QED
  BY <1>0, <1>1, <1>2, <1>3, <1>4, AliveSilentShows

\* The output of a compaction holds no more than its inputs.
LEMMA FinishCompactionOutputFileShows ==
  ASSUME IInv, DInv, ShownInv, FinishCompactionOutputFile
  PROVE  ShownInv' /\ Steady
<1>0. ProcessTypeOK /\ Alive
  BY DEF IInv, FinishCompactionOutputFile, Running, Alive
<1>1. /\ UNCHANGED <<db, bg, writes>> /\ comp' = [comp EXCEPT !.pc = "done"]
  BY DEF FinishCompactionOutputFile
<1>2. comp'.in = comp.in /\ comp'.out = comp.out
  BY <1>0, <1>1 DEF ProcessTypeOK
<1>3. Silent /\ \A r \in Recs(file'[Table(comp.out)]) : InTables(file, comp.in, r)
  BY FinishCompactionOutputFileLoses
<1>4. \A t \in comp.in : Same(t)
  BY <1>0, <1>3, QuietTables, AliveIs DEF Silent, SameTables
<1>5. CompactionHolds'
  BY <1>2, <1>3, <1>4 DEF CompactionHolds, InTables, Same
<1>6. Alive'
  BY <1>0, <1>1 DEF Alive
<1> QED
  BY <1>0, <1>1, <1>3, <1>5, <1>6, AliveSilentShows

\* While a database is opened.
LEMMA OpeningSilentShows ==
  ASSUME IInv, DInv, ShownInv, Opening, Opening', Silent,
         db'.mem = db.mem, db'.imm = db.imm, db'.minlog = db.minlog,
         db'.todo \subseteq db.todo, writes' = writes,
         \A t \in db'.add : t \in db.add \/ \A r \in Recs(file'[Table(t)]) : Shown(file, dir, r)
  PROVE  ShownInv' /\ Steady
<1>1. /\ Steady /\ SameTables
      /\ Covered(file', dir', dir') /\ Covered(file', ddir', dir')
  BY SilentShows
<1>2. ~Alive /\ ~Alive'
  BY DEF Alive, Opening
<1>3. FlushHolds' /\ CompactionHolds' /\ EditHolds'
  BY <1>2 DEF FlushHolds, CompactionHolds, EditHolds
<1>4. NothingHidden'
  <2>1. \A t \in db'.add : ShownTable(t)'
    BY <1>1 DEF ShownInv, NothingHidden, Steady, SameTables, Same, ShownTable
  <2>2. (\A n \in db'.todo : db'.minlog <= n) /\ db'.mem = {} /\ db'.imm = {}
    BY <1>2 DEF ShownInv, NothingHidden
  <2> QED
    BY <2>1, <2>2, <1>2 DEF NothingHidden
<1>5. Begun'
  BY <1>1 DEF ShownInv, Begun, Steady
<1> QED
  BY <1>1, <1>3, <1>4, <1>5 DEF ShownInv

\* While no database is there.
LEMMA AsideShows ==
  ASSUME IInv, DInv, ShownInv, ~Opening', ~Alive', Silent,
         db'.mem = {}, db'.imm = {}, writes' = writes
  PROVE  ShownInv' /\ Steady
<1>1. /\ Steady
      /\ Covered(file', dir', dir') /\ Covered(file', ddir', dir')
  BY SilentShows
<1>2. FlushHolds' /\ CompactionHolds' /\ EditHolds' /\ NothingHidden'
  BY DEF FlushHolds, CompactionHolds, EditHolds, NothingHidden
<1>3. Begun'
  BY <1>1 DEF ShownInv, Begun, Steady
<1> QED
  BY <1>1, <1>2, <1>3 DEF ShownInv

LEMMA KernelShows ==
  ASSUME IInv, DInv, ShownInv, CommitDirectory \/ WriteBack
  PROVE  ShownInv' /\ Steady
<1>1. UNCHANGED <<db, bg, comp, writes>>
  BY DEF CommitDirectory, WriteBack
<1>2. Silent
  BY KernelSilent
<1>3. CASE Alive
  <2>1. Alive'
    BY <1>1, <1>3 DEF Alive
  <2> QED
    BY <1>1, <1>2, <1>3, <2>1, AliveSilentShows
<1>4. CASE Opening
  <2>1. Opening'
    BY <1>1, <1>4 DEF Opening
  <2> QED
    BY <1>1, <1>2, <1>4, <2>1, OpeningSilentShows
<1>5. CASE ~Alive /\ ~Opening
  <2>1. ~Alive' /\ ~Opening'
    BY <1>1, <1>5 DEF Alive, Opening
  <2>2. db'.mem = {} /\ db'.imm = {}
    BY <1>1, <1>5 DEF ShownInv, NothingHidden
  <2> QED
    BY <1>1, <1>2, <2>1, <2>2, AsideShows
<1> QED
  BY <1>3, <1>4, <1>5

LEMMA ProcessEndsShows ==
  ASSUME IInv, DInv, ShownInv, ProcessEnds
  PROVE  ShownInv' /\ Steady
<1>1. db' = Down /\ UNCHANGED <<dir, ddir, file, writes>>
  BY DEF ProcessEnds
<1>2. Silent
  BY <1>1, KernelSilent
<1>3. ~Opening' /\ ~Alive' /\ db'.mem = {} /\ db'.imm = {}
  BY <1>1 DEF Opening, Alive, Down
<1> QED
  BY <1>1, <1>2, <1>3, AsideShows

LEMMA NewDBShows ==
  ASSUME IInv, IInv', DInv, ShownInv, NewDB
  PROVE  ShownInv' /\ Steady
<1>1. db.st = "down" /\ db' = [db EXCEPT !.st = "newdb"] /\ UNCHANGED writes
  BY DEF NewDB
<1>2. db'.st = "newdb" /\ db'.mem = db.mem /\ db'.imm = db.imm
  BY <1>1 DEF IInv, ProcessTypeOK
<1>3. ~Opening' /\ ~Alive'
  BY <1>2 DEF Opening, Alive
<1>4. db'.mem = {} /\ db'.imm = {}
  BY <1>1, <1>2 DEF ShownInv, NothingHidden, Alive
<1>5. Silent
  BY NewDBLoses
<1> QED
  BY <1>1, <1>3, <1>4, <1>5, AsideShows

\* The logs to be read are those of the last view.
LEMMA RecoverShows ==
  ASSUME IInv, DInv, ShownInv, Recover
  PROVE  ShownInv' /\ Steady
<1> DEFINE es == file[Manifest(dir.current)].data
           x == es[Max(Full(es))]
<1>0. /\ ProcessTypeOK /\ ~Alive /\ db.st \in {"recover", "down"}
      /\ UNCHANGED <<dir, ddir, file, writes>>
  BY DEF IInv, Recover, Alive
<1>1. Silent
  BY <1>0, KernelSilent
<1>2. db.mem = {} /\ db.imm = {}
  BY <1>0 DEF ShownInv, NothingHidden
<1>3. CASE ~Openable(Disk)
  <2>1. db'.st = "corrupt" /\ db'.mem = {} /\ db'.imm = {}
    BY <1>0, <1>2, <1>3 DEF Recover, ProcessTypeOK
  <2>2. ~Opening' /\ ~Alive'
    BY <2>1 DEF Opening, Alive
  <2> QED
    BY <1>0, <1>1, <2>1, <2>2, AsideShows
<1>4. CASE Openable(Disk)
  <2>1. db' = [db EXCEPT !.st = "logs", !.live = LiveOf(es),
                  !.manifest = x.next, !.next = x.next + 1, !.seq = x.seq,
                  !.minlog = x.log, !.todo = LogsFrom(Disk, x.log)]
    BY <1>4 DEF Recover
  <2> HIDE DEF x, es
  <2>2. /\ db'.st = "logs" /\ db'.mem = {} /\ db'.imm = {} /\ db'.add = db.add
        /\ db'.minlog = x.log /\ db'.todo = LogsFrom(Disk, x.log)
    BY <1>0, <1>2, <2>1 DEF ProcessTypeOK
  <2>3. db'.add = {}
    BY <1>0, <2>2 DEF IInv, Recovering
  <2>4. \A n \in db'.todo : db'.minlog <= n
    BY <2>2 DEF LogsFrom
  <2>5. ~Alive'
    BY <2>2 DEF Alive
  <2>6. NothingHidden'
    BY <2>2, <2>3, <2>4, <2>5 DEF NothingHidden
  <2>7. FlushHolds' /\ CompactionHolds' /\ EditHolds'
    BY <2>5 DEF FlushHolds, CompactionHolds, EditHolds
  <2>8. /\ Steady
        /\ Covered(file', dir', dir') /\ Covered(file', ddir', dir')
    BY <1>1, SilentShows
  <2>9. Begun'
    BY <1>0, <2>8 DEF ShownInv, Begun, Steady
  <2> QED
    BY <2>6, <2>7, <2>8, <2>9 DEF ShownInv
<1> QED
  BY <1>3, <1>4

\* The records of a log that is read are shown.
LEMMA TodoShown ==
  ASSUME IInv, DInv, ShownInv, Opening, NEW n \in db.todo, NEW r \in Soft(file[Log(n)])
  PROVE  Shown(file, dir, r)
<1>1. /\ View(Current(file, dir), Len(Current(file, dir).data))
      /\ db.minlog = LogNo(Current(file, dir).data, Len(Current(file, dir).data))
  BY DEF DInv, Reading
<1>2. n \in Nat /\ Log(n) \in dir.names /\ dir.current # 0
  BY OpeningFacts
<1>3. db.minlog <= n
  BY DEF ShownInv, NothingHidden
<1> QED
  BY <1>1, <1>2, <1>3 DEF Shown, Shows

LEMMA RecoverLogFileShows ==
  ASSUME IInv, IInv', DInv, ShownInv, RecoverLogFile
  PROVE  ShownInv' /\ Steady
<1> DEFINE n == Min(db.todo)
           recs == ReadLog(file[Log(n)])
           top == Max({r.seq : r \in recs} \union {db.seq})
<1>0. ProcessTypeOK /\ db.st = "logs" /\ UNCHANGED writes
  BY DEF IInv, RecoverLogFile
<1>1. \/ db' = [db EXCEPT !.todo = @ \ {n}, !.next = MaxOf(@, n + 1)]
      \/ db' = [db EXCEPT !.todo = @ \ {n}, !.add = @ \union {db.next},
                          !.next = MaxOf(@ + 1, n + 1), !.seq = top]
  BY DEF RecoverLogFile
<1> HIDE DEF n, recs, top
<1>2. /\ db'.st = "logs" /\ db'.mem = db.mem /\ db'.imm = db.imm /\ db'.minlog = db.minlog
      /\ db'.todo = db.todo \ {n}
  BY <1>0, <1>1 DEF ProcessTypeOK
<1>3. Opening /\ Opening'
  BY <1>0, <1>2 DEF Opening
<1>4. Silent
  BY RecoverLogFileLoses
<1>5. \A t \in db'.add : \/ t \in db.add
                         \/ \E k \in db.todo : Recs(file'[Table(t)]) = Soft(file[Log(k)])
  BY RecoverLogFileLoses
<1>6. \A t \in db'.add : t \in db.add \/ \A r \in Recs(file'[Table(t)]) : Shown(file, dir, r)
  BY <1>3, <1>5, TodoShown
<1> QED
  BY <1>0, <1>2, <1>3, <1>4, <1>6, OpeningSilentShows

\* The new log and the new manifest are written.
LEMMA OpenLogShows ==
  ASSUME IInv, IInv', DInv, ShownInv, OpenLog
  PROVE  ShownInv' /\ Steady
<1>0. ProcessTypeOK /\ db.st = "logs" /\ UNCHANGED writes
  BY DEF IInv, OpenLog
<1>1. db' = [db EXCEPT !.st = "edit", !.log = db.next, !.next = @ + 1]
  BY DEF OpenLog
<1>2. /\ db'.st = "edit" /\ db'.mem = db.mem /\ db'.imm = db.imm /\ db'.minlog = db.minlog
      /\ db'.todo = db.todo /\ db'.add = db.add
  BY <1>0, <1>1 DEF ProcessTypeOK
<1>3. Opening /\ Opening'
  BY <1>0, <1>2 DEF Opening
<1>4. Silent
  BY OpenLogLoses
<1> QED
  BY <1>0, <1>2, <1>3, <1>4, OpeningSilentShows

LEMMA OpenManifestShows ==
  ASSUME IInv, IInv', DInv, ShownInv, OpenManifest
  PROVE  ShownInv' /\ Steady
<1>0. ProcessTypeOK /\ db.st = "edit" /\ UNCHANGED writes
  BY DEF IInv, OpenManifest
<1>1. db' = [db EXCEPT !.st = "sync"]
  BY DEF OpenManifest
<1>2. /\ db'.st = "sync" /\ db'.mem = db.mem /\ db'.imm = db.imm /\ db'.minlog = db.minlog
      /\ db'.todo = db.todo /\ db'.add = db.add
  BY <1>0, <1>1 DEF ProcessTypeOK
<1>3. Opening /\ Opening'
  BY <1>0, <1>2 DEF Opening
<1>4. Silent
  BY OpenManifestLoses
<1> QED
  BY <1>0, <1>2, <1>3, <1>4, OpeningSilentShows

LEMMA OpenSyncShows ==
  ASSUME IInv, IInv', DInv, ShownInv, OpenSync
  PROVE  ShownInv' /\ Steady
<1>0. ProcessTypeOK /\ db.st = "sync" /\ UNCHANGED writes
  BY DEF IInv, OpenSync
<1>1. db' = [db EXCEPT !.st = "current"]
  BY DEF OpenSync
<1>2. /\ db'.st = "current" /\ db'.mem = db.mem /\ db'.imm = db.imm /\ db'.minlog = db.minlog
      /\ db'.todo = db.todo /\ db'.add = db.add
  BY <1>0, <1>1 DEF ProcessTypeOK
<1>3. Opening /\ Opening'
  BY <1>0, <1>2 DEF Opening
<1>4. Silent
  BY OpenSyncLoses
<1> QED
  BY <1>0, <1>2, <1>3, <1>4, OpeningSilentShows

\* The steps that switch or shorten the directory.
LEMMA NewDBCurrentShows ==
  ASSUME IInv, IInv', DInv, ShownInv, NewDBCurrent
  PROVE  ShownInv' /\ Steady
<1>0. /\ ProcessTypeOK /\ db.st = "newdb" /\ UNCHANGED writes
      /\ SetDisk(SetCurrentFile(Disk, 1)) /\ db' = [db EXCEPT !.st = "recover"]
  BY DEF NewDBCurrent, IInv
<1>1. db'.st = "recover" /\ db'.mem = db.mem /\ db'.imm = db.imm
  BY <1>0 DEF ProcessTypeOK
<1>2. /\ dir'.names = dir.names /\ dir'.current = 1 /\ ddir' = dir
  BY <1>0, SwitchIs DEF DInv
<1>3. dir.current = 0 /\ \A n \in Nat : Log(n) \notin dir.names
  BY <1>0 DEF IInv, Created, ShownInv, Covered
<1>4. \A k \in Nat : View(Current(file', dir'), k) => LiveAt(Current(file', dir').data, k) = {}
  BY NewDBCurrentLoses
<1>5. ASSUME NEW k \in Nat, View(Current(file', dir'), k), NEW r,
             Shows(file', dir', LiveAt(Current(file', dir').data, k),
                   LogNo(Current(file', dir').data, k), r)
      PROVE  FALSE
  BY <1>2, <1>3, <1>4, <1>5 DEF Shows, InTables
<1>6. Covered(file', dir', dir') /\ Covered(file', ddir', dir')
  BY <1>2, <1>3, <1>5 DEF Covered
<1>7. ASSUME NEW r, Shown(file', dir', r)
      PROVE  FALSE
  <2>1. Manifest(1) \in dir.names /\ Len(file[Manifest(1)].data) = 1
    BY <1>0 DEF IInv, Created
  <2>2. file'[Manifest(1)] = file[Manifest(1)]
    BY <1>0, <2>1, SwitchIs DEF DInv
  <2>3. Len(Current(file', dir').data) \in Nat
    BY <1>2, <2>1, <2>2 DEF Current
  <2> QED
    BY <1>5, <1>7, <2>3 DEF Shown
<1>8. \A r : ~Shown(file, dir, r)
  BY <1>3 DEF Shown
<1>9. Steady /\ Begun'
  BY <1>7, <1>8 DEF Steady, Begun
<1>10. ~Alive /\ ~Alive' /\ ~Opening'
  BY <1>0, <1>1 DEF Alive, Opening
<1>11. NothingHidden' /\ FlushHolds' /\ CompactionHolds' /\ EditHolds'
  BY <1>1, <1>10 DEF ShownInv, NothingHidden, FlushHolds, CompactionHolds, EditHolds
<1> QED
  BY <1>6, <1>9, <1>11 DEF ShownInv

\* The new manifest shows the tables of the old one, and those of the logs.
LEMMA OpenInstallShows ==
  ASSUME IInv, IInv', DInv, ShownInv, OpenInstall
  PROVE  ShownInv' /\ Steady
<1> DEFINE m == file[Manifest(db.manifest)]
           old == Current(file, dir)
           N == Len(old.data)
           live == db.live \union db.add
<1>0. /\ ProcessTypeOK /\ db.st = "current" /\ Opening
      /\ UNCHANGED <<bg, comp, wr, writes>>
      /\ SetDisk(SetCurrentFile(Disk, db.manifest))
      /\ db'.st = "gc" /\ db'.mem = db.mem /\ db'.imm = db.imm /\ db'.live = live
  BY DEF OpenInstall, IInv, ProcessTypeOK, Opening
<1>1. /\ dir.current # 0 /\ db.log \in Nat /\ db.manifest # 0
      /\ live \subseteq Nat /\ \A t \in live : Table(t) \in dir.names
      /\ bg = IdleBg /\ comp = NoComp
  BY <1>0, OpeningFacts
<1>2. /\ dir'.names = dir.names /\ dir'.current = db.manifest /\ ddir' = dir
      /\ \A x \in dir.names : file'[x] = file[x]
  BY <1>0, SwitchIs DEF DInv
<1>3. /\ Manifest(db.manifest) \in dir.names /\ Len(m.data) = 2
      /\ View(m, 2) /\ (\A k \in Nat : View(m, k) => k = 2)
      /\ LiveAt(m.data, 2) = live /\ LogNo(m.data, 2) = db.log
  BY <1>0, NewManifest DEF DInv
<1>4. Current(file', dir') = m
  BY <1>2, <1>3 DEF Current
<1>5. /\ View(old, N) /\ N \in Nat /\ db.live = LiveAt(old.data, N)
      /\ file[Log(db.log)].data = << >>
  BY <1>0, <1>1, CurrentIs DEF DInv, Reading
<1> HIDE DEF m
<1>6. \A n \in Nat : Log(n) \in dir.names => n <= db.log
  BY <1>0 DEF DInv, Numbered, Names
<1>7. \A r : Shown(file, dir, r) => Shown(file', dir', r)
  BY OpenInstallLoses
<1>8. ASSUME NEW r, Shows(file', dir', live, db.log, r)
      PROVE  Shown(file, dir, r)
  <2>1. CASE InTables(file', live, r)
    <3>1. PICK t \in live : r \in Recs(file'[Table(t)])
      BY <2>1 DEF InTables
    <3>2. r \in Recs(file[Table(t)])
      BY <1>1, <1>2, <3>1
    <3>3. CASE t \in db.live
      BY <1>1, <1>5, <3>2, <3>3 DEF Shown, Shows, InTables
    <3>4. CASE t \in db.add
      BY <1>0, <3>2, <3>4 DEF ShownInv, NothingHidden, ShownTable
    <3> QED
      BY <3>3, <3>4
  <2>2. CASE \E n \in Nat : Log(n) \in dir'.names /\ db.log <= n /\ r \in Soft(file'[Log(n)])
    <3>1. PICK n \in Nat : Log(n) \in dir'.names /\ db.log <= n /\ r \in Soft(file'[Log(n)])
      BY <2>2
    <3>2. n = db.log
      BY <1>1, <1>2, <1>6, <3>1
    <3>3. Soft(file'[Log(n)]) = {}
      BY <1>2, <1>5, <3>1, <3>2 DEF Soft
    <3> QED
      BY <3>1, <3>3
  <2> QED
    BY <1>8, <2>1, <2>2 DEF Shows
<1>9. \A r : Shown(file', dir', r) => Shown(file, dir, r)
  BY <1>3, <1>4, <1>8 DEF Shown
<1>10. Steady /\ Begun'
  BY <1>0, <1>7, <1>9 DEF Steady, Begun, ShownInv
<1>11. Covered(file', dir', dir')
  BY <1>1, <1>2, <1>3, <1>4, <1>7, <1>8 DEF Covered
<1>12. Covered(file', ddir', dir')
  <2> SUFFICES ASSUME NEW k \in Nat, View(Current(file', dir), k), NEW r,
                      Shows(file', dir, LiveAt(Current(file', dir).data, k),
                            LogNo(Current(file', dir).data, k), r)
               PROVE  Shown(file', dir', r)
    BY <1>1, <1>2 DEF Covered
  <2>1. Current(file', dir) = old
    BY <1>1, <1>2, CurrentIs DEF Current
  <2>2. \A t \in LiveAt(old.data, k) : Table(t) \in dir.names
    BY <1>1, <2>1, CurrentIs DEF TablesThere, View
  <2>3. \A t \in LiveAt(old.data, k) : Recs(file'[Table(t)]) = Recs(file[Table(t)])
    BY <1>2, <2>2
  <2>4. InTables(file', LiveAt(old.data, k), r) => InTables(file, LiveAt(old.data, k), r)
    BY <2>3 DEF InTables
  <2>5. Shows(file, dir, LiveAt(old.data, k), LogNo(old.data, k), r)
    BY <1>2, <2>1, <2>4 DEF Shows
  <2>6. Shown(file, dir, r)
    BY <1>1, <2>1, <2>5 DEF ShownInv, Covered
  <2> QED
    BY <2>6, <1>7
<1>13. Alive' /\ ~Opening' /\ ~Alive
  BY <1>0 DEF Alive, Opening
<1>14. FlushHolds' /\ CompactionHolds' /\ EditHolds'
  <2>1. bg'.pc = "idle" /\ comp'.pc = "idle"
    BY <1>0, <1>1, IdleOK
  <2> QED
    BY <2>1 DEF FlushHolds, CompactionHolds, EditHolds
<1>15. NothingHidden'
  <2>1. db'.mem = {} /\ db'.imm = {}
    BY <1>0, <1>13 DEF ShownInv, NothingHidden
  <2>2. ASSUME NEW t \in live, NEW r \in Recs(file'[Table(t)])
        PROVE  Shown(file', dir', r)
    BY <1>7, <1>8, <2>2 DEF Shows, InTables
  <2> QED
    BY <1>0, <1>13, <2>1, <2>2 DEF NothingHidden, ShownTable
<1> QED
  BY <1>10, <1>11, <1>12, <1>14, <1>15 DEF ShownInv

\* A directory of which a name may have gone.
LEMMA FewerCovers ==
  ASSUME IInv, IInv', Fewer, ShownInv, NEW E, E = dir' \/ E = ddir',
         \A r : Shown(file, dir, r) => Shown(file', dir', r)
  PROVE  /\ Covered(file', E, dir')
         /\ E = dir' => \A r : Shown(file', dir', r) => Shown(file, dir, r)
<1>0. PICK D : (D = dir /\ E = dir') \/ (D = ddir /\ E = ddir')
  OBVIOUS
<1>1. /\ E.current = D.current /\ E.names \subseteq D.names /\ E.names \subseteq Names'
      /\ Covered(file, D, dir)
  BY <1>0 DEF Fewer, Names, ShownInv
<1>2. \A n \in E.names : file'[n] = file[n]
  BY <1>1 DEF Fewer
<1>3. E.current # 0 => /\ Manifest(E.current) \in E.names
                       /\ TablesThere(E, Current(file', E))
  <2>1. DiskSound(Disk, torn)'
    BY DEF IInv, DiskInv
  <2>2. DirSound(dir', file', torn') /\ DirSound(ddir', file', torn')
    BY <2>1 DEF DiskSound, Disk
  <2> QED
    BY <2>2 DEF DirSound, Current
<1>4. ASSUME E.current # 0, NEW k \in Nat, View(Current(file', E), k), NEW r,
             Shows(file', E, LiveAt(Current(file', E).data, k), LogNo(Current(file', E).data, k), r)
      PROVE  Shown(file, dir, r)
  <2>1. Current(file', E) = Current(file, D)
    BY <1>1, <1>2, <1>3, <1>4 DEF Current
  <2> DEFINE es == Current(file, D).data
  <2>2. \A t \in LiveAt(es, k) : Table(t) \in E.names
    BY <1>3, <1>4, <2>1 DEF TablesThere, View
  <2>3. \A t \in LiveAt(es, k) : Recs(file'[Table(t)]) = Recs(file[Table(t)])
    BY <1>2, <2>2
  <2>4. InTables(file', LiveAt(es, k), r) => InTables(file, LiveAt(es, k), r)
    BY <2>3 DEF InTables
  <2>5. Shows(file, D, LiveAt(es, k), LogNo(es, k), r)
    BY <1>1, <1>2, <1>4, <2>1, <2>4 DEF Shows
  <2> QED
    BY <1>1, <1>4, <2>1, <2>5 DEF Covered
<1>5. Covered(file', E, dir')
  BY <1>1, <1>4 DEF Covered
<1>6. ASSUME NEW r, Shown(file', dir', r), E = dir'
      PROVE  Shown(file, dir, r)
  <2>1. /\ E.current # 0 /\ View(Current(file', E), Len(Current(file', E).data))
        /\ Shows(file', E, LiveAt(Current(file', E).data, Len(Current(file', E).data)),
                 LogNo(Current(file', E).data, Len(Current(file', E).data)), r)
    BY <1>6 DEF Shown
  <2>2. Len(Current(file', E).data) \in Nat
    <3>1. Current(file', E) = Current(file, D) /\ D.current # 0
      BY <1>1, <1>2, <1>3, <2>1 DEF Current
    <3> QED
      BY <1>0, <3>1, CurrentIs
  <2> QED
    BY <1>4, <2>1, <2>2
<1> QED
  BY <1>5, <1>6

LEMMA DeleteObsoleteFileShows ==
  ASSUME IInv, IInv', DInv, ShownInv, DeleteObsoleteFile
  PROVE  ShownInv' /\ Steady
<1>0. /\ ProcessTypeOK /\ UNCHANGED <<db, bg, comp, writes>>
      /\ db.st = "gc" \/ bg.pc = "gc"
  BY DEF IInv, DeleteObsoleteFile, Collecting
<1>1. db.st \in {"gc", "open"} /\ bg.pc \in {"idle", "gc"}
  BY <1>0, IdleOK DEF IInv, Resting
<1>2. Alive /\ Alive' /\ ~Opening
  BY <1>0, <1>1 DEF Alive, Opening
<1>3. Fewer /\ \A r : Shown(file, dir, r) => Shown(file', dir', r)
  BY DeleteObsoleteFileLoses DEF Retained
<1>4. /\ Covered(file', dir', dir') /\ Covered(file', ddir', dir')
      /\ \A r : Shown(file', dir', r) => Shown(file, dir, r)
  <2>1. Covered(file', dir', dir')
    BY <1>3, FewerCovers
  <2>3. \A r : Shown(file', dir', r) => Shown(file, dir, r)
    BY <1>3, FewerCovers
  <2>2. Covered(file', ddir', dir')
    BY <1>3, FewerCovers
  <2> QED
    BY <2>1, <2>2, <2>3
<1>5. Steady /\ Begun'
  BY <1>0, <1>3, <1>4 DEF Steady, ShownInv, Begun
<1>6. /\ \A t \in db.live : Table(t) \in dir'.names
      /\ comp.pc = "done" => Table(comp.out) \in dir'.names
  <2>1. Opened' /\ Compacting'
    BY DEF IInv
  <2> QED
    BY <2>1, <1>0, <1>1 DEF Opened, Compacting, On
<1>7. SameTables
  <2>1. \A n \in dir'.names : file'[n] = file[n]
    BY <1>3 DEF Fewer, Names
  <2> QED
    BY <2>1, <1>1, <1>2, <1>6 DEF SameTables, Same
<1> QED
  BY <1>0, <1>1, <1>2, <1>3, <1>4, <1>5, <1>7, AliveShows

\* The new version's tables hold what the memtable or the old tables hold.
LEMMA InstallVersionShows ==
  ASSUME IInv, DInv, ShownInv, InstallVersion
  PROVE  ShownInv' /\ Steady
<1>0. /\ ProcessTypeOK /\ db.st = "open" /\ bg.pc = "synced"
      /\ UNCHANGED <<dir, ddir, file, writes>> /\ bg' = [bg EXCEPT !.pc = "gc"]
  BY DEF IInv, InstallVersion, Running
<1>1. /\ db'.st = db.st /\ db'.mem = db.mem
      /\ db'.live = (db.live \ bg.edit.del) \union bg.edit.add
      /\ db'.imm = {} \/ db'.imm = db.imm
      /\ comp' = comp \/ comp' = NoComp
      /\ bg'.pc = "gc"
  BY <1>0 DEF InstallVersion, ProcessTypeOK
<1>2. Alive /\ Alive'
  BY <1>0, <1>1 DEF Alive
<1>3. Silent
  BY <1>0, KernelSilent
<1>4. /\ Steady /\ SameTables
      /\ Covered(file', dir', dir') /\ Covered(file', ddir', dir')
  BY <1>3, SilentShows
<1>5. comp' = comp \/ comp'.pc # "done"
  BY <1>1, IdleOK
<1>6. ASSUME NEW t \in bg.edit.add, NEW r \in Recs(file[Table(t)])
      PROVE  Shown(file, dir, r)
  <2>1. CASE bg.edit.del = {}
    <3>1. r \in db.imm
      BY <1>0, <1>2, <1>6, <2>1 DEF ShownInv, EditHolds
    <3> QED
      BY <1>2, <3>1 DEF ShownInv, NothingHidden
  <2>2. CASE bg.edit.del # {}
    <3>1. InTables(file, bg.edit.del, r)
      BY <1>0, <1>2, <1>6, <2>2 DEF ShownInv, EditHolds
    <3>2. bg.edit.del \subseteq db.live
      BY <1>0, <1>2, <2>2, AliveIs DEF IInv, Flushing
    <3> QED
      BY <1>2, <3>1, <3>2 DEF ShownInv, NothingHidden, ShownTable, InTables
  <2> QED
    BY <2>1, <2>2
<1>7. \A t \in db'.live : t \in db.live \/ ShownTable(t)'
  BY <1>0, <1>1, <1>6 DEF ShownTable
<1>8. Begun'
  BY <1>0, <1>4 DEF ShownInv, Begun, Steady
<1>9. /\ \A r : Shown(file, dir, r) => Shown(file', dir', r)
      /\ \A r \in db'.mem \union db'.imm : r \in db.mem \union db.imm \/ Shown(file, dir, r)
  BY <1>1, <1>4 DEF Steady
<1>10. ShownInv'
  BY <1>1, <1>2, <1>4, <1>5, <1>7, <1>8, <1>9, AliveShows
<1> QED
  BY <1>4, <1>10

\* A write: its record is the only one that appears.
LEMMA LogWriteShows ==
  ASSUME IInv, IInv', DInv, ShownInv, NEW sync \in BOOLEAN, LogWrite(sync)
  PROVE  /\ ShownInv' /\ wr'.rec.id = writes + 1 /\ writes' = writes + 1
         /\ \A r : Shown(file', dir', r) <=> Shown(file, dir, r) \/ r = wr'.rec
<1> DEFINE name == Log(db.log)
           rec == [id |-> writes + 1, seq |-> db.seq + 1]
<1>0. /\ ProcessTypeOK /\ db.st = "open" /\ Alive
      /\ UNCHANGED <<db, bg, comp>> /\ writes' = writes + 1
      /\ SetDisk(AddRecord(Disk, name, rec))
      /\ wr' = [pc |-> IF sync THEN "sync" ELSE "insert", sync |-> sync, rec |-> rec]
  BY DEF IInv, LogWrite, CanWrite, Running, Alive
<1>1. name \in dir.names /\ db.log \in Nat /\ dir.current # 0
  BY <1>0, AliveIs
<1>2. wr'.rec = rec /\ wr'.pc # "idle" /\ rec.id = writes + 1
  <2>1. wr'.rec = rec /\ wr'.pc = (IF sync THEN "sync" ELSE "insert")
    BY <1>0
  <2> QED
    BY <2>1
<1> HIDE DEF rec
<1>3. /\ Quiet /\ Others(name) /\ dir' = dir /\ ddir' = ddir
      /\ file'[name].data = Append(file[name].data, rec)
      /\ file[name].data \in Seq(Rec)
  BY <1>0, <1>1, AppendQuiet
<1>4. /\ Len(file'[name].data) = Len(file[name].data) + 1 /\ Len(file[name].data) \in Nat
      /\ \A i \in 1 .. Len(file[name].data) : file'[name].data[i] = file[name].data[i]
      /\ file'[name].data[Len(file[name].data) + 1] = rec
  BY <1>3, AppendProperties, LenProperties
<1>5. Soft(file'[name]) \subseteq Soft(file[name]) \union {rec}
  <2>1. ASSUME NEW i \in 1 .. Len(file'[name].data)
        PROVE  file'[name].data[i] \in Soft(file[name]) \union {rec}
    <3>1. i \in 1 .. Len(file[name].data) \/ i = Len(file[name].data) + 1
      BY <1>4
    <3> QED
      BY <3>1, <1>4 DEF Soft
  <2> QED
    BY <2>1 DEF Soft
<1>6. \A n \in Names : n # name => file'[n] = file[n]
  BY <1>3 DEF Others, Names
<1>7. \A n \in Nat : Log(n) \in Names => Soft(file'[Log(n)]) \subseteq Soft(file[Log(n)]) \union {rec}
  BY <1>5, <1>6
<1>8. LoggedOnly({rec})
  BY <1>3, <1>7 DEF LoggedOnly, Names
<1>9. Shown(file', dir', rec)
  <2>1. DInv'
    BY LogWriteLoses
  <2> QED
    BY <2>1, <1>2 DEF DInv, Pended
<1>10. /\ \A r : Shown(file', dir', r) => r \in {rec} \/ Shown(file, dir, r)
       /\ Covered(file', dir', dir') /\ Covered(file', ddir', dir')
  BY <1>3, <1>8, <1>9, QuietShows DEF ShownInv
<1>11. \A r : Shown(file, dir, r) => Shown(file', dir', r)
  BY <1>3, QuietKeeps DEF DInv, Retained
<1>12. SameTables
  BY <1>3, QuietTables
<1>13. Begun'
  <2>1. \A i \in 1 .. writes : i \in 1 .. writes + 1
    BY DEF IInv, CountsOK
  <2>2. writes + 1 \in 1 .. writes + 1
    BY DEF IInv, CountsOK
  <2> QED
    BY <1>0, <1>2, <1>10, <2>1, <2>2 DEF ShownInv, Begun
<1>14. Alive'
  BY <1>0 DEF Alive
<1>15. ShownInv'
  BY <1>0, <1>10, <1>11, <1>12, <1>13, <1>14, AliveShows
<1> QED
  BY <1>0, <1>2, <1>9, <1>10, <1>11, <1>15

\* One more edit, whose tables hold what was shown.
LEMMA AppendedShows ==
  ASSUME IInv, DInv, ShownInv, Alive, NEW x, Appended(x), Fits(Current(file, dir).data, x),
         \A t \in x.add : \A r \in Recs(file[Table(t)]) : Shown(file, dir, r)
  PROVE  /\ Steady /\ SameTables
         /\ Covered(file', dir', dir') /\ Covered(file', ddir', dir')
<1> DEFINE m == Current(file, dir)
           o == Current(file', dir)
           es == m.data
           fs == Append(es, x)
           N == Len(es)
<1>0. DirsGood /\ Numbered /\ LogsFollow
  BY DEF DInv
<1>1. /\ \A t : Table(t) \in Names => file'[Table(t)] = file[Table(t)]
      /\ \A n : Log(n) \in Names => file'[Log(n)] = file[Log(n)]
  <2>1. \A n : Log(n) # Manifest(dir.current) /\ Table(n) # Manifest(dir.current)
    BY DEF Log, Table, Manifest
  <2> QED
    BY <2>1 DEF Appended
<1>2. /\ dir.current # 0 /\ db.log \in Nat /\ db.minlog \in Nat
      /\ dir' = dir /\ ddir' = ddir /\ o.data = fs /\ o.dur = m.dur
  BY AliveIs DEF Appended
<1>3. /\ es \in Seq(Edit) /\ x \in Edit /\ N \in Nat /\ m.dur \in 0 .. N /\ View(m, N)
      /\ TablesThere(dir, m)
  BY <1>2, AliveView, CurrentIs DEF Fits
<1>4. /\ N \in Nat /\ Len(fs) = N + 1 /\ fs[N + 1] = x
      /\ \A i \in 1 .. N : fs[i] = es[i]
      /\ \A k \in Nat : k <= N =>
           /\ LiveAt(fs, k) = LiveAt(es, k)
           /\ (\E i \in 1 .. k : Counts(es[i])) <=> (\E i \in 1 .. k : Counts(fs[i]))
           /\ (\E i \in 1 .. k : Counts(es[i])) =>
                LogNo(fs, k) = LogNo(es, k) /\ NextNo(fs, k) = NextNo(es, k)
      /\ LiveAt(fs, N + 1) \subseteq (LiveAt(es, N) \ x.del) \union x.add
  BY <1>3, EditAdded
<1>5. /\ db.minlog <= LogNo(fs, N + 1) /\ LogNo(fs, N + 1) <= db.log
      /\ \A t \in x.add : Table(t) \in dir.names
  BY DEF Fits
<1> HIDE DEF m, o, es, fs, N
<1>6. LogNo(es, N) <= db.log
  BY <1>0, <1>3 DEF LogsFollow, m, es
<1>7. ASSUME NEW k \in Nat, View(o, k)
      PROVE  k = N + 1 \/ (k <= N /\ View(m, k))
  <2>1. k \in m.dur .. N + 1
    BY <1>2, <1>4, <1>7 DEF View
  <2>2. CASE k <= N
    <3>1. k \in m.dur .. Len(m.data)
      BY <1>3, <1>4, <2>1, <2>2 DEF N, es
    <3>2. \E i \in 1 .. k : Counts(o.data[i])
      BY <1>7 DEF View
    <3>3. \E i \in 1 .. k : Counts(m.data[i])
      BY <1>2, <1>4, <2>2, <3>2 DEF es
    <3> QED
      BY <2>2, <3>1, <3>3 DEF View
  <2> QED
    BY <1>3, <1>4, <2>1, <2>2
<1>8. LogNo(es, N) \in Nat /\ LogNo(fs, N + 1) \in Nat
  <2>1. \A i \in 1 .. N + 1 : fs[i] \in Edit
    <3> SUFFICES ASSUME NEW i \in 1 .. N + 1
                 PROVE  fs[i] \in Edit
      OBVIOUS
    <3>1. CASE i = N + 1
      BY <3>1, <1>3, <1>4
    <3>2. CASE i # N + 1
      <4>1. i \in 1 .. N
        BY <3>2, <1>4
      <4>2. es[i] \in Edit
        BY <4>1, <1>3, ElementOfSeq DEF N
      <4> QED
        BY <4>1, <4>2, <1>4
    <3> QED
      BY <3>1, <3>2
  <2>2. \A y \in Edit : y.log \in Nat
    BY DEF Edit
  <2>3. PICK i \in 1 .. N : Counts(es[i])
    BY <1>3 DEF View, es
  <2>4. Deciding(es, N) \in 1 .. N
    BY <1>3, <2>3, DecidingIs
  <2>5. \E j \in 1 .. N + 1 : Counts(fs[j])
    BY <1>3, <1>4, <2>3
  <2>6. Deciding(fs, N + 1) \in 1 .. N + 1
    <3>1. N + 1 \in Nat
      BY <1>3
    <3> QED
      BY <3>1, <2>5, DecidingIs
  <2>7. es[Deciding(es, N)] \in Edit
    BY <2>4, <1>3, ElementOfSeq DEF N
  <2> QED
    BY <2>1, <2>2, <2>6, <2>7 DEF LogNo
<1>9. ASSUME NEW D, D = dir \/ D = ddir, D.current = dir.current, NEW k \in Nat, View(o, k), NEW r,
             Shows(file', D, LiveAt(fs, k), LogNo(fs, k), r)
      PROVE  Shown(file, dir, r)
  <2>0. D.names \subseteq Names /\ Covered(file, D, dir) /\ Current(file, D) = m /\ D.current # 0
    BY <1>2, <1>9 DEF Names, ShownInv, Current, m
  <2>1. \A j \in Nat : View(m, j) => \A t \in LiveAt(es, j) : Table(t) \in Names
    BY <1>3 DEF View, TablesThere, Names, es
  <2>2. CASE k <= N /\ View(m, k)
    <3>1. LiveAt(fs, k) = LiveAt(es, k) /\ LogNo(fs, k) = LogNo(es, k)
      BY <1>4, <2>2 DEF View, es
    <3>2. InTables(file', LiveAt(es, k), r) => InTables(file, LiveAt(es, k), r)
      BY <1>1, <2>1, <2>2 DEF InTables
    <3>3. Shows(file, D, LiveAt(es, k), LogNo(es, k), r)
      BY <1>1, <1>9, <2>0, <3>1, <3>2 DEF Shows
    <3> QED
      BY <2>0, <2>2, <3>3 DEF Covered, es
  <2>3. CASE k = N + 1
    <3>1. CASE InTables(file', LiveAt(fs, k), r)
      <4>1. PICK t \in LiveAt(fs, k) : r \in Recs(file'[Table(t)])
        BY <3>1 DEF InTables
      <4>2. CASE t \in x.add
        <5>1. r \in Recs(file[Table(t)])
          BY <1>1, <1>5, <4>1, <4>2 DEF Names
        <5> QED
          BY <4>2, <5>1
      <4>3. CASE t \in LiveAt(es, N)
        <5>1. r \in Recs(file[Table(t)])
          BY <1>1, <1>3, <2>1, <4>1, <4>3
        <5>2. Shows(file, dir, LiveAt(es, N), LogNo(es, N), r)
          BY <4>3, <5>1 DEF Shows, InTables
        <5> QED
          BY <1>2, <1>3, <5>2 DEF Shown, m, es, N
      <4> QED
        BY <1>4, <2>3, <4>1, <4>2, <4>3
    <3>2. CASE \E n \in Nat : Log(n) \in D.names /\ LogNo(fs, k) <= n /\ r \in Soft(file'[Log(n)])
      <4>1. PICK n \in Nat : Log(n) \in D.names /\ LogNo(fs, k) <= n /\ r \in Soft(file'[Log(n)])
        BY <3>2
      <4>2. Log(n) \in Names /\ r \in Soft(file[Log(n)])
        BY <1>1, <2>0, <4>1
      <4>3. db.minlog <= n
        BY <1>2, <1>5, <1>8, <2>3, <4>1
      <4>4. Log(n) \in dir.names
        <5>1. Log(n) \in ddir.names /\ Log(n) \notin dir.names => n < db.minlog
          BY <1>0 DEF LogsFollow
        <5> QED
          BY <1>2, <4>2, <4>3, <5>1 DEF Names
      <4>5. n <= db.log
        <5>1. db.st # "logs"
          BY DEF Alive
        <5> QED
          BY <1>0, <4>2, <5>1 DEF Numbered
      <4>6. CASE n < db.log
        <5>1. r \in db.imm
          BY <1>0, <4>2, <4>3, <4>4, <4>6 DEF LogsFollow
        <5> QED
          BY <5>1 DEF ShownInv, NothingHidden
      <4>7. CASE n = db.log
        <5>1. Shows(file, dir, LiveAt(es, N), LogNo(es, N), r)
          BY <1>6, <4>2, <4>4, <4>7 DEF Shows
        <5> QED
          BY <1>2, <1>3, <5>1 DEF Shown, m, es, N
      <4> QED
        BY <1>2, <4>5, <4>6, <4>7
    <3> QED
      BY <1>9, <3>1, <3>2 DEF Shows
  <2> QED
    BY <1>7, <1>9, <2>2, <2>3
<1>10. \A r : Shown(file, dir, r) => Shown(file', dir', r)
  BY <1>0, <1>2, EditOneDir
<1>11. ASSUME NEW D, D = dir \/ D = ddir
       PROVE  Covered(file', D, dir')
  <2>0. Covered(file, D, dir) /\ D.names \subseteq Names
    BY <1>11 DEF ShownInv, Names
  <2>1. CASE D.current = 0
    BY <2>0, <2>1 DEF Covered
  <2>2. CASE D.current # 0 /\ D.current = dir.current
    <3>1. Current(file', D) = o
      BY <2>2 DEF Current, o
    <3> QED
      BY <1>2, <1>9, <1>10, <1>11, <2>2, <3>1 DEF Covered
  <2>3. CASE D.current # 0 /\ D.current # dir.current
    <3>1. Manifest(D.current) \in D.names /\ TablesThere(D, Current(file, D))
      BY <1>11, <2>3, CurrentIs
    <3>2. Manifest(D.current) # Manifest(dir.current)
      BY <2>3 DEF Manifest
    <3>3. Current(file', D) = Current(file, D)
      BY <2>0, <3>1, <3>2 DEF Appended, Current
    <3> DEFINE ds == Current(file, D).data
    <3>4. ASSUME NEW k \in Nat, View(Current(file, D), k), NEW r,
                 Shows(file', D, LiveAt(ds, k), LogNo(ds, k), r)
          PROVE  Shown(file', dir', r)
      <4>1. \A t \in LiveAt(ds, k) : Table(t) \in Names
        BY <2>0, <3>1, <3>4 DEF TablesThere, View
      <4>2. InTables(file', LiveAt(ds, k), r) => InTables(file, LiveAt(ds, k), r)
        BY <1>1, <4>1 DEF InTables
      <4>3. Shows(file, D, LiveAt(ds, k), LogNo(ds, k), r)
        BY <1>1, <2>0, <3>4, <4>2 DEF Shows
      <4>4. Shown(file, dir, r)
        BY <2>0, <2>3, <3>4, <4>3 DEF Covered
      <4> QED
        BY <4>4, <1>10
    <3> QED
      BY <2>3, <3>3, <3>4 DEF Covered
  <2> QED
    BY <2>1, <2>2, <2>3
<1>12. ASSUME NEW r, Shown(file', dir', r)
       PROVE  Shown(file, dir, r)
  <2>1. View(o, N + 1) /\ Shows(file', dir, LiveAt(fs, N + 1), LogNo(fs, N + 1), r)
    BY <1>2, <1>4, <1>12 DEF Shown, o
  <2>2. N + 1 \in Nat
    BY <1>3
  <2> QED
    BY <1>9, <2>1, <2>2
<1>13. SameTables
  <2>1. \A t : Table(t) \in dir.names => Same(t)
    BY <1>1 DEF Same, Names
  <2>2. ~Opening
    BY DEF Alive, Opening
  <2> QED
    BY <2>1, <2>2, AliveIs, EditTables DEF SameTables
<1> QED
  BY <1>2, <1>10, <1>11, <1>12, <1>13 DEF Steady

\* The edit's tables were made from what is shown.
LEMMA LogAndApplyShows ==
  ASSUME IInv, DInv, ShownInv, LogAndApply
  PROVE  ShownInv' /\ Steady
<1> DEFINE x == NextEdit
<1>0. /\ ProcessTypeOK /\ Compacting /\ Alive
      /\ bg.pc = "built" \/ (bg.pc = "idle" /\ comp.pc = "done")
      /\ UNCHANGED <<db, comp, writes>>
      /\ bg' = [pc |-> "logged", out |-> bg.out, edit |-> x]
  BY DEF IInv, LogAndApply, Running, EditReady, Alive
<1>1. /\ bg.pc = "built" => /\ x.del = {}
                            /\ x.add = IF bg.out = 0 THEN {} ELSE {bg.out}
      /\ bg.pc # "built" => x.del = comp.in /\ x.add = {comp.out}
  <2>1. CASE bg.pc = "built"
    BY <2>1 DEF NextEdit, FlushEdit
  <2>2. CASE bg.pc # "built"
    BY <2>2 DEF NextEdit, CompactionEdit
  <2> QED
    BY <2>1, <2>2
<1> HIDE DEF x
<1>2. Appended(x) /\ Fits(Current(file, dir).data, x)
  BY LogAndApplyLoses DEF x
<1>3. ASSUME NEW t \in x.add, NEW r \in Recs(file[Table(t)])
      PROVE  /\ x.del = {} => r \in db.imm
             /\ x.del # {} => InTables(file, x.del, r) /\ x.del \subseteq db.live
  <2>1. CASE bg.pc = "built"
    <3>1. bg.out # 0 /\ t = bg.out
      BY <1>1, <1>3, <2>1
    <3> QED
      BY <1>0, <1>1, <1>3, <2>1, <3>1 DEF ShownInv, FlushHolds
  <2>2. CASE bg.pc # "built"
    <3>1. comp.pc = "done" /\ t = comp.out /\ x.del = comp.in
      BY <1>0, <1>1, <1>3, <2>2
    <3>2. comp.in # {} /\ comp.in \subseteq db.live
      BY <1>0, <3>1 DEF Compacting
    <3>3. InTables(file, comp.in, r)
      BY <1>0, <1>3, <3>1 DEF ShownInv, CompactionHolds
    <3> QED
      BY <3>1, <3>2, <3>3
  <2> QED
    BY <2>1, <2>2
<1>4. \A t \in x.add : \A r \in Recs(file[Table(t)]) : Shown(file, dir, r)
  BY <1>0, <1>3 DEF ShownInv, NothingHidden, ShownTable, InTables
<1>5. /\ Steady /\ SameTables
      /\ Covered(file', dir', dir') /\ Covered(file', ddir', dir')
  BY <1>0, <1>2, <1>4, AppendedShows
<1>6. EditHolds'
  <2>1. ASSUME NEW t \in x.add, NEW r \in Recs(file'[Table(t)])
        PROVE  /\ x.del = {} => r \in db.imm
               /\ x.del # {} => InTables(file', x.del, r)
    <3>1. Table(t) \in dir.names /\ Table(t) # Manifest(dir.current)
      BY <1>2 DEF Fits, Table, Manifest
    <3>2. r \in Recs(file[Table(t)])
      BY <1>2, <2>1, <3>1 DEF Appended, Names
    <3>3. x.del # {} => InTables(file, x.del, r) /\ x.del \subseteq db.live
      BY <1>3, <3>2
    <3>4. \A u \in db.live : Same(u)
      BY <1>0, <1>5 DEF SameTables
    <3> QED
      BY <1>3, <3>2, <3>3, <3>4 DEF InTables, Same
  <2>2. bg'.edit = x /\ db' = db
    BY <1>0
  <2> QED
    BY <2>1, <2>2 DEF EditHolds
<1>7. bg'.pc # "built" /\ Alive'
  BY <1>0 DEF Alive
<1>8. Begun' /\ \A r : Shown(file, dir, r) => Shown(file', dir', r)
  BY <1>0, <1>5 DEF ShownInv, Begun, Steady
<1>9. ShownInv'
  BY <1>0, <1>5, <1>6, <1>7, <1>8, AliveShows
<1> QED
  BY <1>5, <1>9

LEMMA ManifestFailsShows ==
  ASSUME IInv, DInv, ShownInv, ManifestFails
  PROVE  ShownInv' /\ Steady
<1>0. /\ ProcessTypeOK /\ Alive /\ UNCHANGED writes /\ bg'.pc = "idle"
      /\ comp' = comp \/ comp'.pc = "idle"
  BY IdleOK DEF IInv, ManifestFails, Running, Alive
<1>1. db'.st = db.st /\ db'.mem = db.mem /\ db'.imm = db.imm /\ db'.live = db.live
  BY <1>0 DEF ProcessTypeOK, ManifestFails
<1>2. Alive'
  BY <1>0, <1>1 DEF Alive
<1>3. /\ Steady /\ SameTables
      /\ Covered(file', dir', dir') /\ Covered(file', ddir', dir')
  <2>1. CASE UNCHANGED <<dir, ddir, file>>
    <3>1. Silent
      BY <2>1, KernelSilent
    <3> QED
      BY <3>1, SilentShows
  <2>2. CASE Appended(TornEdit) /\ Fits(Current(file, dir).data, TornEdit)
    <3>1. TornEdit.add = {}
      BY DEF TornEdit
    <3> QED
      BY <1>0, <2>2, <3>1, AppendedShows
  <2> QED
    BY <2>1, <2>2, ManifestFailsLoses
<1>4. Begun' /\ \A r : Shown(file, dir, r) => Shown(file', dir', r)
  BY <1>0, <1>3 DEF ShownInv, Begun, Steady
<1>5. ShownInv'
  BY <1>0, <1>1, <1>2, <1>3, <1>4, AliveShows
<1> QED
  BY <1>3, <1>5

\* What a machine crash leaves was shown before.
LEMMA MachineCrashesShows ==
  ASSUME IInv, IInv', DInv, ShownInv, MachineCrashes
  PROVE  ShownInv' /\ \A r : Shown(file', dir', r) => Shown(file, dir, r)
<1> DEFINE e == AfterCrash(Disk)
           m == Current(file, ddir)
           o == Current(file', ddir)
           es == m.data
           fs == o.data
           k == m.dur
<1>0. SetDisk(e) /\ db' = Down /\ UNCHANGED writes
  BY DEF MachineCrashes
<1>1. e.dir = ddir /\ e.ddir = ddir /\ \A n \in Names : Cut(file[n], e.file[n])
  BY CutIs
<1> HIDE DEF e
<1>2. dir' = ddir /\ ddir' = ddir /\ \A n \in ddir.names : file'[n] = e.file[n]
  BY <1>0, <1>1, SetDiskIs
<1>3. \A n \in ddir.names : n \in Names /\ Cut(file[n], file'[n])
  BY <1>1, <1>2 DEF Names
<1>4. Covered(file, ddir, dir) /\ TablesDone(file, ddir)
  BY DEF ShownInv, DInv, DirsGood
<1>5. ASSUME ddir.current # 0
      PROVE  /\ k \in Nat /\ Len(fs) = k /\ \A j \in Nat : View(o, j) => j = k
             /\ \A r : View(o, k) /\ Shows(file', ddir, LiveAt(fs, k), LogNo(fs, k), r)
                         => Shown(file, dir, r)
  <2>1. /\ Manifest(ddir.current) \in ddir.names
        /\ Len(es) \in Nat /\ k \in 0 .. Len(es) /\ TablesThere(ddir, m)
    BY <1>5, CurrentIs
  <2>2. Cut(m, o)
    BY <1>3, <2>1 DEF Current
  <2>3. k \in Nat /\ Len(fs) = k /\ o.dur = k /\ \A i \in 1 .. k : es[i] = fs[i]
    BY <2>2 DEF Cut
  <2> HIDE DEF m, o, es, fs, k
  <2>4. \A j \in Nat : View(o, j) => j = k
    <3>1. \A j \in Nat : j \in o.dur .. Len(o.data) => j = k
      BY <2>3 DEF fs
    <3> QED
      BY <3>1 DEF View
  <2>5. /\ LiveAt(es, k) = LiveAt(fs, k)
        /\ (\E i \in 1 .. k : Counts(es[i])) <=> (\E i \in 1 .. k : Counts(fs[i]))
        /\ (\E i \in 1 .. k : Counts(es[i])) =>
             LogNo(es, k) = LogNo(fs, k) /\ NextNo(es, k) = NextNo(fs, k)
        /\ \A b : Below(es, k, b) <=> Below(fs, k, b)
    BY <2>3, SameEdits
  <2>6. View(o, k) => View(m, k) /\ LogNo(es, k) = LogNo(fs, k)
    <3>1. k \in m.dur .. Len(m.data)
      BY <2>1, <2>3 DEF k, es
    <3>2. View(o, k) => \E i \in 1 .. k : Counts(es[i])
      BY <2>5 DEF View, fs
    <3> QED
      BY <2>5, <3>1, <3>2 DEF View, es
  <2>7. ASSUME NEW r, View(o, k), Shows(file', ddir, LiveAt(fs, k), LogNo(fs, k), r)
        PROVE  Shown(file, dir, r)
    <3>1. \A t \in LiveAt(es, k) : Table(t) \in ddir.names /\ Done(file[Table(t)])
      <4>1. \A t \in LiveAt(es, k) : Done(file[Table(t)])
        BY <1>4, <1>5, <2>3, <2>6, <2>7 DEF TablesDone, m, es
      <4>2. \A t \in LiveAt(es, k) : Table(t) \in ddir.names
        BY <2>1, <2>6, <2>7 DEF TablesThere, View, es
      <4> QED
        BY <4>1, <4>2
    <3>2. \A t \in LiveAt(es, k) : Recs(file'[Table(t)]) = Recs(file[Table(t)])
      BY <1>3, <3>1, CutTable
    <3>3. InTables(file', LiveAt(fs, k), r) => InTables(file, LiveAt(es, k), r)
      BY <2>5, <3>2 DEF InTables
    <3>4. \A n \in Nat : Log(n) \in ddir.names =>
            Soft(file'[Log(n)]) \subseteq Soft(file[Log(n)])
      <4> SUFFICES ASSUME NEW n \in Nat, Log(n) \in ddir.names
                   PROVE  Soft(file'[Log(n)]) \subseteq Soft(file[Log(n)])
        OBVIOUS
      <4>1. Cut(file[Log(n)], file'[Log(n)])
        BY <1>3
      <4> QED
        BY <4>1 DEF Cut, Soft
    <3>5. Shows(file, ddir, LiveAt(es, k), LogNo(es, k), r)
      BY <2>6, <2>7, <3>3, <3>4 DEF Shows
    <3> QED
      BY <1>4, <1>5, <2>3, <2>6, <2>7, <3>5 DEF Covered, m, es
  <2>8. \A r : View(o, k) /\ Shows(file', ddir, LiveAt(fs, k), LogNo(fs, k), r)
                 => Shown(file, dir, r)
    BY <2>7
  <2> QED
    BY <2>3, <2>4, <2>8
<1> HIDE DEF k
<1>6. Covered(file', ddir, ddir)
  <2>1. ddir.current = 0 => \A n \in Nat : Log(n) \notin ddir.names
    BY <1>4 DEF Covered
  <2>2. ASSUME ddir.current # 0, NEW j \in Nat, View(o, j), NEW r,
               Shows(file', ddir, LiveAt(fs, j), LogNo(fs, j), r)
        PROVE  Shown(file', ddir, r)
    <3>1. j = k /\ Len(fs) = k
      BY <1>5, <2>2
    <3>2. View(o, Len(fs)) /\ Shows(file', ddir, LiveAt(fs, Len(fs)), LogNo(fs, Len(fs)), r)
      BY <2>2, <3>1
    <3> QED
      BY <2>2, <3>2 DEF Shown
  <2> QED
    BY <2>1, <2>2 DEF Covered
<1>7. ASSUME NEW r, Shown(file', ddir, r)
      PROVE  Shown(file, dir, r)
  <2>1. /\ ddir.current # 0 /\ View(o, Len(fs))
        /\ Shows(file', ddir, LiveAt(fs, Len(fs)), LogNo(fs, Len(fs)), r)
    BY <1>7 DEF Shown
  <2>2. Len(fs) = k
    BY <1>5, <2>1
  <2> QED
    BY <1>5, <2>1, <2>2
<1>8. Begun'
  BY <1>0, <1>2, <1>7 DEF ShownInv, Begun
<1>9. NothingHidden' /\ FlushHolds' /\ CompactionHolds' /\ EditHolds'
  <2>1. ~Alive' /\ ~Opening' /\ db'.mem = {} /\ db'.imm = {}
    BY <1>0 DEF Alive, Opening, Down
  <2> QED
    BY <2>1 DEF NothingHidden, FlushHolds, CompactionHolds, EditHolds
<1> QED
  BY <1>2, <1>6, <1>7, <1>8, <1>9 DEF ShownInv

-----------------------------------------------------------------------------
(* All steps: what a reopened database shows grows by the record of a      *)
(* write, shrinks in a machine crash, and stays as it is otherwise.        *)

LEMMA InitShows ==
  ASSUME Init
  PROVE  ShownInv
<1>1. /\ dir.names = {} /\ dir.current = 0 /\ ddir.names = {} /\ ddir.current = 0
      /\ db.st = "down" /\ db.mem = {} /\ db.imm = {}
  BY DEF Init, Down
<1>2. ~Opening /\ ~Alive
  BY <1>1 DEF Opening, Alive
<1>3. Covered(file, dir, dir) /\ Covered(file, ddir, dir)
  BY <1>1 DEF Covered
<1>4. NothingHidden /\ FlushHolds /\ CompactionHolds /\ EditHolds
  BY <1>1, <1>2 DEF NothingHidden, FlushHolds, CompactionHolds, EditHolds
<1>5. Begun
  BY <1>1 DEF Begun, Shown
<1> QED
  BY <1>3, <1>4, <1>5 DEF ShownInv

LEMMA StandsShows ==
  ASSUME ShownInv, UNCHANGED vars
  PROVE  ShownInv' /\ Steady
<1>1. UNCHANGED <<dir, ddir, file, db, bg, comp, wr, writes>>
  BY DEF vars
<1>2. Steady
  BY <1>1 DEF Steady
<1>3. Covered(file, dir, dir)' /\ Covered(file, ddir, dir)'
  BY <1>1 DEF ShownInv
<1>4. NothingHidden' /\ FlushHolds'
  BY <1>1 DEF ShownInv, NothingHidden, FlushHolds, ShownTable, Opening, Alive
<1>5. CompactionHolds' /\ EditHolds' /\ Begun'
  BY <1>1 DEF ShownInv, CompactionHolds, EditHolds, Begun, Alive
<1> QED
  BY <1>2, <1>3, <1>4, <1>5 DEF ShownInv

(* What a step does to the records that are shown and to the synced ones.  *)
StoreStep ==
  \/ Steady /\ synced' = synced
  \/ Steady /\ InsertAndAcknowledge
  \/ /\ wr'.rec.id = writes + 1 /\ writes' = writes + 1 /\ synced' = synced
     /\ \A r : Shown(file', dir', r) <=> Shown(file, dir, r) \/ r = wr'.rec
  \/ /\ MachineCrashes
     /\ \A r : Shown(file', dir', r) => Shown(file, dir, r)

LEMMA NextShows ==
  ASSUME IInv, IInv', DInv, ShownInv, [Next]_vars, ~torn'
  PROVE  ShownInv' /\ StoreStep
<1>1. CASE UNCHANGED vars
  <2>1. synced' = synced
    BY <1>1 DEF vars
  <2> QED
    BY <1>1, <2>1, StandsShows DEF StoreStep
<1>2. CASE Next
  <2>0. ~LogWriteFails
    BY <1>2, TornStays
  <2>1. CASE \/ NewDB \/ NewDBCurrent \/ Recover \/ RecoverLogFile \/ OpenLog
             \/ OpenManifest \/ OpenSync \/ OpenInstall
    <3>1. ShownInv' /\ Steady
      BY <2>1, NewDBShows, NewDBCurrentShows, RecoverShows, RecoverLogFileShows,
         OpenLogShows, OpenManifestShows, OpenSyncShows, OpenInstallShows
    <3>2. synced' = synced
      BY <2>1 DEF NewDB, NewDBCurrent, Recover, RecoverLogFile, OpenLog,
         OpenManifest, OpenSync, OpenInstall
    <3> QED
      BY <3>1, <3>2 DEF StoreStep
  <2>2. CASE DeleteObsoleteFile \/ CollectingEnds \/ SwitchMemTable
    <3>1. ShownInv' /\ Steady
      BY <2>2, DeleteObsoleteFileShows, CollectingEndsShows, SwitchMemTableShows
    <3>2. synced' = synced
      BY <2>2 DEF DeleteObsoleteFile, CollectingEnds, SwitchMemTable
    <3> QED
      BY <3>1, <3>2 DEF StoreStep
  <2>3. CASE \E sync \in BOOLEAN : LogWrite(sync)
    <3>1. PICK sync \in BOOLEAN : LogWrite(sync)
      BY <2>3
    <3>2. /\ ShownInv' /\ wr'.rec.id = writes + 1 /\ writes' = writes + 1
          /\ \A r : Shown(file', dir', r) <=> Shown(file, dir, r) \/ r = wr'.rec
      BY <3>1, LogWriteShows
    <3>3. synced' = synced
      BY <3>1 DEF LogWrite
    <3> QED
      BY <3>2, <3>3 DEF StoreStep
  <2>4. CASE SyncLog \/ SyncLogFails
    <3>1. ShownInv' /\ Steady
      BY <2>4, SyncLogShows, SyncLogFailsShows
    <3>2. synced' = synced
      BY <2>4 DEF SyncLog, SyncLogFails
    <3> QED
      BY <3>1, <3>2 DEF StoreStep
  <2>5. CASE InsertAndAcknowledge
    BY <2>5, InsertAndAcknowledgeShows DEF StoreStep
  <2>6. CASE BuildTable \/ OpenCompactionOutputFile \/ FinishCompactionOutputFile
    <3>1. ShownInv' /\ Steady
      BY <2>6, BuildTableShows, OpenCompactionOutputFileShows,
         FinishCompactionOutputFileShows
    <3>2. synced' = synced
      BY <2>6 DEF BuildTable, OpenCompactionOutputFile, FinishCompactionOutputFile
    <3> QED
      BY <3>1, <3>2 DEF StoreStep
  <2>7. CASE LogAndApply \/ SyncManifest \/ InstallVersion \/ ManifestFails
    <3>1. ShownInv' /\ Steady
      BY <2>7, LogAndApplyShows, SyncManifestShows, InstallVersionShows, ManifestFailsShows
    <3>2. synced' = synced
      BY <2>7 DEF LogAndApply, SyncManifest, InstallVersion, ManifestFails
    <3> QED
      BY <3>1, <3>2 DEF StoreStep
  <2>8. CASE \/ NewIterator \/ CleanupIteratorState
             \/ CommitDirectory \/ WriteBack \/ ProcessEnds
    <3>1. ShownInv' /\ Steady
      BY <2>8, IteratorShows, KernelShows, ProcessEndsShows
    <3>2. synced' = synced
      BY <2>8 DEF NewIterator, CleanupIteratorState, CommitDirectory, WriteBack, ProcessEnds
    <3> QED
      BY <3>1, <3>2 DEF StoreStep
  <2>9. CASE MachineCrashes
    BY <2>9, MachineCrashesShows DEF StoreStep
  <2> QED
    BY <1>2, <2>0, <2>1, <2>2, <2>3, <2>4, <2>5, <2>6, <2>7, <2>8, <2>9 DEF Next
<1> QED
  BY <1>1, <1>2

LEMMA ShownAlways == Spec => [](~torn => ShownInv)
<1> DEFINE S == ~torn => ShownInv
<1>1. Init => S
  BY InitShows
<1>2. DurInv /\ DurInv' /\ S /\ [Next]_vars => S'
  <2> SUFFICES ASSUME DurInv, DurInv', S, [Next]_vars, ~torn'
               PROVE  ShownInv'
    OBVIOUS
  <2>1. ~torn
    BY TornStays DEF DurInv, vars
  <2> QED
    BY <2>1, NextShows DEF DurInv
<1> QED
  BY <1>1, <1>2, DurableAlways, PTL DEF Spec

-----------------------------------------------------------------------------
(* What a reopened database shows, and what recovery replays *)

LEMMA OpenableIs ==
  ASSUME IInv, ~torn
  PROVE  LET m == Current(file, dir)
         IN Openable(Disk) <=> dir.current # 0 /\ View(m, Len(m.data))
<1> DEFINE m == Current(file, dir)
           es == m.data
           N == Len(es)
<1> SUFFICES ASSUME dir.current # 0
             PROVE  Openable(Disk) <=> View(m, N)
  BY DiskIs DEF Openable
<1>1. /\ Manifest(dir.current) \in dir.names /\ dir.current \in 1 .. MaxNumber
      /\ es \in Seq(Edit) /\ N \in Nat /\ m.dur \in 0 .. N
      /\ TablesThere(dir, m) /\ Readables(dir.current, m, torn)
  BY CurrentIs
<1>2. DOMAIN es = 1 .. N /\ N \in m.dur .. N
  BY <1>1
<1>3. Full(es) # {} <=> View(m, N)
  BY <1>2 DEF Full, View, Counts
<1>4. ASSUME View(m, N)
      PROVE  Openable(Disk)
  <2>1. \A i \in DOMAIN es : ~es[i].full => i = Len(es)
    <3>1. CASE dir.current = 1
      BY <3>1, <1>1, <1>2 DEF Readables
    <3>2. CASE dir.current > 1
      BY <3>2, <1>1, <1>2 DEF Readables
    <3> QED
      BY <3>1, <3>2, <1>1
  <2>2. Readable(es)
    BY <1>3, <1>4, <2>1 DEF Readable
  <2>3. LiveOf(es) = LiveAt(es, N)
    BY <1>1, LiveOfIs
  <2>4. \A t \in LiveOf(es) : Table(t) \in dir.names /\ Table(t)[2] = t
    BY <1>1, <1>2, <2>3, NameIs DEF TablesThere
  <2>5. Missing(Disk, LiveOf(es)) = {}
    BY <2>4, DiskIs DEF Missing
  <2> QED
    BY <1>1, <2>2, <2>5, DiskIs DEF Openable, Current
<1>5. Openable(Disk) => Full(es) # {}
  BY DiskIs DEF Openable, Readable, Current
<1> QED
  BY <1>3, <1>4, <1>5

\* What recovery replays is what the directory shows.
LEMMA ReplayIs ==
  ASSUME IInv, Whole, ~torn
  PROVE  \A r : r \in Replay(Disk) <=> Shown(file, dir, r)
<1> DEFINE m == Current(file, dir)
           es == m.data
           N == Len(es)
<1>1. Openable(Disk) <=> dir.current # 0 /\ View(m, N)
  BY OpenableIs
<1> SUFFICES ASSUME Openable(Disk), NEW r
             PROVE  r \in Replay(Disk) <=> Shown(file, dir, r)
  BY <1>1 DEF Replay, Shown
<1>2. /\ dir.current # 0 /\ View(m, N) /\ es \in Seq(Edit) /\ N \in Nat
      /\ m.dur \in 0 .. N /\ TablesThere(dir, m)
  BY <1>1, CurrentIs
<1>3. \A n \in Nat : Log(n) \in dir.names => ReadLog(file[Log(n)]) = Soft(file[Log(n)])
  BY ReadsAll DEF Names
<1>4. ASSUME NEW t \in Nat, Table(t) \in dir.names
      PROVE  DOMAIN file[Table(t)].data = 1 .. Len(file[Table(t)].data)
  <2>1. file[Table(t)].data \in Seq(SUBSET Rec)
    BY <1>4, FilesAre, NameIs DEF IInv, FileOK
  <2> QED
    BY <2>1
<1>5. ASSUME Shown(file, dir, r)
      PROVE  r \in Replay(Disk)
  BY <1>2, <1>3, <1>4, <1>5, DiskIs, ReplayHas
<1>6. ASSUME r \in Replay(Disk)
      PROVE  Shown(file, dir, r)
  <2> DEFINE live == {t \in LiveOf(es) : Table(t) \in dir.names}
             tables == {UNION {file[Table(t)].data[i] : i \in DOMAIN file[Table(t)].data} : t \in live}
             logs == {ReadLog(file[Log(n)]) : n \in LogsFrom(Disk, es[Max(Full(es))].log)}
  <2>1. Replay(Disk) = UNION (tables \union logs)
    BY DiskIs DEF Replay, Current
  <2>2. DOMAIN es = 1 .. N /\ LiveOf(es) = LiveAt(es, N)
    BY <1>2, LiveOfIs
  <2>3. es[Max(Full(es))].log = LogNo(es, N)
    BY <2>2 DEF Full, LogNo, Deciding, Counts
  <2>4. Shows(file, dir, LiveAt(es, N), LogNo(es, N), r)
    <3>1. CASE \E X \in tables : r \in X
      <4>1. PICK t \in live :
              r \in UNION {file[Table(t)].data[i] : i \in DOMAIN file[Table(t)].data}
        BY <3>1
      <4>2. t \in LiveAt(es, N) /\ t \in Nat /\ Table(t) \in dir.names
        BY <2>2, <4>1 DEF LiveAt
      <4>3. r \in Recs(file[Table(t)])
        BY <1>4, <4>1, <4>2 DEF Recs
      <4> QED
        BY <4>2, <4>3 DEF Shows, InTables
    <3>2. CASE \E X \in logs : r \in X
      <4>1. PICK n \in LogsFrom(Disk, LogNo(es, N)) : r \in ReadLog(file[Log(n)])
        BY <3>2, <2>3
      <4>2. PICK x \in dir.names : x[1] = "log" /\ x[2] >= LogNo(es, N) /\ n = x[2]
        BY <4>1, DiskIs DEF LogsFrom
      <4>3. x \in Name
        BY FilesAre DEF IInv
      <4>4. n \in Nat /\ x = Log(n) /\ LogNo(es, N) <= n
        <5>1. n \in Nat /\ x = Log(n)
          BY <4>2, <4>3, BoundsAssumption DEF Name, Log
        <5>2. \E i \in 1 .. N : Counts(es[i])
          BY <1>2 DEF View
        <5>3. Deciding(es, N) \in 1 .. N
          BY <1>2, <5>2, DecidingIs
        <5>4. es[Deciding(es, N)] \in Edit
          BY <1>2, <5>3
        <5>5. LogNo(es, N) \in Nat
          BY <5>4 DEF LogNo, Edit
        <5> QED
          BY <4>2, <5>1, <5>5
      <4>5. r \in Soft(file[Log(n)])
        BY <1>3, <4>1, <4>2, <4>4
      <4> QED
        BY <4>2, <4>4, <4>5 DEF Shows
    <3> HIDE DEF tables, logs
    <3> QED
      BY <1>6, <2>1, <3>1, <3>2
  <2> QED
    BY <1>2, <2>4 DEF Shown
<1> QED
  BY <1>5, <1>6

(* What recovery replays is what the directory shows, and only that. *)
SeenInv ==
  ~torn => ShownInv /\ \A r : r \in Replay(Disk) <=> Shown(file, dir, r)

LEMMA SeenAlways == Spec => []SeenInv
<1>1. DurInv /\ (~torn => ShownInv) => SeenInv
  BY ReplayIs DEF DurInv, DInv, SeenInv
<1> QED
  BY <1>1, DurableAlways, ShownAlways, PTL

\* The database is the abstract store: it starts empty, and whatever a step
\* does to its files, a reopened database shows the same as before, except
\* that the step that logs a write adds this write and that a machine crash
\* may take writes that were not synced; the caller of a synced write is told
\* so when the write is shown.
THEOREM ImplementsStore == Spec => StoreSpec
<1> DEFINE data == Ids(Replay(Disk))
           A == \/ (\E w \in 1 .. MaxWrites : Store!Put(w) \/ Store!Synced(w))
                \/ (MachineCrashes /\ Store!MachineCrash)
<1>1. Init => Store!Init
  <2> SUFFICES ASSUME Init
               PROVE  data = {} /\ synced = {}
    BY DEF Store!Init
  <2>1. dir.current = 0 /\ synced = {}
    BY DEF Init
  <2>2. Replay(Disk) = {}
    BY <2>1, DiskIs DEF Replay, Openable
  <2> QED
    BY <2>1, <2>2 DEF Ids
<1>2. DurInv /\ DurInv' /\ SeenInv /\ SeenInv' /\ OwedIsOnDisk' /\ [Next]_vars
        => [~torn' => A]_<<Ids(Replay(Disk)), synced>>
  <2> SUFFICES ASSUME DurInv, DurInv', SeenInv, SeenInv', OwedIsOnDisk', [Next]_vars, ~torn',
                      ~(data' = data /\ synced' = synced)
               PROVE  A
    OBVIOUS
  <2>1. ~torn
    BY TornStays DEF DurInv, vars
  <2>2. /\ \A r : r \in Replay(Disk) <=> Shown(file, dir, r)
        /\ \A r : r \in Replay(Disk)' <=> Shown(file', dir', r)
    BY <2>1 DEF SeenInv
  <2>3. StoreStep
    BY <2>1, NextShows DEF DurInv, SeenInv
  <2>4. CountsOK /\ CountsOK'
    BY DEF DurInv, IInv
  <2>5. Steady => data' = data
    <3> SUFFICES ASSUME Steady
                 PROVE  data' = data
      OBVIOUS
    <3>1. \A r : r \in Replay(Disk)' <=> r \in Replay(Disk)
      BY <2>2 DEF Steady
    <3>2. Replay(Disk)' = Replay(Disk)
      <4>1. \A X, Y : (\A r : r \in X <=> r \in Y) => X = Y
        OBVIOUS
      <4> QED
        BY <3>1, <4>1
    <3> QED
      BY <3>2 DEF Ids
  <2>6. CASE Steady /\ InsertAndAcknowledge
    <3> DEFINE w == wr.rec.id
    <3>1. wr.pc = "insert" /\ synced' = synced \union {w}
      BY <2>5, <2>6 DEF InsertAndAcknowledge
    <3>2. w \in 1 .. MaxWrites
      BY <2>4, <3>1, BoundsAssumption DEF CountsOK
    <3>3. wr.rec \in Replay(Disk)
      BY <2>1, <2>2, <3>1 DEF DurInv, DInv, Pended
    <3>4. w \in data
      BY <3>3 DEF Ids
    <3>5. Store!Synced(w)
      BY <2>5, <2>6, <3>1, <3>4 DEF Store!Synced
    <3> QED
      BY <3>2, <3>5
  <2>7. CASE /\ wr'.rec.id = writes + 1 /\ writes' = writes + 1 /\ synced' = synced
             /\ \A r : Shown(file', dir', r) <=> Shown(file, dir, r) \/ r = wr'.rec
    <3> DEFINE w == writes + 1
    <3>1. writes \in Nat /\ w \in 1 .. MaxWrites
      BY <2>4, <2>7, BoundsAssumption DEF CountsOK
    <3>2. w \notin data
      <4> SUFFICES ASSUME NEW r \in Replay(Disk), r.id = w
                   PROVE  FALSE
        BY DEF Ids
      <4>1. r.id \in 1 .. writes
        BY <2>1, <2>2 DEF SeenInv, ShownInv, Begun
      <4> QED
        BY <3>1, <4>1
    <3>3. data' = data \union {w}
      <4>1. \A r : r \in Replay(Disk)' <=> r \in Replay(Disk) \/ r = wr'.rec
        BY <2>2, <2>7
      <4>2. Replay(Disk)' = Replay(Disk) \union {wr'.rec}
        <5>1. \A X, Y : (\A r : r \in X <=> r \in Y) => X = Y
          OBVIOUS
        <5> QED
          BY <4>1, <5>1
      <4>3. \A X, r : Ids(X \union {r}) = Ids(X) \union {r.id}
        BY DEF Ids
      <4> QED
        BY <2>7, <4>2, <4>3
    <3>4. Store!Put(w)
      BY <2>7, <3>2, <3>3 DEF Store!Put
    <3> QED
      BY <3>1, <3>4
  <2>8. CASE /\ MachineCrashes
             /\ \A r : Shown(file', dir', r) => Shown(file, dir, r)
    <3>1. data' \subseteq data
      BY <2>2, <2>8 DEF Ids
    <3>2. synced' = synced /\ owed' = synced
      BY <2>8 DEF MachineCrashes
    <3>3. synced \subseteq data'
      BY <3>2 DEF OwedIsOnDisk
    <3>4. Store!MachineCrash
      BY <3>1, <3>2, <3>3 DEF Store!MachineCrash
    <3> QED
      BY <2>8, <3>4
  <2> QED
    BY <2>3, <2>5, <2>6, <2>7, <2>8 DEF StoreStep
<1> QED
  BY <1>1, <1>2, DurableAlways, SeenAlways, AcknowledgedLasts, PTL DEF Spec, StoreSpec

\* A table of the last view is in the version, or holds what is in the memtable
\* or in tables of the version.
LEMMA ViewOpen ==
  ASSUME IInv, DInv, ShownInv, Alive, ~db.err, NEW r,
         NEW t \in LiveAt(Current(file, dir).data, Len(Current(file, dir).data)),
         r \in Recs(file[Table(t)])
  PROVE  r \in db.imm \/ InTables(file, db.live, r)
<1> DEFINE es == Current(file, dir).data
           N == Len(es)
<1>1. /\ dir.current # 0 /\ dir.current = db.manifest /\ comp.in \subseteq db.live
      /\ ProcessTypeOK /\ Flushing /\ N \in Nat
  BY AliveIs, CurrentIs DEF IInv
<1>2. Registered(Current(file, dir))
  <2>1. Registered(file[Manifest(db.manifest)])
    BY DEF IInv, Registering, Alive
  <2> QED
    BY <1>1, <2>1 DEF Current
<1>3. CASE t \in db.live
  BY <1>3 DEF InTables
<1>4. CASE bg.pc \in {"logged", "synced"} /\ t \in bg.edit.add
  <2>1. CASE bg.edit.del = {}
    BY <1>4, <2>1 DEF ShownInv, EditHolds
  <2>2. CASE bg.edit.del # {}
    <3>1. InTables(file, bg.edit.del, r)
      BY <1>4, <2>2 DEF ShownInv, EditHolds
    <3>2. bg.edit.del \subseteq db.live
      BY <1>1, <1>4, <2>2 DEF Flushing
    <3> QED
      BY <3>1, <3>2 DEF InTables
  <2> QED
    BY <2>1, <2>2
<1>5. CASE bg.pc \in {"idle", "built", "gc"}
  BY <1>2, <1>3, <1>5 DEF Registered
<1>6. CASE bg.pc = "synced"
  BY <1>2, <1>3, <1>4, <1>6 DEF Registered
<1>7. CASE bg.pc = "logged"
  <2>1. es[N] = bg.edit /\ LiveAt(es, N - 1) \subseteq db.live
    BY <1>2, <1>7 DEF Registered
  <2>2. PICK i \in 1 .. N : t \in es[i].add /\ \A j \in i + 1 .. N : t \notin es[j].del
    BY DEF LiveAt
  <2>3. CASE i = N
    BY <1>4, <1>7, <2>1, <2>2, <2>3
  <2>4. CASE i # N
    <3>1. i \in 1 .. N - 1 /\ \A j \in i + 1 .. N - 1 : j \in i + 1 .. N
      BY <1>1, <2>2, <2>4
    <3>2. t \in LiveAt(es, N - 1)
      BY <2>2, <3>1 DEF LiveAt
    <3> QED
      BY <1>3, <2>1, <3>2
  <2> QED
    BY <2>3, <2>4
<1> QED
  BY <1>1, <1>5, <1>6, <1>7 DEF ProcessTypeOK

\* An open database shows what it would show if it were reopened: reads
\* through the memtables and the version, and the replay of the files, agree
\* at every moment, but for the write whose call has not returned.
THEOREM OpenIsReplayed == Spec => []OpenMatchesDisk
<1>1. ASSUME DurInv, SeenInv
      PROVE  OpenMatchesDisk
  <2> SUFFICES ASSUME db.st = "open", ~torn
               PROVE  /\ Contents \subseteq Replay(Disk)
                      /\ ~db.err => Replay(Disk) \ Contents \subseteq {wr.rec}
    BY DEF OpenMatchesDisk
  <2> DEFINE m == Current(file, dir)
             N == Len(m.data)
             live == {u \in db.live : Table(u) \in dir.names}
             tables == UNION {UNION {file[Table(t)].data[i] : i \in DOMAIN file[Table(t)].data} :
                                t \in live}
  <2>1. IInv /\ DInv /\ ShownInv /\ Alive /\ \A r : r \in Replay(Disk) <=> Shown(file, dir, r)
    BY <1>1 DEF DurInv, SeenInv, Alive
  <2>2. /\ \A t \in db.live : Table(t) \in dir.names
        /\ dir.current # 0 /\ db.log \in Nat /\ db.minlog \in Nat
    BY <2>1, AliveIs
  <2>3. \A t \in db.live :
          Recs(file[Table(t)]) = UNION {file[Table(t)].data[i] : i \in DOMAIN file[Table(t)].data}
    <3> SUFFICES ASSUME NEW t \in db.live
                 PROVE  DOMAIN file[Table(t)].data = 1 .. Len(file[Table(t)].data)
      BY DEF Recs
    <3>1. file[Table(t)].data \in Seq(SUBSET Rec)
      BY <2>1, <2>2, FilesAre, NameIs DEF IInv, FileOK
    <3> QED
      BY <3>1
  <2>4. \A r : r \in tables <=> InTables(file, db.live, r)
    BY <2>2, <2>3 DEF InTables
  <2>5. Contents = db.mem \union db.imm \union tables
    BY DEF Contents
  <2> HIDE DEF tables
  <2>6. ASSUME NEW r \in Contents
        PROVE  Shown(file, dir, r)
    <3>1. NothingHidden
      BY <2>1 DEF ShownInv
    <3> QED
      BY <2>1, <2>4, <2>5, <2>6, <3>1 DEF NothingHidden, InTables, ShownTable
  <2>7. ASSUME ~db.err, NEW r, Shown(file, dir, r), r # wr.rec
        PROVE  r \in Contents
    <3>1. View(m, N) /\ Shows(file, dir, LiveAt(m.data, N), LogNo(m.data, N), r)
      BY <2>7 DEF Shown
    <3>2. CASE InTables(file, LiveAt(m.data, N), r)
      <4>1. r \in db.imm \/ InTables(file, db.live, r)
        BY <2>1, <2>7, <3>2, ViewOpen DEF InTables
      <4> QED
        BY <2>4, <2>5, <4>1
    <3>3. ASSUME NEW n \in Nat, Log(n) \in dir.names, LogNo(m.data, N) <= n,
                 r \in Soft(file[Log(n)])
          PROVE  r \in Contents
      <4>1. N \in Nat /\ LogNo(m.data, N) \in Nat
        <5>1. N \in Nat /\ \A i \in 1 .. N : m.data[i] \in Edit
          BY <2>1, <2>2, CurrentIs
        <5>2. Deciding(m.data, N) \in 1 .. N
          BY <3>1, <5>1, DecidingIs DEF View
        <5>3. m.data[Deciding(m.data, N)] \in Edit
          BY <5>1, <5>2
        <5> QED
          BY <5>1, <5>3 DEF LogNo, Edit
      <4>2. LogsFollow /\ Numbered
        BY <2>1 DEF DInv
      <4>3. db.minlog <= n
        BY <2>1, <2>2, <3>1, <3>3, <4>1, <4>2 DEF LogsFollow
      <4>4. n <= db.log
        <5>1. db.st # "logs" /\ Log(n) \in Names
          BY <3>3 DEF Names
        <5> QED
          BY <2>1, <4>2, <5>1 DEF Numbered
      <4>5. CASE n < db.log
        <5>1. r \in db.imm
          BY <2>1, <3>3, <4>2, <4>3, <4>5 DEF LogsFollow
        <5> QED
          BY <2>5, <5>1
      <4>6. CASE n = db.log
        <5>1. r \in db.mem
          BY <2>1, <2>7, <3>3, <4>2, <4>6 DEF LogsFollow
        <5> QED
          BY <2>5, <5>1
      <4> QED
        BY <2>2, <4>4, <4>5, <4>6
    <3> QED
      BY <3>1, <3>2, <3>3 DEF Shows
  <2> QED
    BY <2>1, <2>6, <2>7
<1> QED
  BY <1>1, DurableAlways, SeenAlways, PTL
=============================================================================

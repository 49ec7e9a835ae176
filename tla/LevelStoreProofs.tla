---------------------------- MODULE LevelStoreProofs ----------------------------
(***************************************************************************)
(* Proofs about LevelStore, for every number of writes and crashes, every  *)
(* bound on file numbers and every choice of failing calls: the files keep *)
(* their types, no needed file is deleted, and a database can fail to open *)
(* only before anything was synced to it.                                  *)
(***************************************************************************)
EXTENDS LevelStore, MaxLemma, SequenceTheorems, FiniteSetTheorems, TLAPS

-----------------------------------------------------------------------------
(* The inductive invariant.  First the disk d, with w writes so far.       *)

Name == {"log", "table", "manifest"} \X (1 .. MaxNumber)
Rec == [id : Nat, seq : Nat]
Edit == [full : BOOLEAN, log : Nat, next : Nat, seq : Nat,
         add : SUBSET Nat, del : SUBSET Nat]

(* What a file f of name n holds. *)
FileOK(n, f, w) ==
  /\ DOMAIN f = {"data", "dur"} /\ f.dur \in 0 .. Len(f.data)
  /\ n[1] = "log" =>
       /\ f.data \in Seq(Rec) /\ n[2] < MaxNumber
       /\ \A i \in 1 .. Len(f.data) : f.data[i].seq <= w
  /\ n[1] = "table" => f.data \in Seq(SUBSET Rec)
  /\ n[1] = "manifest" =>
       /\ f.data \in Seq(Edit)
       /\ \A i \in 1 .. Len(f.data) :
            /\ f.data[i].seq <= w
            /\ f.data[i].next # 0 => f.data[i].next \in n[2] + 1 .. MaxNumber

DirOK(D) ==
  /\ DOMAIN D = {"names", "current"}
  /\ D.names \subseteq Name /\ D.current \in 0 .. MaxNumber

DiskOK(d, w) ==
  /\ DOMAIN d = {"dir", "ddir", "file"} /\ DirOK(d.dir) /\ DirOK(d.ddir)
  /\ d.dir.names \union d.ddir.names \subseteq DOMAIN d.file
  /\ DOMAIN d.file \subseteq Name
  /\ \A n \in DOMAIN d.file : FileOK(n, d.file[n], w)
  /\ d.ddir.current <= d.dir.current

(* The tables that the first k edits of es leave in the version. *)
LiveAt(es, k) ==
  {t \in Nat : \E i \in 1 .. k : t \in es[i].add /\ \A j \in i + 1 .. k : t \notin es[j].del}

(* CURRENT of directory D names a manifest that is there with the tables   *)
(* of all its edits, of those that are durable, and of all in between.     *)
TablesThere(D, m) ==
  \A k \in m.dur .. Len(m.data) : \A t \in LiveAt(m.data, k) : Table(t) \in D.names

(* All manifests but the first one were synced before CURRENT named them.  *)
Readables(c, m, broken) ==
  /\ c = 1 => /\ Len(m.data) <= 1
              /\ \A i \in 1 .. Len(m.data) : m.data[i].full /\ m.data[i].next # 0
  /\ c > 1 => /\ m.dur >= 2 /\ m.data[2].full /\ m.data[2].next # 0
              /\ ~broken => \A i \in 1 .. Len(m.data) : ~m.data[i].full => i = Len(m.data)

DirSound(D, f, broken) ==
  D.current # 0 =>
    /\ Manifest(D.current) \in D.names
    /\ TablesThere(D, f[Manifest(D.current)])
    /\ Readables(D.current, f[Manifest(D.current)], broken)

DiskSound(d, broken) == DirSound(d.dir, d.file, broken) /\ DirSound(d.ddir, d.file, broken)

Stage == {"down", "newdb", "recover", "logs", "edit", "sync", "current", "gc",
          "open", "corrupt"}

ProcessTypeOK ==
  /\ DOMAIN db = {"st", "mem", "hasImm", "imm", "log", "minlog", "next", "seq",
                  "manifest", "live", "todo", "add", "err", "pins"}
  /\ db.st \in Stage /\ db.mem \subseteq Rec /\ db.imm \subseteq Rec
  /\ db.log \in Nat /\ db.minlog \in Nat /\ db.next \in 2 .. MaxNumber + 1
  /\ db.seq \in Nat /\ db.manifest \in 0 .. MaxNumber
  /\ db.live \subseteq Nat /\ db.todo \subseteq Nat /\ db.add \subseteq Nat
  /\ db.pins \subseteq Nat /\ db.err \in BOOLEAN
  /\ DOMAIN bg = {"pc", "out", "edit"}
  /\ bg.pc \in {"idle", "built", "logged", "synced", "gc"}
  /\ bg.out \in Nat /\ bg.edit \in Edit
  /\ DOMAIN comp = {"pc", "in", "out"}
  /\ comp.pc \in {"idle", "open", "done"} /\ comp.in \subseteq Nat /\ comp.out \in Nat
  /\ DOMAIN wr = {"pc", "sync", "rec"}
  /\ wr.pc \in {"idle", "sync", "insert"} /\ wr.rec \in Rec
  /\ torn \in BOOLEAN

(* The sequence counter and the records are behind the count of writes. *)
CountsOK ==
  /\ writes \in 0 .. MaxWrites /\ db.seq <= writes
  /\ wr.pc # "idle" =>
       db.seq < writes /\ wr.rec.seq <= writes /\ wr.rec.id \in 1 .. writes
  /\ owed \subseteq 1 .. writes /\ synced \subseteq owed

(* A write that is owed went through an installed manifest, and a synced   *)
(* one through one that a machine crash leaves.                            *)
AcksBehindInstall ==
  /\ owed # {} => dir.current > 1
  /\ synced # {} => ddir.current > 1
  /\ wr.pc = "insert" /\ wr.sync => ddir.current > 1

On(t) == Table(t) \in dir.names
Safe(t) == Table(t) \in dir.names /\ Table(t) \in ddir.names

(* The process during Open. *)
Resting ==
  db.st # "open" => /\ bg = IdleBg /\ comp = NoComp /\ wr = IdleWr
                    /\ ~db.err /\ db.pins = {}

Created ==
  db.st = "newdb" =>
    /\ dir.current = 0 /\ Manifest(1) \in dir.names
    /\ LET m == file[Manifest(1)]
       IN Len(m.data) = 1 /\ m.data[1].full /\ m.data[1].next # 0 /\ m.data[1].add = {}

Recovering ==
  /\ db.st \in {"down", "newdb", "recover"} => db.add = {}
  /\ db.st = "recover" => dir.current # 0
  /\ db.st = "corrupt" /\ ~torn => dir.current = 1
  /\ db.st \in {"logs", "edit", "sync", "current"} =>
       /\ dir.current # 0 /\ dir.current < db.manifest /\ db.manifest < db.next
       /\ \A t \in db.live \union db.add : On(t)
       /\ \A n \in db.todo : Log(n) \in dir.names
  /\ db.st \in {"edit", "sync", "current"} =>
       Log(db.log) \in dir.names /\ db.log < db.next /\ db.next <= MaxNumber

Installing ==
  db.st \in {"sync", "current"} =>
    /\ Manifest(db.manifest) \in dir.names
    /\ LET m == file[Manifest(db.manifest)]
       IN /\ Len(m.data) = 2 /\ m.data[1].add = db.live /\ m.data[2].add = db.add
          /\ m.data[1].full /\ m.data[2].full /\ m.data[2].next # 0
          /\ db.st = "current" => m.dur = 2

(* The running process. *)
Opened ==
  db.st \in {"gc", "open"} =>
    /\ dir.current = db.manifest /\ db.manifest > 1 /\ db.manifest < db.next
    /\ Manifest(db.manifest) \in dir.names /\ Log(db.log) \in dir.names
    /\ db.minlog <= db.log /\ db.log < db.next /\ db.next <= MaxNumber
    /\ \A t \in db.live \union db.pins : On(t)

(* The manifest and the version in memory agree, up to the edit in flight. *)
Registered(m) ==
  LET N == Len(m.data)
  IN /\ bg.pc \in {"idle", "built", "gc"} => m.dur = N /\ LiveAt(m.data, N) \subseteq db.live
     /\ bg.pc = "logged" => /\ m.data[N] = bg.edit /\ m.dur >= N - 1
                            /\ LiveAt(m.data, N - 1) \subseteq db.live
     /\ bg.pc = "synced" =>
          m.dur = N /\ LiveAt(m.data, N) \subseteq (db.live \ bg.edit.del) \union bg.edit.add

Registering ==
  db.st \in {"gc", "open"} /\ ~db.err => Registered(file[Manifest(db.manifest)])

Compacting ==
  /\ comp.pc = "idle" => comp = NoComp
  /\ comp.pc # "idle" => comp.in \subseteq db.live /\ comp.in # {} /\ On(comp.out)
  /\ comp.pc = "done" => Safe(comp.out)

Flushing ==
  /\ bg.pc = "idle" => bg = IdleBg
  /\ bg.pc = "built" => (bg.out # 0 => Safe(bg.out)) /\ comp.pc # "done"
  /\ bg.pc \in {"logged", "synced"} =>
       /\ \A t \in bg.edit.add : Safe(t)
       /\ bg.edit.log <= db.log
       /\ bg.edit.del # {} => bg.edit.del = comp.in /\ comp.pc = "done"

DiskInv == /\ DiskOK(Disk, writes) /\ DOMAIN file = dir.names \union ddir.names
           /\ DiskSound(Disk, torn)

IInv ==
  /\ DiskInv /\ ProcessTypeOK /\ CountsOK /\ AcksBehindInstall
  /\ Resting /\ Created /\ Recovering /\ Installing
  /\ Opened /\ Registering /\ Compacting /\ Flushing


-----------------------------------------------------------------------------
(* The file operations: what they change, and that they keep a disk sound. *)

LEMMA CreateIs ==
  ASSUME NEW d, NEW w, DiskOK(d, w), NEW name, NEW c
  PROVE  LET e == Create(d, name, c)
         IN /\ DOMAIN e = {"dir", "ddir", "file"}
            /\ DOMAIN e.dir = {"names", "current"}
            /\ e.dir.names = d.dir.names \union {name} /\ e.dir.current = d.dir.current
            /\ e.ddir = d.ddir
            /\ DOMAIN e.file = DOMAIN d.file \union {name}
            /\ e.file[name] = [data |-> c, dur |-> 0]
            /\ \A n \in DOMAIN d.file : n # name => e.file[n] = d.file[n]
BY DEF Create, DiskOK, DirOK

LEMMA AddRecordIs ==
  ASSUME NEW d, NEW w, DiskOK(d, w), NEW name \in DOMAIN d.file, NEW r
  PROVE  LET e == AddRecord(d, name, r)
         IN /\ DOMAIN e = {"dir", "ddir", "file"}
            /\ e.dir = d.dir /\ e.ddir = d.ddir
            /\ DOMAIN e.file = DOMAIN d.file
            /\ DOMAIN e.file[name] = {"data", "dur"}
            /\ e.file[name].data = Append(d.file[name].data, r)
            /\ e.file[name].dur = d.file[name].dur
            /\ \A n \in DOMAIN d.file : n # name => e.file[n] = d.file[n]
BY DEF AddRecord, DiskOK, FileOK

LEMMA SyncIs ==
  ASSUME NEW d, NEW w, DiskOK(d, w), NEW name \in DOMAIN d.file
  PROVE  LET e == Sync(d, name)
         IN /\ DOMAIN e = {"dir", "ddir", "file"}
            /\ e.dir = d.dir /\ e.ddir = d.dir
            /\ DOMAIN e.file = DOMAIN d.file
            /\ DOMAIN e.file[name] = {"data", "dur"}
            /\ e.file[name].data = d.file[name].data
            /\ e.file[name].dur = Len(d.file[name].data)
            /\ \A n \in DOMAIN d.file : n # name => e.file[n] = d.file[n]
BY DEF Sync, DiskOK, FileOK

LEMMA CreateKeeps ==
  ASSUME NEW d, NEW w, DiskOK(d, w), NEW name \in Name, NEW c,
         FileOK(name, [data |-> c, dur |-> 0], w)
  PROVE  /\ DiskOK(Create(d, name, c), w)
         /\ \A b : /\ DiskSound(d, b)
                   /\ name # Manifest(d.dir.current) /\ name # Manifest(d.ddir.current)
                   => DiskSound(Create(d, name, c), b)
<1> DEFINE e == Create(d, name, c)
<1>1. /\ DOMAIN e = {"dir", "ddir", "file"}
      /\ DOMAIN e.dir = {"names", "current"}
      /\ e.dir.names = d.dir.names \union {name} /\ e.dir.current = d.dir.current
      /\ e.ddir = d.ddir
      /\ DOMAIN e.file = DOMAIN d.file \union {name}
      /\ e.file[name] = [data |-> c, dur |-> 0]
      /\ \A n \in DOMAIN d.file : n # name => e.file[n] = d.file[n]
  BY CreateIs
<1> HIDE DEF e
<1>2. DiskOK(e, w)
  BY <1>1 DEF DiskOK, DirOK
<1>3. ASSUME NEW b, DiskSound(d, b),
             name # Manifest(d.dir.current), name # Manifest(d.ddir.current)
      PROVE  DiskSound(e, b)
  <2>1. /\ Manifest(d.dir.current) \in d.dir.names =>
             e.file[Manifest(d.dir.current)] = d.file[Manifest(d.dir.current)]
        /\ Manifest(d.ddir.current) \in d.ddir.names =>
             e.file[Manifest(d.ddir.current)] = d.file[Manifest(d.ddir.current)]
    BY <1>1, <1>3 DEF DiskOK
  <2>2. DirSound(e.dir, e.file, b)
    BY <1>1, <1>3, <2>1 DEF DiskSound, DirSound, TablesThere
  <2>3. DirSound(e.ddir, e.file, b)
    BY <1>1, <1>3, <2>1 DEF DiskSound, DirSound, TablesThere
  <2> QED
    BY <2>2, <2>3 DEF DiskSound
<1> QED
  BY <1>2, <1>3 DEF e

\* Syncing a file commits the directory and shortens what may be lost.
LEMMA SyncKeeps ==
  ASSUME NEW d, NEW w, DiskOK(d, w), NEW name \in DOMAIN d.file
  PROVE  /\ DiskOK(Sync(d, name), w)
         /\ \A b : DiskSound(d, b) => DiskSound(Sync(d, name), b)
<1> DEFINE e == Sync(d, name)
<1>1. /\ DOMAIN e = {"dir", "ddir", "file"}
      /\ e.dir = d.dir /\ e.ddir = d.dir
      /\ DOMAIN e.file = DOMAIN d.file
      /\ DOMAIN e.file[name] = {"data", "dur"}
      /\ e.file[name].data = d.file[name].data
      /\ e.file[name].dur = Len(d.file[name].data)
      /\ \A n \in DOMAIN d.file : n # name => e.file[n] = d.file[n]
  BY SyncIs
<1> HIDE DEF e
<1>0. Len(d.file[name].data) \in Nat
  BY DEF DiskOK, FileOK, Name
<1>2. DiskOK(e, w)
  <2>1. FileOK(name, e.file[name], w)
    BY <1>0, <1>1 DEF DiskOK, FileOK
  <2> QED
    BY <1>1, <2>1 DEF DiskOK, DirOK
<1>3. ASSUME NEW b, DiskSound(d, b)
      PROVE  DiskSound(e, b)
  <2> DEFINE n == Manifest(d.dir.current)
  <2>1. CASE d.dir.current = 0
    BY <2>1, <1>1 DEF DiskSound, DirSound
  <2>2. CASE d.dir.current # 0 /\ n # name
    BY <2>2, <1>1, <1>3 DEF DiskSound, DirSound, DiskOK
  <2>3. CASE d.dir.current # 0 /\ n = name
    <3>1. TablesThere(d.dir, d.file[n]) /\ Readables(d.dir.current, d.file[n], b)
          /\ n \in d.dir.names
      BY <1>3, <2>3 DEF DiskSound, DirSound
    <3>2. d.file[n].dur \in 0 .. Len(d.file[n].data)
      BY <2>3 DEF DiskOK, FileOK
    <3>3. TablesThere(d.dir, e.file[n])
      BY <3>1, <3>2, <2>3, <1>0, <1>1 DEF TablesThere
    <3>4. Readables(d.dir.current, e.file[n], b)
      BY <3>1, <3>2, <2>3, <1>0, <1>1 DEF Readables
    <3> QED
      BY <3>1, <3>3, <3>4, <1>1 DEF DiskSound, DirSound
  <2> QED
    BY <2>1, <2>2, <2>3
<1> QED
  BY <1>2, <1>3 DEF e


LEMMA FileOKGrows ==
  ASSUME NEW n, NEW f, NEW w \in Nat, NEW v \in Nat, w <= v, FileOK(n, f, w)
  PROVE  FileOK(n, f, v)
<1>0. (\A r \in Rec : r.seq \in Nat) /\ (\A x \in Edit : x.seq \in Nat)
  BY DEF Rec, Edit
<1>1. ASSUME n[1] = "log", NEW i \in 1 .. Len(f.data)
      PROVE  f.data[i].seq <= v
  BY <1>0, <1>1 DEF FileOK
<1>2. ASSUME n[1] = "manifest", NEW i \in 1 .. Len(f.data)
      PROVE  f.data[i].seq <= v
  BY <1>0, <1>2 DEF FileOK
<1> QED
  BY <1>1, <1>2 DEF FileOK

LEMMA AddRecordKeeps ==
  ASSUME NEW d, NEW w, DiskOK(d, w), NEW name \in DOMAIN d.file, NEW r, NEW v \in Nat,
         w \in Nat, w <= v,
         \/ name[1] = "log" /\ r \in Rec /\ r.seq <= v
         \/ name[1] = "table" /\ r \in SUBSET Rec
  PROVE  /\ DiskOK(AddRecord(d, name, r), v)
         /\ \A b : DiskSound(d, b) => DiskSound(AddRecord(d, name, r), b)
<1> DEFINE e == AddRecord(d, name, r)
<1>1. /\ DOMAIN e = {"dir", "ddir", "file"}
      /\ e.dir = d.dir /\ e.ddir = d.ddir
      /\ DOMAIN e.file = DOMAIN d.file
      /\ DOMAIN e.file[name] = {"data", "dur"}
      /\ e.file[name].data = Append(d.file[name].data, r)
      /\ e.file[name].dur = d.file[name].dur
      /\ \A n \in DOMAIN d.file : n # name => e.file[n] = d.file[n]
  BY AddRecordIs
<1> HIDE DEF e
<1>2. DiskOK(e, v)
  <2>2. \A n \in DOMAIN d.file : FileOK(n, d.file[n], v)
    BY FileOKGrows DEF DiskOK
  <2>1. FileOK(name, e.file[name], v)
    <3>1. FileOK(name, d.file[name], v)
      BY <2>2
    <3> DEFINE q == d.file[name].data
    <3> HIDE DEF q
    <3>2. CASE name[1] = "log"
      <4>1. q \in Seq(Rec)
        BY <3>1, <3>2 DEF FileOK, q
      <4>2. /\ Len(Append(q, r)) = Len(q) + 1 /\ Append(q, r)[Len(q) + 1] = r
            /\ \A i \in 1 .. Len(q) : Append(q, r)[i] = q[i]
            /\ Append(q, r) \in Seq(Rec) /\ Len(q) \in Nat
        BY <3>2, <4>1, AppendProperties, LenProperties
      <4> QED
        BY <1>1, <3>1, <3>2, <4>2 DEF FileOK, q
    <3>3. CASE name[1] = "table"
      <4>1. q \in Seq(SUBSET Rec)
        BY <3>1, <3>3 DEF FileOK, q
      <4>2. /\ Len(Append(q, r)) = Len(q) + 1 /\ Len(q) \in Nat
            /\ Append(q, r) \in Seq(SUBSET Rec)
        BY <3>3, <4>1, AppendProperties, LenProperties
      <4> QED
        BY <1>1, <3>1, <3>3, <4>2 DEF FileOK, q
    <3> QED
      BY <3>2, <3>3
  <2> QED
    BY <1>1, <2>1, <2>2 DEF DiskOK
<1>3. ASSUME NEW b, DiskSound(d, b)
      PROVE  DiskSound(e, b)
  <2>1. Manifest(d.dir.current) # name /\ Manifest(d.ddir.current) # name
    BY DEF Manifest
  <2> QED
    BY <1>1, <1>3, <2>1 DEF DiskSound, DirSound, DiskOK
<1> QED
  BY <1>2, <1>3 DEF e

\* One more edit: the tables it leaves out or takes in.
LEMMA LiveAtAppend ==
  ASSUME NEW es \in Seq(Edit), NEW x \in Edit
  PROVE  /\ \A k \in 0 .. Len(es) : LiveAt(Append(es, x), k) = LiveAt(es, k)
         /\ LiveAt(Append(es, x), Len(es) + 1)
              \subseteq (LiveAt(es, Len(es)) \ x.del) \union x.add
<1> DEFINE aps == Append(es, x)
<1>1. Len(aps) = Len(es) + 1 /\ aps[Len(es) + 1] = x /\ \A i \in 1 .. Len(es) : aps[i] = es[i]
      /\ Len(es) \in Nat
  BY AppendProperties, LenProperties
<1> HIDE DEF aps
<1>2. ASSUME NEW k \in 0 .. Len(es)
      PROVE  LiveAt(aps, k) = LiveAt(es, k)
  <2>1. ASSUME NEW i \in 1 .. k
        PROVE  /\ aps[i] = es[i]
               /\ \A j \in i + 1 .. k : aps[j].del = es[j].del
    <3>1. aps[i] = es[i]
      BY <1>1
    <3>2. ASSUME NEW j \in i + 1 .. k
          PROVE  aps[j].del = es[j].del
      BY <1>1
    <3> QED
      BY <3>1, <3>2
  <2> QED
    BY <2>1 DEF LiveAt
<1>3. ASSUME NEW t \in LiveAt(aps, Len(es) + 1)
      PROVE  t \in (LiveAt(es, Len(es)) \ x.del) \union x.add
  <2>1. PICK i \in 1 .. Len(es) + 1 :
          t \in aps[i].add /\ \A j \in i + 1 .. Len(es) + 1 : t \notin aps[j].del
    BY <1>3 DEF LiveAt
  <2>2. CASE i = Len(es) + 1
    BY <2>1, <2>2, <1>1
  <2>3. CASE i \in 1 .. Len(es)
    <3>0. aps[i] = es[i] /\ Len(es) + 1 \in i + 1 .. Len(es) + 1
      BY <2>3, <1>1
    <3>1. t \in es[i].add /\ t \notin x.del
      BY <2>1, <3>0, <1>1
    <3>3. t \in Nat
      BY <1>3 DEF LiveAt
    <3>2. ASSUME NEW j \in i + 1 .. Len(es)
          PROVE  t \notin es[j].del
      <4>1. aps[j] = es[j] /\ j \in i + 1 .. Len(es) + 1
        BY <2>3, <1>1
      <4> QED
        BY <2>1, <4>1
    <3> QED
      BY <2>3, <3>1, <3>2, <3>3 DEF LiveAt
  <2> QED
    BY <2>2, <2>3
<1> QED
  BY <1>2, <1>3 DEF aps

\* An edit goes to the manifest that CURRENT names: its new tables are there.
LEMMA AddEditKeeps ==
  ASSUME NEW d, NEW w \in Nat, DiskOK(d, w), NEW m \in 2 .. MaxNumber, m = d.dir.current,
         NEW name, name = Manifest(m),
         NEW x \in Edit, x.seq <= w, x.next # 0 => x.next \in m + 1 .. MaxNumber,
         \A t \in x.add : Table(t) \in d.dir.names /\ Table(t) \in d.ddir.names,
         NEW b \in BOOLEAN, NEW broken \in BOOLEAN, DiskSound(d, b), b => broken,
         broken \/ \A i \in 1 .. Len(d.file[name].data) : d.file[name].data[i].full
  PROVE  /\ DiskOK(AddRecord(d, name, x), w)
         /\ DiskSound(AddRecord(d, name, x), broken)
<1> DEFINE e == AddRecord(d, name, x)
           es == d.file[name].data
           N == Len(es)
<1>0. name \in d.dir.names /\ name \in DOMAIN d.file /\ name[1] = "manifest" /\ name[2] = m
  <2>1. name[1] = "manifest" /\ name[2] = m
    BY DEF Manifest
  <2>2. m # 0
    <3>1. MaxNumber \in Int
      BY ONLY BoundsAssumption
    <3> QED
      BY ONLY <3>1, m \in 2 .. MaxNumber
  <2>3. DirSound(d.dir, d.file, b)
    BY ONLY DiskSound(d, b) DEF DiskSound
  <2>4. Manifest(d.dir.current) \in d.dir.names
    BY ONLY <2>2, <2>3, m = d.dir.current DEF DirSound
  <2>5. name \in d.dir.names
    BY ONLY <2>4, m = d.dir.current, name = Manifest(m)
  <2>6. d.dir.names \subseteq DOMAIN d.file
    BY ONLY DiskOK(d, w) DEF DiskOK
  <2> QED
    BY ONLY <2>1, <2>5, <2>6
<1>1. /\ DOMAIN e = {"dir", "ddir", "file"}
      /\ e.dir = d.dir /\ e.ddir = d.ddir
      /\ DOMAIN e.file = DOMAIN d.file
      /\ DOMAIN e.file[name] = {"data", "dur"}
      /\ e.file[name].data = Append(es, x)
      /\ e.file[name].dur = d.file[name].dur
      /\ \A n \in DOMAIN d.file : n # name => e.file[n] = d.file[n]
  <2> HIDE DEF es
  <2>1. d.file[name].data = es
    BY DEF es
  <2> QED
    BY ONLY <1>0, <2>1, AddRecordIs, DiskOK(d, w)
<1> HIDE DEF e, es, N
<1>2. es \in Seq(Edit) /\ N \in Nat /\ d.file[name].dur \in 0 .. N
  <2>1. FileOK(name, d.file[name], w)
    BY ONLY <1>0, DiskOK(d, w) DEF DiskOK
  <2>2. d.file[name].data \in Seq(Edit) /\ d.file[name].dur \in 0 .. Len(d.file[name].data)
    BY ONLY <1>0, <2>1 DEF FileOK
  <2>3. Len(d.file[name].data) \in Nat
    BY ONLY <2>2, LenProperties
  <2> QED
    BY ONLY <2>2, <2>3 DEF es, N
<1>3. /\ \A k \in 0 .. N : LiveAt(Append(es, x), k) = LiveAt(es, k)
      /\ LiveAt(Append(es, x), N + 1) \subseteq LiveAt(es, N) \union x.add
  BY <1>2, LiveAtAppend DEF N
<1>4. /\ Len(Append(es, x)) = N + 1 /\ Append(es, x)[N + 1] = x
      /\ \A i \in 1 .. N : Append(es, x)[i] = es[i]
      /\ Append(es, x) \in Seq(Edit)
  BY ONLY <1>2, x \in Edit, AppendProperties DEF N
<1> DEFINE aps == Append(es, x)
<1> HIDE DEF aps
<1>7. /\ e.file[name].data = aps /\ Len(aps) = N + 1 /\ aps \in Seq(Edit)
      /\ e.file[name].dur = d.file[name].dur /\ DOMAIN e.file[name] = {"data", "dur"}
  BY <1>1, <1>4 DEF aps
<1>5. DiskOK(e, w)
  <2>0. FileOK(name, d.file[name], w)
    BY <1>0 DEF DiskOK
  <2>1. FileOK(name, e.file[name], w)
    <3>1. /\ \A i \in 1 .. N : es[i].seq <= w /\ (es[i].next # 0 => es[i].next \in m + 1 .. MaxNumber)
          /\ name[1] = "manifest" /\ name[2] = m
      BY <1>0, <2>0 DEF FileOK, es, N
    <3>2. ASSUME NEW i \in 1 .. N + 1
          PROVE  aps[i].seq <= w /\ (aps[i].next # 0 => aps[i].next \in m + 1 .. MaxNumber)
      <4>1. CASE i \in 1 .. N
        BY <3>1, <4>1, <1>4 DEF aps
      <4>2. CASE i = N + 1
        BY <4>2, <1>4 DEF aps
      <4> QED
        BY <4>1, <4>2, <1>2
    <3>3. e.file[name].dur \in 0 .. Len(e.file[name].data)
      BY ONLY <1>2, <1>7
    <3>4. \A i \in 1 .. Len(e.file[name].data) :
            /\ e.file[name].data[i].seq <= w
            /\ e.file[name].data[i].next # 0 => e.file[name].data[i].next \in name[2] + 1 .. MaxNumber
      BY ONLY <1>7, <3>1, <3>2
    <3>5. e.file[name].data \in Seq(Edit) /\ DOMAIN e.file[name] = {"data", "dur"}
      BY ONLY <1>7
    <3> QED
      BY ONLY <3>1, <3>3, <3>4, <3>5 DEF FileOK
  <2> QED
    BY <1>1, <2>1 DEF DiskOK
<1>6. ASSUME NEW D, D \in {d.dir, d.ddir}
      PROVE  DirSound(D, e.file, broken)
  <2>0. DirSound(D, d.file, b) /\ D.names \subseteq DOMAIN d.file /\ D.current \in 0 .. MaxNumber
        /\ \A t \in x.add : Table(t) \in D.names
    BY <1>6 DEF DiskSound, DiskOK, DirOK
  <2>1. CASE D.current = 0
    BY <2>1 DEF DirSound
  <2>2. CASE D.current # 0 /\ D.current # m
    <3>1. Manifest(D.current) # name
      BY <2>2 DEF Manifest
    <3>2. e.file[Manifest(D.current)] = d.file[Manifest(D.current)]
      BY <1>1, <2>0, <2>2, <3>1 DEF DirSound
    <3>3. Readables(D.current, d.file[Manifest(D.current)], broken)
      BY <2>0, <2>2 DEF DirSound, Readables
    <3> QED
      BY <2>0, <2>2, <3>2, <3>3 DEF DirSound
  <2>3. CASE D.current = m
    <3>1. TablesThere(D, d.file[name]) /\ Readables(m, d.file[name], b) /\ name \in D.names
      BY <2>0, <2>3 DEF DirSound
    <3>2. TablesThere(D, e.file[name])
      <4> SUFFICES ASSUME NEW k \in d.file[name].dur .. N + 1, NEW t \in LiveAt(aps, k)
                   PROVE  Table(t) \in D.names
        BY <1>1, <1>4 DEF TablesThere, aps
      <4>1. CASE k \in d.file[name].dur .. N
        <5>1. t \in LiveAt(es, k)
          BY <4>1, <1>2, <1>3 DEF aps
        <5> QED
          BY <4>1, <5>1, <3>1 DEF TablesThere, es, N
      <4>2. CASE k = N + 1
        <5>1. t \in LiveAt(es, N) \/ t \in x.add
          BY <4>2, <1>3 DEF aps
        <5> QED
          <6>1. N \in d.file[name].dur .. Len(d.file[name].data)
            BY <1>2 DEF N, es
          <6>2. t \in LiveAt(d.file[name].data, N) => Table(t) \in D.names
            BY <3>1, <6>1 DEF TablesThere
          <6> QED
            BY <5>1, <2>0, <6>2 DEF es
      <4> QED
        BY <4>1, <4>2, <1>2
    <3>3. Readables(m, e.file[name], broken)
      <4>0. m > 1 /\ m # 1
        BY BoundsAssumption
      <4>1. d.file[name].dur >= 2 /\ es[2].full /\ es[2].next # 0
        BY <3>1, <4>0 DEF Readables, es
      <4>2. aps[2] = es[2] /\ Len(aps) = N + 1
        BY <4>1, <1>2, <1>4 DEF aps
      <4>3. ~broken => \A i \in 1 .. N + 1 : ~aps[i].full => i = N + 1
        <5> SUFFICES ASSUME ~broken, NEW i \in 1 .. N + 1, i # N + 1
                     PROVE  aps[i].full
          OBVIOUS
        <5>1. i \in 1 .. N
          BY <1>2
        <5>2. es[i].full
          BY <5>1 DEF es, N
        <5>3. aps[i] = es[i]
          BY <5>1, <1>4 DEF aps
        <5> QED
          BY <5>2, <5>3
      <4> QED
        BY <4>0, <4>1, <4>2, <4>3, <1>7 DEF Readables
    <3> QED
      BY <2>3, <3>1, <3>2, <3>3 DEF DirSound
  <2> QED
    BY <2>1, <2>2, <2>3
<1> QED
  BY <1>1, <1>5, <1>6 DEF e, DiskSound


\* CURRENT moves on to a manifest whose tables are there.
LEMMA SetCurrentFileKeeps ==
  ASSUME NEW d, NEW w, DiskOK(d, w), NEW b, DiskSound(d, b), NEW n \in 1 .. MaxNumber,
         d.dir.current <= n, Manifest(n) \in d.dir.names,
         TablesThere(d.dir, d.file[Manifest(n)]), Readables(n, d.file[Manifest(n)], b)
  PROVE  LET e == SetCurrentFile(d, n)
         IN /\ DiskOK(e, w) /\ DiskSound(e, b)
            /\ e.dir.names = d.dir.names /\ e.dir.current = n
            /\ e.ddir = d.dir /\ e.file = d.file
<1> DEFINE e == SetCurrentFile(d, n)
<1>1. /\ DOMAIN e = {"dir", "ddir", "file"}
      /\ DOMAIN e.dir = {"names", "current"}
      /\ e.dir.names = d.dir.names /\ e.dir.current = n
      /\ e.ddir = d.dir /\ e.file = d.file
  BY DEF SetCurrentFile, DiskOK, DirOK
<1> HIDE DEF e
<1>2. DiskOK(e, w)
  BY <1>1, BoundsAssumption DEF DiskOK, DirOK
<1>3. DiskSound(e, b)
  BY <1>1 DEF DiskSound, DirSound, TablesThere
<1> QED
  BY <1>1, <1>2, <1>3 DEF e

\* A file may go if the manifest is durable and the file is not of its version.
LEMMA DeleteFileKeeps ==
  ASSUME NEW d, NEW w, DiskOK(d, w), NEW b, DiskSound(d, b), NEW name,
         name # Manifest(d.dir.current), d.dir.current # 0,
         NEW m, m = d.file[Manifest(d.dir.current)], m.dur = Len(m.data),
         \A t \in LiveAt(m.data, Len(m.data)) : Table(t) # name
  PROVE  LET e == DeleteFile(d, name)
         IN /\ DiskOK(e, w) /\ DiskSound(e, b)
            /\ e.dir.names = d.dir.names \ {name} /\ e.dir.current = d.dir.current
            /\ e.ddir = d.ddir /\ e.file = d.file
<1> DEFINE e == DeleteFile(d, name)
<1>1. /\ DOMAIN e = {"dir", "ddir", "file"}
      /\ DOMAIN e.dir = {"names", "current"}
      /\ e.dir.names = d.dir.names \ {name} /\ e.dir.current = d.dir.current
      /\ e.ddir = d.ddir /\ e.file = d.file
  BY DEF DeleteFile, DiskOK, DirOK
<1> HIDE DEF e
<1>2. DiskOK(e, w)
  BY <1>1 DEF DiskOK, DirOK
<1>3. Len(m.data) \in Nat /\ Manifest(d.dir.current) \in d.dir.names
      /\ TablesThere(d.dir, m) /\ Readables(d.dir.current, m, b)
  <2>1. Manifest(d.dir.current) \in d.dir.names /\ Manifest(d.dir.current) \in DOMAIN d.file
    BY DEF DiskSound, DirSound, DiskOK
  <2>2. FileOK(Manifest(d.dir.current), m, w)
    BY <2>1 DEF DiskOK
  <2>3. m.data \in Seq(Edit)
    BY <2>2 DEF FileOK, Manifest
  <2> QED
    BY <2>1, <2>3, LenProperties DEF DiskSound, DirSound
<1>4. TablesThere(e.dir, m)
  <2> SUFFICES ASSUME NEW k \in m.dur .. Len(m.data), NEW t \in LiveAt(m.data, k)
               PROVE  Table(t) \in e.dir.names
    BY DEF TablesThere
  <2>1. k = Len(m.data)
    BY <1>3
  <2>2. Table(t) \in d.dir.names
    BY <1>3 DEF TablesThere
  <2> QED
    BY <1>1, <2>1, <2>2
<1>5. DiskSound(e, b)
  BY <1>1, <1>3, <1>4 DEF DiskSound, DirSound
<1> QED
  BY <1>1, <1>2, <1>5 DEF e

\* The kernel commits the directory.
LEMMA CommitKeeps ==
  ASSUME NEW d, NEW w, DiskOK(d, w), NEW b, DiskSound(d, b)
  PROVE  LET e == [d EXCEPT !.ddir = d.dir]
         IN /\ DiskOK(e, w) /\ DiskSound(e, b)
            /\ e.dir = d.dir /\ e.ddir = d.dir /\ e.file = d.file
<1> DEFINE e == [d EXCEPT !.ddir = d.dir]
<1>1. /\ DOMAIN e = {"dir", "ddir", "file"}
      /\ e.dir = d.dir /\ e.ddir = d.dir /\ e.file = d.file
  BY DEF DiskOK
<1> HIDE DEF e
<1>2. DiskOK(e, w)
  BY <1>1 DEF DiskOK, DirOK
<1>3. DiskSound(e, b)
  BY <1>1 DEF DiskSound
<1> QED
  BY <1>1, <1>2, <1>3 DEF e

\* The kernel writes a file back.
LEMMA WriteBackKeeps ==
  ASSUME NEW d, NEW w, DiskOK(d, w), NEW b, DiskSound(d, b), NEW name \in DOMAIN d.file
  PROVE  LET e == [d EXCEPT !.file[name].dur = Len(d.file[name].data)]
         IN /\ DiskOK(e, w) /\ DiskSound(e, b)
            /\ e.dir = d.dir /\ e.ddir = d.ddir
            /\ DOMAIN e.file = DOMAIN d.file
            /\ e.file[name].data = d.file[name].data
            /\ e.file[name].dur = Len(d.file[name].data)
            /\ \A n \in DOMAIN d.file : n # name => e.file[n] = d.file[n]
<1> DEFINE e == [d EXCEPT !.file[name].dur = Len(d.file[name].data)]
<1>1. /\ DOMAIN e = {"dir", "ddir", "file"}
      /\ e.dir = d.dir /\ e.ddir = d.ddir
      /\ DOMAIN e.file = DOMAIN d.file
      /\ DOMAIN e.file[name] = {"data", "dur"}
      /\ e.file[name].data = d.file[name].data
      /\ e.file[name].dur = Len(d.file[name].data)
      /\ \A n \in DOMAIN d.file : n # name => e.file[n] = d.file[n]
  BY DEF DiskOK, FileOK
<1> HIDE DEF e
<1>0. Len(d.file[name].data) \in Nat
  BY DEF DiskOK, FileOK, Name
<1>2. DiskOK(e, w)
  <2>1. FileOK(name, e.file[name], w)
    BY <1>0, <1>1 DEF DiskOK, FileOK
  <2> QED
    BY <1>1, <2>1 DEF DiskOK, DirOK
<1>3. ASSUME NEW D, D \in {d.dir, d.ddir}
      PROVE  DirSound(D, e.file, b)
  <2> DEFINE n == Manifest(D.current)
  <2>0. DirSound(D, d.file, b) /\ D.names \subseteq DOMAIN d.file
    BY <1>3 DEF DiskSound, DiskOK
  <2>1. CASE D.current = 0
    BY <2>1 DEF DirSound
  <2>2. CASE D.current # 0 /\ n # name
    BY <2>0, <2>2, <1>1 DEF DirSound
  <2>3. CASE D.current # 0 /\ n = name
    <3>1. TablesThere(D, d.file[n]) /\ Readables(D.current, d.file[n], b) /\ n \in D.names
      BY <2>0, <2>3 DEF DirSound
    <3>2. d.file[n].dur \in 0 .. Len(d.file[n].data)
      BY <2>3 DEF DiskOK, FileOK
    <3>3. TablesThere(D, e.file[n])
      BY <3>1, <3>2, <2>3, <1>0, <1>1 DEF TablesThere
    <3>4. Readables(D.current, e.file[n], b)
      BY <3>1, <3>2, <2>3, <1>0, <1>1 DEF Readables
    <3> QED
      BY <3>1, <3>3, <3>4 DEF DirSound
  <2> QED
    BY <2>1, <2>2, <2>3
<1>4. DiskSound(e, b)
  BY <1>1, <1>3 DEF DiskSound
<1> QED
  BY <1>1, <1>2, <1>4 DEF e


\* A prefix of a file's contents: the contents up to its length.


\* A prefix of a file's contents: the contents up to its length.
LEMMA PrefixIs ==
  ASSUME NEW S, NEW q \in Seq(S), NEW k \in 0 .. Len(q)
  PROVE  /\ SubSeq(q, 1, k) \in Seq(S) /\ Len(SubSeq(q, 1, k)) = k
         /\ \A i \in 1 .. k : SubSeq(q, 1, k)[i] = q[i]
<1>1. Len(q) \in Nat
  BY LenProperties
<1> QED
  BY <1>1, SubSeqProperties

\* Only the last element of a list of edits may be cut short: so it is of a
\* prefix with two elements.
LEMMA PrefixFull ==
  ASSUME NEW L \in Nat, NEW k \in 2 .. L, NEW p, NEW q, NEW b,
         \A i \in 1 .. k : p[i] = q[i],
         ~b => \A i \in 1 .. L : ~q[i].full => i = L
  PROVE  p[2] = q[2] /\ (~b => \A i \in 1 .. k : ~p[i].full => i = k)
<1>1. p[2] = q[2]
  OBVIOUS
<1>2. ASSUME ~b, NEW i \in 1 .. k, ~p[i].full
      PROVE  i = k
  <2>1. i \in 1 .. L /\ ~q[i].full
    BY <1>2
  <2>2. i = L
    BY <1>2, <2>1
  <2> QED
    BY <2>2
<1> QED
  BY <1>1, <1>2

LEMMA AfterCrashKeeps ==
  ASSUME NEW d, NEW w, DiskOK(d, w), NEW b, DiskSound(d, b)
  PROVE  LET e == AfterCrash(d)
         IN DiskOK(e, w) /\ DiskSound(e, b) /\ e.dir = d.ddir /\ e.ddir = d.ddir
<1> DEFINE e == AfterCrash(d)
<1>1. /\ DOMAIN e = {"dir", "ddir", "file"}
      /\ e.dir = d.ddir /\ e.ddir = d.ddir
      /\ DOMAIN e.file = DOMAIN d.file
      /\ \A n \in DOMAIN d.file :
           /\ DOMAIN e.file[n] = {"data", "dur"}
           /\ e.file[n].data = SubSeq(d.file[n].data, 1, d.file[n].dur)
           /\ e.file[n].dur = d.file[n].dur
  BY DEF AfterCrash, DiskOK, FileOK
<1> HIDE DEF e
<1>2. ASSUME NEW n \in DOMAIN d.file
      PROVE  FileOK(n, e.file[n], w)
  <2> DEFINE q == d.file[n].data
             k == d.file[n].dur
             p == SubSeq(q, 1, k)
  <2>0. FileOK(n, d.file[n], w) /\ n \in Name
    BY DEF DiskOK
  <2> HIDE DEF p
  <2>1. k \in 0 .. Len(q) /\ e.file[n].data = p /\ e.file[n].dur = k
        /\ DOMAIN e.file[n] = {"data", "dur"}
    BY <1>1, <2>0 DEF FileOK, p
  <2>2. CASE n[1] = "log"
    <3>1. q \in Seq(Rec) /\ n[2] < MaxNumber /\ \A i \in 1 .. Len(q) : q[i].seq <= w
      BY <2>0, <2>2 DEF FileOK
    <3>2. p \in Seq(Rec) /\ Len(p) = k /\ \A i \in 1 .. k : p[i] = q[i]
      BY <2>1, <3>1, PrefixIs DEF p
    <3>3. ASSUME NEW i \in 1 .. k
          PROVE  p[i].seq <= w
      BY <2>1, <3>1, <3>2, LenProperties
    <3> QED
      BY <2>1, <2>2, <3>1, <3>2, <3>3 DEF FileOK
  <2>3. CASE n[1] = "table"
    <3>1. q \in Seq(SUBSET Rec)
      BY <2>0, <2>3 DEF FileOK
    <3>2. p \in Seq(SUBSET Rec) /\ Len(p) = k
      BY <2>1, <3>1, PrefixIs DEF p
    <3> QED
      BY <2>1, <2>3, <3>1, <3>2 DEF FileOK
  <2>4. CASE n[1] = "manifest"
    <3>1. q \in Seq(Edit) /\ \A i \in 1 .. Len(q) :
            q[i].seq <= w /\ (q[i].next # 0 => q[i].next \in n[2] + 1 .. MaxNumber)
      BY <2>0, <2>4 DEF FileOK
    <3>2. p \in Seq(Edit) /\ Len(p) = k /\ \A i \in 1 .. k : p[i] = q[i]
      BY <2>1, <3>1, PrefixIs DEF p
    <3>3. ASSUME NEW i \in 1 .. k
          PROVE  p[i].seq <= w /\ (p[i].next # 0 => p[i].next \in n[2] + 1 .. MaxNumber)
      BY <2>1, <3>1, <3>2, LenProperties
    <3> QED
      BY <2>1, <2>4, <3>1, <3>2, <3>3 DEF FileOK
  <2> QED
    BY <2>0, <2>2, <2>3, <2>4 DEF Name
<1>3. DiskOK(e, w)
  BY <1>1, <1>2 DEF DiskOK, DirOK
<1>4. DirSound(d.ddir, e.file, b)
  <2> DEFINE n == Manifest(d.ddir.current)
             q == d.file[n].data
             k == d.file[n].dur
             p == SubSeq(q, 1, k)
  <2>1. CASE d.ddir.current = 0
    BY <2>1 DEF DirSound
  <2>2. CASE d.ddir.current # 0
    <3>1. /\ n \in d.ddir.names /\ n \in DOMAIN d.file /\ n[1] = "manifest"
          /\ TablesThere(d.ddir, d.file[n]) /\ Readables(d.ddir.current, d.file[n], b)
      BY <2>2 DEF DiskSound, DirSound, DiskOK, Manifest
    <3>2. FileOK(n, d.file[n], w)
      BY <3>1 DEF DiskOK
    <3>3. q \in Seq(Edit) /\ k \in 0 .. Len(q) /\ Len(q) \in Nat
      BY <3>1, <3>2, LenProperties DEF FileOK
    <3>4. p \in Seq(Edit) /\ Len(p) = k /\ \A i \in 1 .. k : p[i] = q[i]
      BY <3>3, PrefixIs
    <3>5. e.file[n].data = p /\ e.file[n].dur = k
      BY <1>1, <3>1
    <3> HIDE DEF p
    <3>6. \A t \in LiveAt(p, k) : t \in LiveAt(q, k)
      <4> SUFFICES ASSUME NEW t \in LiveAt(p, k)
                   PROVE  t \in LiveAt(q, k)
        OBVIOUS
      <4>1. PICK i \in 1 .. k : t \in p[i].add /\ \A j \in i + 1 .. k : t \notin p[j].del
        BY DEF LiveAt
      <4>2. t \in Nat
        BY DEF LiveAt
      <4>3. ASSUME NEW j \in i + 1 .. k
            PROVE  t \notin q[j].del
        <5>1. j \in 1 .. k
          BY <3>3
        <5> QED
          BY <5>1, <4>1, <3>4
      <4>4. t \in q[i].add
        BY <4>1, <3>4
      <4> QED
        BY <4>1, <4>2, <4>3, <4>4 DEF LiveAt
    <3>7. TablesThere(d.ddir, e.file[n])
      <4> SUFFICES ASSUME NEW h \in k .. k, NEW t \in LiveAt(p, h)
                   PROVE  Table(t) \in d.ddir.names
        BY <3>4, <3>5 DEF TablesThere
      <4>1. h = k /\ k \in k .. Len(q)
        BY <3>3
      <4>2. t \in LiveAt(q, k)
        BY <3>6, <4>1
      <4> QED
        BY <3>1, <4>1, <4>2 DEF TablesThere
    <3>8. Readables(d.ddir.current, e.file[n], b)
      <4> DEFINE c == d.ddir.current
      <4>1. c \in Nat
        BY BoundsAssumption DEF DiskOK, DirOK
      <4> HIDE DEF c
      <4>2. CASE c = 1
        <5>1. Len(q) <= 1 /\ \A i \in 1 .. Len(q) : q[i].full /\ q[i].next # 0
          BY <3>1, <4>2 DEF Readables, c
        <5>2. ASSUME NEW i \in 1 .. k
              PROVE  p[i].full /\ p[i].next # 0
          BY <5>1, <3>3, <3>4
        <5> QED
          BY <3>3, <3>4, <3>5, <4>2, <5>1, <5>2 DEF Readables, c
      <4>3. CASE c > 1
        <5>1. /\ k >= 2 /\ q[2].full /\ q[2].next # 0
              /\ ~b => \A i \in 1 .. Len(q) : ~q[i].full => i = Len(q)
          BY <3>1, <4>3 DEF Readables, c
        <5>4. /\ Len(q) \in Nat /\ k \in 2 .. Len(q)
              /\ \A i \in 1 .. k : p[i] = q[i]
              /\ ~b => \A i \in 1 .. Len(q) : ~q[i].full => i = Len(q)
          <6> HIDE DEF n, q, k
          <6> QED
            BY ONLY <3>3, <3>4, <5>1
        <5>5. p[2] = q[2] /\ (~b => \A i \in 1 .. k : ~p[i].full => i = k)
          BY ONLY <5>4, PrefixFull
        <5>2. p[2] = q[2]
          BY ONLY <5>5
        <5>3. ASSUME ~b, NEW i \in 1 .. k, ~p[i].full
              PROVE  i = k
          BY ONLY <5>3, <5>5
        <5> QED
          <6>1. ~(c = 1)
            BY <4>1, <4>3
          <6>2. ~b => \A i \in 1 .. Len(p) : ~p[i].full => i = Len(p)
            BY <3>4, <5>3
          <6> QED
            BY <3>5, <5>1, <5>2, <6>1, <6>2 DEF Readables, c
      <4>4. CASE c = 0
        BY <4>4, <2>2 DEF c
      <4> QED
        BY <4>1, <4>2, <4>3, <4>4
    <3> QED
      BY <3>1, <3>7, <3>8 DEF DirSound
  <2> QED
    BY <2>1, <2>2
<1> QED
  BY <1>1, <1>3, <1>4 DEF e, DiskSound

\* What an action does to the disk.
LEMMA SetDiskIs ==
  ASSUME NEW e, SetDisk(e)
  PROVE  /\ dir' = e.dir /\ ddir' = e.ddir
         /\ DOMAIN file' = dir'.names \union ddir'.names
         /\ \A n \in dir'.names \union ddir'.names : file'[n] = e.file[n]
BY DEF SetDisk

LEMMA SetDiskKeeps ==
  ASSUME NEW e, SetDisk(e), NEW w, DiskOK(e, w)
  PROVE  /\ DiskOK(Disk', w)
         /\ \A b : DiskSound(e, b) => DiskSound(Disk', b)
<1>1. /\ dir' = e.dir /\ ddir' = e.ddir
      /\ DOMAIN file' = dir'.names \union ddir'.names
      /\ \A n \in dir'.names \union ddir'.names : file'[n] = e.file[n]
  BY SetDiskIs
<1>2. /\ DOMAIN Disk' = {"dir", "ddir", "file"}
      /\ Disk'.dir = dir' /\ Disk'.ddir = ddir' /\ Disk'.file = file'
  BY DEF Disk
<1>3. DiskOK(Disk', w)
  BY <1>1, <1>2 DEF DiskOK
<1>4. ASSUME NEW b, DiskSound(e, b)
      PROVE  DiskSound(Disk', b)
  BY <1>1, <1>2, <1>4 DEF DiskSound, DirSound
<1> QED
  BY <1>3, <1>4

LEMMA DiskIs ==
  /\ DOMAIN Disk = {"dir", "ddir", "file"}
  /\ Disk.dir = dir /\ Disk.ddir = ddir /\ Disk.file = file
BY DEF Disk


-----------------------------------------------------------------------------
(* Most steps are calm: CURRENT and the edits of the manifests stay, no    *)
(* file goes, and the disk stays sound.                                    *)

Calm ==
  /\ DiskInv'
  /\ dir'.current = dir.current /\ dir.names \subseteq dir'.names
  /\ ddir' = ddir \/ ddir' = dir'
  /\ \A n \in dir.names : n[1] = "manifest" =>
       file'[n].data = file[n].data /\ file[n].dur <= file'[n].dur

LEMMA SoundBroken ==
  ASSUME NEW d, NEW b, DiskSound(d, b)
  PROVE  DiskSound(d, TRUE)
BY DEF DiskSound, DirSound, Readables

\* The files of a sound disk, in terms of the variables.
LEMMA FilesAre ==
  ASSUME DiskInv
  PROVE  /\ DirOK(dir) /\ DirOK(ddir) /\ ddir.current <= dir.current
         /\ dir.current \in Nat /\ ddir.current \in Nat
         /\ \A n \in dir.names \union ddir.names : n \in Name /\ FileOK(n, file[n], writes)
         /\ \A n \in dir.names \union ddir.names :
              Len(file[n].data) \in Nat /\ file[n].dur \in 0 .. Len(file[n].data)
         /\ DirSound(dir, file, torn) /\ DirSound(ddir, file, torn)
<1>1. /\ DirOK(dir) /\ DirOK(ddir) /\ ddir.current <= dir.current
      /\ \A n \in dir.names \union ddir.names : n \in Name /\ FileOK(n, file[n], writes)
      /\ DirSound(dir, file, torn) /\ DirSound(ddir, file, torn)
  BY DiskIs DEF DiskInv, DiskOK, DiskSound
<1>2. dir.current \in Nat /\ ddir.current \in Nat
  BY <1>1, BoundsAssumption DEF DirOK
<1>3. ASSUME NEW n \in dir.names \union ddir.names
      PROVE  Len(file[n].data) \in Nat /\ file[n].dur \in 0 .. Len(file[n].data)
  <2>1. n \in Name /\ FileOK(n, file[n], writes)
    BY <1>1
  <2>2. n[1] \in {"log", "table", "manifest"}
    BY <2>1 DEF Name
  <2>3. file[n].data \in Seq(Rec) \/ file[n].data \in Seq(SUBSET Rec) \/ file[n].data \in Seq(Edit)
    BY <2>1, <2>2 DEF FileOK
  <2>4. Len(file[n].data) \in Nat
    BY <2>3, LenProperties
  <2> QED
    BY <2>1, <2>4 DEF FileOK
<1> QED
  BY <1>1, <1>2, <1>3

LEMMA CalmUnchanged ==
  ASSUME DiskInv, UNCHANGED <<dir, ddir, file, writes, torn>>
  PROVE  Calm
<1>1. DiskInv'
  BY DEF DiskInv, Disk
<1>2. \A n \in dir.names : file[n].dur <= file[n].dur
  BY FilesAre
<1> QED
  BY <1>1, <1>2 DEF Calm

\* A new log or table.
LEMMA CalmCreate ==
  ASSUME DiskInv, NEW name \in Name, NEW c, name[1] \in {"log", "table"},
         FileOK(name, [data |-> c, dur |-> 0], writes),
         SetDisk(Create(Disk, name, c)), UNCHANGED <<writes, torn>>
  PROVE  Calm /\ name \in dir'.names
<1> DEFINE e == Create(Disk, name, c)
<1>1. /\ e.dir.names = dir.names \union {name} /\ e.dir.current = dir.current
      /\ e.ddir = ddir
      /\ \A n \in DOMAIN file : n # name => e.file[n] = file[n]
  BY CreateIs, DiskIs DEF DiskInv
<1>2. name # Manifest(dir.current) /\ name # Manifest(ddir.current)
  BY DEF Manifest
<1>3. DiskOK(e, writes) /\ DiskSound(e, torn)
  BY CreateKeeps, DiskIs, <1>2 DEF DiskInv
<1> HIDE DEF e
<1>4. SetDisk(e)
  BY DEF e
<1>5. DiskInv'
  BY <1>3, <1>4, SetDiskKeeps, SetDiskIs DEF DiskInv
<1>6. /\ dir' = e.dir /\ ddir' = e.ddir
      /\ \A n \in dir'.names \union ddir'.names : file'[n] = e.file[n]
  BY <1>4, SetDiskIs
<1>7. ASSUME NEW n \in dir.names, n[1] = "manifest"
      PROVE  file'[n].data = file[n].data /\ file[n].dur <= file'[n].dur
  <2>1. file'[n] = file[n]
    BY <1>1, <1>6, <1>7 DEF DiskInv
  <2> QED
    BY <2>1, FilesAre
<1> QED
  BY <1>1, <1>5, <1>6, <1>7 DEF Calm

\* BuildTable and RecoverLogFile: a new table is synced at once.
LEMMA CalmCreateSync ==
  ASSUME DiskInv, NEW name \in Name, NEW c, name[1] \in {"log", "table"},
         FileOK(name, [data |-> c, dur |-> 0], writes),
         SetDisk(Sync(Create(Disk, name, c), name)), UNCHANGED <<writes, torn>>
  PROVE  Calm /\ name \in dir'.names /\ name \in ddir'.names
<1> DEFINE f == Create(Disk, name, c)
           e == Sync(f, name)
<1>1. /\ f.dir.names = dir.names \union {name} /\ f.dir.current = dir.current
      /\ f.ddir = ddir /\ name \in DOMAIN f.file /\ DOMAIN file \subseteq DOMAIN f.file
      /\ \A n \in DOMAIN file : n # name => f.file[n] = file[n]
  BY CreateIs, DiskIs DEF DiskInv
<1>2. name # Manifest(dir.current) /\ name # Manifest(ddir.current)
  BY DEF Manifest
<1>3. DiskOK(f, writes) /\ DiskSound(f, torn)
  BY CreateKeeps, DiskIs, <1>2 DEF DiskInv
<1> HIDE DEF f
<1>4. DiskOK(e, writes) /\ DiskSound(e, torn)
  BY <1>1, <1>3, SyncKeeps
<1>5. /\ e.dir = f.dir /\ e.ddir = f.dir
      /\ \A n \in DOMAIN f.file : n # name => e.file[n] = f.file[n]
  BY <1>1, <1>3, SyncIs
<1> HIDE DEF e
<1>6. SetDisk(e)
  BY DEF e, f
<1>7. DiskInv'
  BY <1>4, <1>6, SetDiskKeeps, SetDiskIs DEF DiskInv
<1>8. /\ dir' = e.dir /\ ddir' = e.ddir
      /\ \A n \in dir'.names \union ddir'.names : file'[n] = e.file[n]
  BY <1>6, SetDiskIs
<1>9. ASSUME NEW n \in dir.names, n[1] = "manifest"
      PROVE  file'[n].data = file[n].data /\ file[n].dur <= file'[n].dur
  <2>1. file'[n] = file[n]
    BY <1>1, <1>5, <1>8, <1>9 DEF DiskInv
  <2> QED
    BY <2>1, FilesAre
<1> QED
  BY <1>1, <1>5, <1>7, <1>8, <1>9 DEF Calm

\* A record of the log, which may be torn.
LEMMA CalmAddRecord ==
  ASSUME DiskInv, NEW name \in dir.names, name[1] = "log", NEW r \in Rec, r.seq <= writes',
         writes \in Nat, writes' \in Nat, writes <= writes',
         torn' = torn \/ torn' = TRUE,
         SetDisk(AddRecord(Disk, name, r))
  PROVE  Calm
<1> DEFINE e == AddRecord(Disk, name, r)
<1>0. name \in DOMAIN file
  BY DEF DiskInv
<1>1. /\ e.dir = dir /\ e.ddir = ddir
      /\ \A n \in DOMAIN file : n # name => e.file[n] = file[n]
  <2>1. DiskOK(Disk, writes) /\ name \in DOMAIN Disk.file
    BY <1>0, DiskIs DEF DiskInv
  <2> QED
    BY ONLY <2>1, AddRecordIs, DiskIs
<1>3. DiskOK(e, writes') /\ DiskSound(e, torn)
  BY <1>0, AddRecordKeeps, DiskIs DEF DiskInv
<1> HIDE DEF e
<1>4. SetDisk(e) /\ DiskSound(e, torn')
  BY <1>3, SoundBroken DEF e
<1>5. DiskInv'
  BY <1>3, <1>4, SetDiskKeeps, SetDiskIs DEF DiskInv
<1>6. /\ dir' = e.dir /\ ddir' = e.ddir
      /\ \A n \in dir'.names \union ddir'.names : file'[n] = e.file[n]
  BY <1>4, SetDiskIs
<1>7. ASSUME NEW n \in dir.names, n[1] = "manifest"
      PROVE  file'[n].data = file[n].data /\ file[n].dur <= file'[n].dur
  <2>1. file'[n] = file[n]
    BY <1>1, <1>6, <1>7 DEF DiskInv
  <2> QED
    BY <2>1, FilesAre
<1> QED
  BY <1>1, <1>5, <1>6, <1>7 DEF Calm

\* FinishCompactionOutputFile: the output gets its contents and is synced.
LEMMA CalmAddSync ==
  ASSUME DiskInv, NEW name \in dir.names, name[1] = "table", NEW r \in SUBSET Rec,
         writes \in Nat, SetDisk(Sync(AddRecord(Disk, name, r), name)),
         UNCHANGED <<writes, torn>>
  PROVE  Calm /\ name \in ddir'.names
<1> DEFINE f == AddRecord(Disk, name, r)
           e == Sync(f, name)
<1>0. name \in DOMAIN file
  BY DEF DiskInv
<1>1. /\ f.dir = dir /\ f.ddir = ddir /\ DOMAIN f.file = DOMAIN file
      /\ \A n \in DOMAIN file : n # name => f.file[n] = file[n]
  BY <1>0, AddRecordIs, DiskIs DEF DiskInv
<1>3. DiskOK(f, writes) /\ DiskSound(f, torn)
  <2>1. DiskOK(Disk, writes) /\ DiskSound(Disk, torn) /\ name \in DOMAIN Disk.file
        /\ writes <= writes
    BY <1>0, DiskIs DEF DiskInv
  <2> QED
    BY <2>1, AddRecordKeeps
<1> HIDE DEF f
<1>4. DiskOK(e, writes) /\ DiskSound(e, torn)
  BY <1>0, <1>1, <1>3, SyncKeeps
<1>5. /\ e.dir = f.dir /\ e.ddir = f.dir
      /\ \A n \in DOMAIN f.file : n # name => e.file[n] = f.file[n]
  BY <1>0, <1>1, <1>3, SyncIs
<1> HIDE DEF e
<1>6. SetDisk(e)
  BY DEF e, f
<1>7. DiskInv'
  BY <1>4, <1>6, SetDiskKeeps, SetDiskIs DEF DiskInv
<1>8. /\ dir' = e.dir /\ ddir' = e.ddir
      /\ \A n \in dir'.names \union ddir'.names : file'[n] = e.file[n]
  BY <1>6, SetDiskIs
<1>9. ASSUME NEW n \in dir.names, n[1] = "manifest"
      PROVE  file'[n].data = file[n].data /\ file[n].dur <= file'[n].dur
  <2>1. file'[n] = file[n]
    BY <1>1, <1>5, <1>8, <1>9 DEF DiskInv
  <2> QED
    BY <2>1, FilesAre
<1> QED
  BY <1>1, <1>5, <1>7, <1>8, <1>9 DEF Calm

\* A file is synced: all of it is durable.
LEMMA CalmSync ==
  ASSUME DiskInv, NEW name \in dir.names, SetDisk(Sync(Disk, name)),
         UNCHANGED <<writes, torn>>
  PROVE  Calm /\ dir' = dir /\ ddir' = dir /\ file'[name].dur = Len(file'[name].data)
         /\ file'[name].data = file[name].data
<1> DEFINE e == Sync(Disk, name)
<1>0. name \in DOMAIN file
  BY DEF DiskInv
<1>1. /\ e.dir = dir /\ e.ddir = dir
      /\ e.file[name].data = file[name].data /\ e.file[name].dur = Len(file[name].data)
      /\ \A n \in DOMAIN file : n # name => e.file[n] = file[n]
  BY <1>0, SyncIs, DiskIs DEF DiskInv
<1>3. DiskOK(e, writes) /\ DiskSound(e, torn)
  BY <1>0, SyncKeeps, DiskIs DEF DiskInv
<1> HIDE DEF e
<1>4. SetDisk(e)
  BY DEF e
<1>5. DiskInv'
  BY <1>3, <1>4, SetDiskKeeps, SetDiskIs DEF DiskInv
<1>6. /\ dir' = e.dir /\ ddir' = e.ddir
      /\ \A n \in dir'.names \union ddir'.names : file'[n] = e.file[n]
  BY <1>4, SetDiskIs
<1>7. ASSUME NEW n \in dir.names
      PROVE  file'[n].data = file[n].data /\ file[n].dur <= file'[n].dur
  <2>1. n \in DOMAIN file /\ file'[n] = e.file[n] /\ file[n].dur <= Len(file[n].data)
        /\ file[n].dur <= file[n].dur
    BY <1>1, <1>6, FilesAre DEF DiskInv
  <2> QED
    BY <2>1, <1>1
<1>8. file'[name] = e.file[name]
  BY <1>1, <1>6
<1> QED
  BY <1>1, <1>5, <1>6, <1>7, <1>8 DEF Calm

LEMMA CalmCommit ==
  ASSUME DiskInv, SetDisk([Disk EXCEPT !.ddir = dir]), UNCHANGED <<writes, torn>>
  PROVE  Calm
<1> DEFINE e == [Disk EXCEPT !.ddir = Disk.dir]
<1>1. DiskOK(e, writes) /\ DiskSound(e, torn) /\ e.dir = dir /\ e.ddir = dir /\ e.file = file
  BY CommitKeeps, DiskIs DEF DiskInv
<1>2. SetDisk(e)
  BY DiskIs
<1> HIDE DEF e
<1>3. DiskInv'
  BY <1>1, <1>2, SetDiskKeeps, SetDiskIs DEF DiskInv
<1>4. /\ dir' = e.dir /\ ddir' = e.ddir
      /\ \A n \in dir'.names \union ddir'.names : file'[n] = e.file[n]
  BY <1>2, SetDiskIs
<1> QED
  BY <1>1, <1>3, <1>4, FilesAre DEF Calm

LEMMA CalmWriteBack ==
  ASSUME DiskInv, NEW name \in dir.names, UNCHANGED <<writes, torn>>,
         SetDisk([Disk EXCEPT !.file[name].dur = Len(file[name].data)])
  PROVE  Calm
<1> DEFINE e == [Disk EXCEPT !.file[name].dur = Len(Disk.file[name].data)]
<1>0. name \in DOMAIN file
  BY DEF DiskInv
<1>1. /\ DiskOK(e, writes) /\ DiskSound(e, torn) /\ e.dir = dir /\ e.ddir = ddir
      /\ e.file[name].data = file[name].data /\ e.file[name].dur = Len(file[name].data)
      /\ \A n \in DOMAIN file : n # name => e.file[n] = file[n]
  BY <1>0, WriteBackKeeps, DiskIs DEF DiskInv
<1>2. SetDisk(e)
  BY DiskIs
<1> HIDE DEF e
<1>3. DiskInv'
  BY <1>1, <1>2, SetDiskKeeps, SetDiskIs DEF DiskInv
<1>4. /\ dir' = e.dir /\ ddir' = e.ddir
      /\ \A n \in dir'.names \union ddir'.names : file'[n] = e.file[n]
  BY <1>2, SetDiskIs
<1>5. ASSUME NEW n \in dir.names
      PROVE  file'[n].data = file[n].data /\ file[n].dur <= file'[n].dur
  <2>1. n \in DOMAIN file /\ file'[n] = e.file[n] /\ file[n].dur <= Len(file[n].data)
        /\ file[n].dur <= file[n].dur
    BY <1>1, <1>4, FilesAre DEF DiskInv
  <2> QED
    BY <2>1, <1>1
<1> QED
  BY <1>1, <1>3, <1>4, <1>5 DEF Calm


-----------------------------------------------------------------------------


-----------------------------------------------------------------------------
(* What a calm step leaves as it was. *)

LEMMA CalmFacts ==
  ASSUME IInv, Calm
  PROVE  /\ DiskInv' /\ dir'.current = dir.current
         /\ \A n \in dir.names : n \in dir'.names
         /\ \A t : (On(t) => On(t)') /\ (Safe(t) => Safe(t)')
         /\ ddir.current > 1 => ddir'.current > 1
         /\ \A n : Manifest(n) \in dir.names =>
              LET m == file[Manifest(n)]
                  m2 == file'[Manifest(n)]
              IN m2.data = m.data /\ m.dur <= m2.dur /\ m2.dur <= Len(m.data)
                 /\ m.dur \in Nat /\ m2.dur \in Nat /\ Len(m.data) \in Nat
<1>1. DiskInv /\ DiskInv' /\ dir'.current = dir.current /\ dir.names \subseteq dir'.names
      /\ (ddir' = ddir \/ ddir' = dir')
  BY DEF IInv, Calm
<1>2. /\ ddir.current <= dir.current /\ dir.current \in Nat /\ ddir.current \in Nat
      /\ \A n \in dir.names \union ddir.names :
           Len(file[n].data) \in Nat /\ file[n].dur \in 0 .. Len(file[n].data)
  BY <1>1, FilesAre
<1>3. (/\ ddir.current <= dir.current /\ dir.current \in Nat /\ ddir.current \in Nat
       /\ \A n \in dir.names \union ddir.names :
            Len(file[n].data) \in Nat /\ file[n].dur \in 0 .. Len(file[n].data))'
  BY <1>1, FilesAre, PTL
<1>4. \A t : (On(t) => On(t)') /\ (Safe(t) => Safe(t)')
  BY <1>1 DEF On, Safe
<1>5. ddir.current > 1 => ddir'.current > 1
  BY <1>1, <1>2
<1>6. ASSUME NEW n, Manifest(n) \in dir.names
      PROVE  LET m == file[Manifest(n)]
                 m2 == file'[Manifest(n)]
             IN m2.data = m.data /\ m.dur <= m2.dur /\ m2.dur <= Len(m.data)
                /\ m.dur \in Nat /\ m2.dur \in Nat /\ Len(m.data) \in Nat
  <2>1. /\ file'[Manifest(n)].data = file[Manifest(n)].data
        /\ file[Manifest(n)].dur <= file'[Manifest(n)].dur
    <3>1. Manifest(n)[1] = "manifest"
      BY DEF Manifest
    <3> QED
      BY <1>6, <3>1 DEF Calm
  <2>2. Manifest(n) \in dir'.names
    BY <1>1, <1>6
  <2>3. /\ file[Manifest(n)].dur \in Nat /\ file'[Manifest(n)].dur \in Nat
        /\ Len(file[Manifest(n)].data) \in Nat
        /\ file'[Manifest(n)].dur <= Len(file'[Manifest(n)].data)
    BY <1>2, <1>3, <1>6, <2>2
  <2> QED
    BY <2>1, <2>3
<1> QED
  BY <1>1, <1>4, <1>5, <1>6

\* The manifest goes on agreeing with a version that stays as it is.
LEMMA CalmRegistering ==
  ASSUME IInv, Calm, db'.live = db.live, db'.manifest = db.manifest,
         db'.err = FALSE => db.err = FALSE /\ db.st \in {"gc", "open"},
         db'.err \in BOOLEAN,
         \/ bg' = bg
         \/ bg.pc \in {"idle", "built", "gc"} /\ bg'.pc \in {"idle", "built", "gc"}
  PROVE  Registering'
<1> SUFFICES ASSUME ~db'.err
             PROVE  Registered(file[Manifest(db.manifest)])'
  BY DEF Registering
<1> DEFINE n == db.manifest
           m == file[Manifest(n)]
           m2 == file'[Manifest(n)]
<1>1. Registered(m) /\ Manifest(n) \in dir.names
  BY DEF IInv, Registering, Opened
<1>2. m2.data = m.data /\ m.dur <= m2.dur /\ m2.dur <= Len(m.data)
      /\ m.dur \in Nat /\ m2.dur \in Nat /\ Len(m.data) \in Nat
  BY <1>1, CalmFacts
<1>3. (file[Manifest(db.manifest)])' = m2
  OBVIOUS
<1> HIDE DEF m, m2, n
<1>4. /\ bg'.pc \in {"idle", "built", "gc"} => bg.pc \in {"idle", "built", "gc"}
      /\ bg'.pc \in {"logged", "synced"} => bg' = bg
  OBVIOUS
<1>5. bg'.pc \in {"idle", "built", "gc"} =>
        m2.dur = Len(m2.data) /\ LiveAt(m2.data, Len(m2.data)) \subseteq db'.live
  BY <1>1, <1>2, <1>4 DEF Registered
<1>6. bg'.pc = "logged" =>
        /\ m2.data[Len(m2.data)] = bg'.edit /\ m2.dur >= Len(m2.data) - 1
        /\ LiveAt(m2.data, Len(m2.data) - 1) \subseteq db'.live
  BY <1>1, <1>2, <1>4 DEF Registered
<1>7. bg'.pc = "synced" =>
        /\ m2.dur = Len(m2.data)
        /\ LiveAt(m2.data, Len(m2.data)) \subseteq (db'.live \ bg'.edit.del) \union bg'.edit.add
  BY <1>1, <1>2, <1>4 DEF Registered
<1> QED
  BY <1>3, <1>5, <1>6, <1>7 DEF Registered

LEMMA CalmInstalling ==
  ASSUME IInv, Calm, db'.live = db.live, db'.manifest = db.manifest, db'.add = db.add,
         db'.st = db.st
  PROVE  Installing' /\ Created'
<1>1. Installing'
  <2> SUFFICES ASSUME db.st \in {"sync", "current"}
               PROVE  Installing'
    BY DEF Installing
  <2>1. Manifest(db.manifest) \in dir.names
    BY DEF IInv, Installing
  <2>2. LET m == file[Manifest(db.manifest)]
            m2 == file'[Manifest(db.manifest)]
        IN m2.data = m.data /\ m.dur <= m2.dur /\ m2.dur <= Len(m.data)
           /\ m.dur \in Nat /\ m2.dur \in Nat
    BY <2>1, CalmFacts
  <2>3. Manifest(db.manifest) \in dir'.names
    BY <2>1, CalmFacts
  <2> DEFINE m == file[Manifest(db.manifest)]
             m2 == file'[Manifest(db.manifest)]
  <2>4. /\ Len(m.data) = 2 /\ m.data[1].add = db.live /\ m.data[2].add = db.add
        /\ m.data[1].full /\ m.data[2].full /\ m.data[2].next # 0
        /\ db.st = "current" => m.dur = 2
    BY DEF IInv, Installing
  <2>5. /\ Len(m2.data) = 2 /\ m2.data[1].add = db.live /\ m2.data[2].add = db.add
        /\ m2.data[1].full /\ m2.data[2].full /\ m2.data[2].next # 0
        /\ db.st = "current" => m2.dur = 2
    <3> HIDE DEF m, m2
    <3>1. m2.data = m.data /\ m.dur <= m2.dur /\ m2.dur <= Len(m.data)
          /\ m.dur \in Nat /\ m2.dur \in Nat
      BY <2>2 DEF m, m2
    <3> QED
      BY <2>4, <3>1
  <2> QED
    BY <2>3, <2>5 DEF Installing
<1>2. Created'
  <2> SUFFICES ASSUME db.st = "newdb"
               PROVE  Created'
    BY DEF Created
  <2>1. Manifest(1) \in dir.names /\ dir.current = 0
    BY DEF IInv, Created
  <2>2. file'[Manifest(1)].data = file[Manifest(1)].data
    BY <2>1, CalmFacts
  <2>3. Manifest(1) \in dir'.names /\ dir'.current = 0
    BY <2>1, CalmFacts
  <2> QED
    BY <2>2, <2>3 DEF IInv, Created
<1> QED
  BY <1>1, <1>2

\* CommitDirectory and WriteBack, and stuttering.
LEMMA CalmKeeps ==
  ASSUME IInv, Calm,
         UNCHANGED <<db, bg, comp, wr, writes, owed, synced, torn>>
  PROVE  IInv'
<1>1. /\ DiskInv' /\ dir'.current = dir.current
      /\ \A n \in dir.names : n \in dir'.names
      /\ \A t : (On(t) => On(t)') /\ (Safe(t) => Safe(t)')
      /\ ddir.current > 1 => ddir'.current > 1
  BY CalmFacts
<1>2. Installing' /\ Created'
  BY CalmInstalling
<1>3. db.st \in {"gc", "open"} => Registering'
  BY CalmRegistering DEF IInv, ProcessTypeOK
<1>4. Registering'
  BY <1>3 DEF Registering
<1>5. ProcessTypeOK' /\ CountsOK' /\ Resting'
  BY DEF IInv, ProcessTypeOK, CountsOK, Resting
<1>6. AcksBehindInstall'
  BY <1>1 DEF IInv, AcksBehindInstall
<1>7. Recovering'
  BY <1>1 DEF IInv, Recovering
<1>8. Opened'
  BY <1>1 DEF IInv, Opened
<1>9. Compacting' /\ Flushing'
  BY <1>1 DEF IInv, Compacting, Flushing
<1> QED
  BY <1>1, <1>2, <1>4, <1>5, <1>6, <1>7, <1>8, <1>9 DEF IInv


-----------------------------------------------------------------------------


-----------------------------------------------------------------------------
(* The steps of a running process, one lemma for each action. *)

LEMMA NewLogOK ==
  ASSUME NEW n \in Nat, n >= 1, n < MaxNumber, NEW w
  PROVE  /\ Log(n) \in Name /\ Log(n)[1] = "log"
         /\ FileOK(Log(n), [data |-> << >>, dur |-> 0], w)
<1>1. Log(n) \in Name /\ Log(n)[1] = "log" /\ Log(n)[2] = n
  BY BoundsAssumption DEF Log, Name
<1>2. << >> \in Seq(Rec) /\ Len(<< >>) = 0
  OBVIOUS
<1> QED
  BY <1>1, <1>2 DEF FileOK

LEMMA NewTableOK ==
  ASSUME NEW n \in Nat, n >= 1, n <= MaxNumber, NEW w, NEW c \in Seq(SUBSET Rec)
  PROVE  /\ Table(n) \in Name /\ Table(n)[1] = "table"
         /\ FileOK(Table(n), [data |-> c, dur |-> 0], w)
<1>1. Table(n) \in Name /\ Table(n)[1] = "table"
  BY BoundsAssumption DEF Table, Name
<1>2. Len(c) \in Nat
  BY LenProperties
<1> QED
  BY <1>1, <1>2 DEF FileOK

LEMMA OpenKeeps ==
  ASSUME DiskInv', db'.st = "open", ProcessTypeOK', CountsOK', AcksBehindInstall',
         Opened', Registering', Compacting', Flushing'
  PROVE  IInv'
BY DEF IInv, Resting, Created, Recovering, Installing

LEMMA SwitchMemTableKeeps ==
  ASSUME IInv, SwitchMemTable
  PROVE  IInv'
<1>0. /\ db.next \in 2 .. MaxNumber + 1 /\ db.next < MaxNumber /\ MaxNumber \in Nat
      /\ db.st = "open" /\ ProcessTypeOK /\ DiskInv
      /\ UNCHANGED <<bg, comp, wr, writes, crashes, owed, synced, torn>>
  BY BoundsAssumption DEF IInv, ProcessTypeOK, SwitchMemTable, Running
<1>1. Calm /\ Log(db.next) \in dir'.names
  <2>1. SetDisk(Create(Disk, Log(db.next), << >>))
    BY DEF SwitchMemTable
  <2>2. db.next \in Nat /\ db.next >= 1 /\ db.next < MaxNumber
    BY <1>0
  <2>3. /\ Log(db.next) \in Name /\ Log(db.next)[1] \in {"log", "table"}
        /\ FileOK(Log(db.next), [data |-> << >>, dur |-> 0], writes)
    BY <2>2, NewLogOK
  <2>4. UNCHANGED <<writes, torn>>
    BY <1>0
  <2> QED
    BY ONLY <1>0, <2>1, <2>3, <2>4, CalmCreate
<1>2. /\ DOMAIN db' = DOMAIN db /\ db'.log = db.next /\ db'.next = db.next + 1
      /\ db'.imm = db.mem /\ db'.mem = {} /\ db'.st = db.st /\ db'.minlog = db.minlog
      /\ db'.seq = db.seq /\ db'.manifest = db.manifest /\ db'.live = db.live
      /\ db'.todo = db.todo /\ db'.add = db.add /\ db'.err = db.err /\ db'.pins = db.pins
  BY <1>0 DEF ProcessTypeOK, SwitchMemTable
<1>3. /\ DiskInv' /\ dir'.current = dir.current
      /\ \A n \in dir.names : n \in dir'.names
      /\ \A t : (On(t) => On(t)') /\ (Safe(t) => Safe(t)')
      /\ ddir.current > 1 => ddir'.current > 1
  BY <1>1, CalmFacts
<1>4. ProcessTypeOK'
  BY <1>0, <1>2 DEF ProcessTypeOK
<1>5. CountsOK' /\ AcksBehindInstall'
  BY <1>0, <1>2, <1>3 DEF IInv, CountsOK, AcksBehindInstall
<1>6. Opened'
  BY <1>0, <1>1, <1>2, <1>3 DEF IInv, Opened, ProcessTypeOK
<1>7. Registering'
  BY <1>0, <1>1, <1>2, CalmRegistering DEF ProcessTypeOK
<1>8. Compacting'
  BY <1>0, <1>2, <1>3 DEF IInv, Compacting
<1>9. Flushing'
  BY <1>0, <1>2, <1>3 DEF IInv, Flushing, Opened, ProcessTypeOK, Edit
<1> QED
  BY <1>0, <1>2, <1>3, <1>4, <1>5, <1>6, <1>7, <1>8, <1>9, OpenKeeps


LEMMA LogWriteKeeps ==
  ASSUME IInv, NEW sync \in BOOLEAN, LogWrite(sync)
  PROVE  IInv'
<1> DEFINE rec == [id |-> writes + 1, seq |-> db.seq + 1]
<1>0. /\ ProcessTypeOK /\ DiskInv /\ CountsOK /\ Opened /\ db.st = "open"
      /\ UNCHANGED <<db, bg, comp, crashes, owed, synced, torn>>
      /\ writes' = writes + 1 /\ writes < MaxWrites /\ wr.pc = "idle"
      /\ SetDisk(AddRecord(Disk, Log(db.log), rec))
      /\ wr' = [pc |-> IF sync THEN "sync" ELSE "insert", sync |-> sync, rec |-> rec]
  BY DEF IInv, LogWrite, CanWrite, Running
<1>a. writes \in Nat /\ db.seq \in Nat /\ db.seq <= writes /\ MaxWrites \in Nat
  BY <1>0, BoundsAssumption DEF CountsOK, ProcessTypeOK
<1>b. rec \in Rec /\ rec.seq = db.seq + 1 /\ rec.id = writes + 1
  BY <1>a DEF Rec
<1> HIDE DEF rec
<1>1. Calm
  <2>1. Log(db.log) \in dir.names /\ Log(db.log)[1] = "log"
    BY <1>0 DEF Opened, Log
  <2>2. /\ rec.seq <= writes' /\ writes' \in Nat /\ writes <= writes'
        /\ torn' = torn \/ torn' = TRUE
    BY <1>0, <1>a, <1>b DEF ProcessTypeOK
  <2> QED
    <3>1. DiskInv /\ writes \in Nat /\ SetDisk(AddRecord(Disk, Log(db.log), rec)) /\ rec \in Rec
      BY <1>0, <1>a, <1>b
    <3> QED
      BY ONLY <2>1, <2>2, <3>1, CalmAddRecord
<1>3. /\ DiskInv' /\ dir'.current = dir.current
      /\ \A n \in dir.names : n \in dir'.names
      /\ \A t : (On(t) => On(t)') /\ (Safe(t) => Safe(t)')
      /\ ddir.current > 1 => ddir'.current > 1
  BY <1>1, CalmFacts
<1>4. ProcessTypeOK'
  BY <1>0, <1>b DEF ProcessTypeOK
<1>5. CountsOK'
  BY <1>0, <1>a, <1>b DEF CountsOK
<1>c. wr'.pc = "insert" => wr'.sync = FALSE
  BY <1>0
<1>d. AcksBehindInstall'
  BY <1>0, <1>3, <1>c DEF IInv, AcksBehindInstall
<1>6. Opened'
  BY <1>0, <1>3 DEF Opened
<1>7. Registering'
  BY <1>0, <1>1, CalmRegistering DEF ProcessTypeOK
<1>8. Compacting' /\ Flushing'
  BY <1>0, <1>3 DEF IInv, Compacting, Flushing
<1> QED
  BY <1>0, <1>3, <1>4, <1>5, <1>d, <1>6, <1>7, <1>8, OpenKeeps

LEMMA LogWriteFailsKeeps ==
  ASSUME IInv, LogWriteFails
  PROVE  IInv'
<1>0. /\ ProcessTypeOK /\ DiskInv /\ CountsOK /\ Opened /\ db.st = "open"
      /\ UNCHANGED <<bg, comp, wr, crashes, owed, synced>>
      /\ writes' = writes + 1 /\ writes < MaxWrites /\ wr.pc = "idle" /\ torn' = TRUE
      /\ SetDisk(AddRecord(Disk, Log(db.log), Torn))
  BY DEF IInv, LogWriteFails, CanWrite, Running
<1>a. writes \in Nat /\ db.seq \in Nat /\ db.seq <= writes /\ MaxWrites \in Nat
  BY <1>0, BoundsAssumption DEF CountsOK, ProcessTypeOK
<1>1. Calm
  <2>1. Log(db.log) \in dir.names /\ Log(db.log)[1] = "log"
    BY <1>0 DEF Opened, Log
  <2>2. /\ Torn \in Rec /\ Torn.seq <= writes' /\ writes' \in Nat /\ writes <= writes'
        /\ torn' = torn \/ torn' = TRUE
    BY <1>0, <1>a DEF ProcessTypeOK, Torn, Rec
  <2> QED
    <3>1. DiskInv /\ writes \in Nat /\ SetDisk(AddRecord(Disk, Log(db.log), Torn))
      BY <1>0, <1>a
    <3> QED
      BY ONLY <2>1, <2>2, <3>1, CalmAddRecord
<1>2. /\ DOMAIN db' = DOMAIN db /\ db'.st = db.st /\ db'.mem = db.mem
      /\ db'.imm = db.imm /\ db'.log = db.log /\ db'.minlog = db.minlog
      /\ db'.next = db.next /\ db'.seq = db.seq + 1 /\ db'.manifest = db.manifest
      /\ db'.live = db.live /\ db'.todo = db.todo /\ db'.add = db.add
      /\ db'.err = db.err /\ db'.pins = db.pins
  BY <1>0 DEF ProcessTypeOK, LogWriteFails
<1>3. /\ DiskInv' /\ dir'.current = dir.current
      /\ \A n \in dir.names : n \in dir'.names
      /\ \A t : (On(t) => On(t)') /\ (Safe(t) => Safe(t)')
      /\ ddir.current > 1 => ddir'.current > 1
  BY <1>1, CalmFacts
<1>4. ProcessTypeOK'
  BY <1>0, <1>2 DEF ProcessTypeOK
<1>5. CountsOK' /\ AcksBehindInstall'
  BY <1>0, <1>a, <1>2, <1>3 DEF IInv, CountsOK, AcksBehindInstall
<1>6. Opened'
  BY <1>0, <1>2, <1>3 DEF Opened
<1>7. Registering'
  BY <1>0, <1>1, <1>2, CalmRegistering DEF ProcessTypeOK
<1>8. Compacting' /\ Flushing'
  BY <1>0, <1>2, <1>3 DEF IInv, Compacting, Flushing
<1> QED
  BY <1>0, <1>2, <1>3, <1>4, <1>5, <1>6, <1>7, <1>8, OpenKeeps

LEMMA SyncLogKeeps ==
  ASSUME IInv, SyncLog
  PROVE  IInv'
<1>0. /\ ProcessTypeOK /\ DiskInv /\ CountsOK /\ Opened /\ db.st = "open"
      /\ UNCHANGED <<db, bg, comp, writes, crashes, owed, synced, torn>>
      /\ SetDisk(Sync(Disk, Log(db.log))) /\ wr.pc = "sync"
  BY DEF IInv, SyncLog
<1>1. Calm /\ ddir' = dir
  <2>1. Log(db.log) \in dir.names
    BY <1>0 DEF Opened
  <2> QED
    BY <1>0, <2>1, CalmSync
<1>2. /\ DOMAIN wr' = DOMAIN wr /\ wr'.pc = "insert" /\ wr'.sync = wr.sync
      /\ wr'.rec = wr.rec
  BY <1>0 DEF ProcessTypeOK, SyncLog
<1>3. /\ DiskInv' /\ dir'.current = dir.current
      /\ \A n \in dir.names : n \in dir'.names
      /\ \A t : (On(t) => On(t)') /\ (Safe(t) => Safe(t)')
      /\ ddir.current > 1 => ddir'.current > 1
  BY <1>1, CalmFacts
<1>4. ProcessTypeOK'
  BY <1>0, <1>2 DEF ProcessTypeOK
<1>5. CountsOK'
  BY <1>0, <1>2, <1>3 DEF CountsOK
<1>d. AcksBehindInstall'
  BY <1>0, <1>1, <1>3 DEF IInv, AcksBehindInstall, Opened
<1>6. Opened'
  BY <1>0, <1>3 DEF Opened
<1>7. Registering'
  BY <1>0, <1>1, CalmRegistering DEF ProcessTypeOK
<1>8. Compacting' /\ Flushing'
  BY <1>0, <1>3 DEF IInv, Compacting, Flushing
<1> QED
  BY <1>0, <1>3, <1>4, <1>5, <1>d, <1>6, <1>7, <1>8, OpenKeeps

LEMMA SyncLogFailsKeeps ==
  ASSUME IInv, SyncLogFails
  PROVE  IInv'
<1>0. /\ ProcessTypeOK /\ DiskInv /\ CountsOK /\ Opened /\ db.st = "open"
      /\ UNCHANGED <<dir, ddir, file, bg, comp, writes, crashes, owed, synced, torn>>
      /\ wr' = IdleWr /\ wr.pc = "sync"
  BY DEF IInv, SyncLogFails, Running
<1>1. Calm
  BY <1>0, CalmUnchanged
<1>2. /\ DOMAIN db' = DOMAIN db /\ db'.st = db.st /\ db'.mem = db.mem
      /\ db'.imm = db.imm /\ db'.log = db.log /\ db'.minlog = db.minlog
      /\ db'.next = db.next /\ db'.seq = db.seq + 1 /\ db'.manifest = db.manifest
      /\ db'.live = db.live /\ db'.todo = db.todo /\ db'.add = db.add
      /\ db'.err = TRUE /\ db'.pins = db.pins
  BY <1>0 DEF ProcessTypeOK, SyncLogFails
<1>3. /\ DiskInv' /\ dir'.current = dir.current
      /\ \A n \in dir.names : n \in dir'.names
      /\ \A t : (On(t) => On(t)') /\ (Safe(t) => Safe(t)')
      /\ ddir.current > 1 => ddir'.current > 1
  BY <1>1, CalmFacts
<1>a. DOMAIN wr' = {"pc", "sync", "rec"} /\ wr'.pc = "idle" /\ wr'.rec \in Rec
  BY <1>0 DEF IdleWr, Torn, Rec
<1>b. db'.err \in BOOLEAN
  BY <1>2, Zenon
<1>c. db'.seq \in Nat
  BY <1>0, <1>2 DEF ProcessTypeOK
<1>4. ProcessTypeOK'
  BY <1>0, <1>2, <1>a, <1>b, <1>c DEF ProcessTypeOK
<1>5. CountsOK' /\ AcksBehindInstall'
  BY <1>0, <1>2, <1>3 DEF IInv, CountsOK, AcksBehindInstall, IdleWr, ProcessTypeOK
<1>6. Opened'
  BY <1>0, <1>2, <1>3 DEF Opened
<1>7. Registering'
  BY <1>2 DEF Registering
<1>8. Compacting' /\ Flushing'
  BY <1>0, <1>2, <1>3 DEF IInv, Compacting, Flushing
<1> QED
  BY <1>0, <1>2, <1>3, <1>4, <1>5, <1>6, <1>7, <1>8, OpenKeeps

LEMMA InsertAndAcknowledgeKeeps ==
  ASSUME IInv, InsertAndAcknowledge
  PROVE  IInv'
<1>0. /\ ProcessTypeOK /\ DiskInv /\ CountsOK /\ Opened /\ db.st = "open"
      /\ UNCHANGED <<dir, ddir, file, bg, comp, writes, crashes, torn>>
      /\ wr' = IdleWr /\ wr.pc = "insert" /\ owed' = owed \union {wr.rec.id}
      /\ synced' = IF wr.sync THEN synced \union {wr.rec.id} ELSE synced
  BY DEF IInv, InsertAndAcknowledge, Running
<1>1. Calm
  BY <1>0, CalmUnchanged
<1>2. /\ DOMAIN db' = DOMAIN db /\ db'.st = db.st
      /\ db'.mem = db.mem \union {wr.rec} /\ db'.imm = db.imm /\ db'.log = db.log
      /\ db'.minlog = db.minlog /\ db'.next = db.next /\ db'.seq = wr.rec.seq
      /\ db'.manifest = db.manifest /\ db'.live = db.live /\ db'.todo = db.todo
      /\ db'.add = db.add /\ db'.err = db.err /\ db'.pins = db.pins
  BY <1>0 DEF ProcessTypeOK, InsertAndAcknowledge
<1>3. /\ DiskInv' /\ dir'.current = dir.current
      /\ \A n \in dir.names : n \in dir'.names
      /\ \A t : (On(t) => On(t)') /\ (Safe(t) => Safe(t)')
      /\ ddir.current > 1 => ddir'.current > 1
  BY <1>1, CalmFacts
<1>a. /\ wr.rec \in Rec /\ wr.rec.seq \in Nat /\ DOMAIN wr' = {"pc", "sync", "rec"}
      /\ wr'.pc = "idle" /\ wr'.rec \in Rec
  BY <1>0 DEF ProcessTypeOK, IdleWr, Torn, Rec
<1>4. ProcessTypeOK'
  BY <1>0, <1>2, <1>a DEF ProcessTypeOK
<1>5. CountsOK'
  BY <1>0, <1>2, <1>3 DEF CountsOK, IdleWr
<1>d. AcksBehindInstall'
  BY <1>0, <1>2, <1>3 DEF IInv, AcksBehindInstall, IdleWr, Opened
<1>6. Opened'
  BY <1>0, <1>2, <1>3 DEF Opened
<1>7. Registering'
  BY <1>0, <1>1, <1>2, CalmRegistering DEF ProcessTypeOK
<1>8. Compacting' /\ Flushing'
  BY <1>0, <1>2, <1>3 DEF IInv, Compacting, Flushing
<1> QED
  BY <1>0, <1>2, <1>3, <1>4, <1>5, <1>d, <1>6, <1>7, <1>8, OpenKeeps

LEMMA NewIteratorKeeps ==
  ASSUME IInv, NewIterator \/ CleanupIteratorState
  PROVE  IInv'
<1>0. /\ ProcessTypeOK /\ DiskInv /\ CountsOK /\ Opened /\ db.st = "open"
      /\ UNCHANGED <<dir, ddir, file, bg, comp, wr, writes, crashes, owed, synced, torn>>
  BY DEF IInv, NewIterator, CleanupIteratorState, Running
<1>1. Calm
  BY <1>0, CalmUnchanged
<1>2. /\ DOMAIN db' = DOMAIN db /\ db'.pins \subseteq db.live /\ db'.st = db.st
      /\ db'.mem = db.mem /\ db'.imm = db.imm /\ db'.log = db.log
      /\ db'.minlog = db.minlog /\ db'.next = db.next /\ db'.seq = db.seq
      /\ db'.manifest = db.manifest /\ db'.live = db.live /\ db'.todo = db.todo
      /\ db'.add = db.add /\ db'.err = db.err
  BY <1>0 DEF ProcessTypeOK, NewIterator, CleanupIteratorState
<1>3. /\ DiskInv' /\ dir'.current = dir.current
      /\ \A n \in dir.names : n \in dir'.names
      /\ \A t : (On(t) => On(t)') /\ (Safe(t) => Safe(t)')
      /\ ddir.current > 1 => ddir'.current > 1
  BY <1>1, CalmFacts
<1>4. ProcessTypeOK'
  BY <1>0, <1>2 DEF ProcessTypeOK
<1>5. CountsOK' /\ AcksBehindInstall'
  BY <1>0, <1>2, <1>3 DEF IInv, CountsOK, AcksBehindInstall
<1>6. Opened'
  BY <1>0, <1>2, <1>3 DEF Opened
<1>7. Registering'
  BY <1>0, <1>1, <1>2, CalmRegistering DEF ProcessTypeOK
<1>8. Compacting' /\ Flushing'
  BY <1>0, <1>2, <1>3 DEF IInv, Compacting, Flushing
<1> QED
  BY <1>0, <1>2, <1>3, <1>4, <1>5, <1>6, <1>7, <1>8, OpenKeeps


LEMMA IdleOK ==
  /\ DOMAIN IdleBg = {"pc", "out", "edit"} /\ IdleBg.pc = "idle" /\ IdleBg.out = 0
  /\ IdleBg.edit \in Edit
  /\ DOMAIN NoComp = {"pc", "in", "out"} /\ NoComp.pc = "idle" /\ NoComp.in = {}
  /\ NoComp.out = 0
  /\ DOMAIN IdleWr = {"pc", "sync", "rec"} /\ IdleWr.pc = "idle" /\ IdleWr.rec \in Rec
BY DEF IdleBg, NoComp, IdleWr, NoEdit, TornEdit, Edit, Torn, Rec

LEMMA BuildTableKeeps ==
  ASSUME IInv, BuildTable
  PROVE  IInv'
<1>0. /\ ProcessTypeOK /\ DiskInv /\ CountsOK /\ Opened /\ db.st = "open"
      /\ UNCHANGED <<comp, wr, writes, crashes, owed, synced, torn>>
      /\ bg.pc = "idle" /\ comp.pc # "done" /\ db.next < MaxNumber
  BY DEF IInv, BuildTable, Running
<1>a. db.next \in Nat /\ db.next >= 1 /\ db.next <= MaxNumber /\ MaxNumber \in Nat
      /\ db.next + 1 \in 2 .. MaxNumber + 1 /\ db.next + 1 <= MaxNumber
  BY <1>0, BoundsAssumption DEF ProcessTypeOK
<1>b. /\ DOMAIN bg' = DOMAIN bg /\ bg'.pc = "built" /\ bg'.edit = bg.edit
      /\ bg'.out = IF db.imm = {} THEN 0 ELSE db.next
  BY <1>0 DEF BuildTable, ProcessTypeOK
<1>1. Calm /\ (db.imm # {} => Table(db.next) \in dir'.names /\ Table(db.next) \in ddir'.names)
  <2>1. CASE db.imm = {}
    <3>1. UNCHANGED <<dir, ddir, file>>
      BY <2>1 DEF BuildTable
    <3> QED
      BY <1>0, <2>1, <3>1, CalmUnchanged
  <2>2. CASE db.imm # {}
    <3>1. SetDisk(Sync(Create(Disk, Table(db.next), <<db.imm>>), Table(db.next)))
      BY <2>2 DEF BuildTable
    <3>2. <<db.imm>> \in Seq(SUBSET Rec)
      BY <1>0 DEF ProcessTypeOK
    <3>3. /\ Table(db.next) \in Name /\ Table(db.next)[1] \in {"log", "table"}
          /\ FileOK(Table(db.next), [data |-> <<db.imm>>, dur |-> 0], writes)
      BY <1>a, <3>2, NewTableOK
    <3>4. DiskInv /\ UNCHANGED <<writes, torn>>
      BY <1>0
    <3> QED
      BY ONLY <3>1, <3>3, <3>4, CalmCreateSync
  <2> QED
    BY <2>1, <2>2
<1>2. /\ DOMAIN db' = DOMAIN db /\ db'.st = db.st /\ db'.mem = db.mem
      /\ db'.imm = db.imm /\ db'.log = db.log /\ db'.minlog = db.minlog
      /\ db'.next = db.next + 1 /\ db'.seq = db.seq /\ db'.manifest = db.manifest
      /\ db'.live = db.live /\ db'.todo = db.todo /\ db'.add = db.add
      /\ db'.err = db.err /\ db'.pins = db.pins
  BY <1>0 DEF ProcessTypeOK, BuildTable
<1>3. /\ DiskInv' /\ dir'.current = dir.current
      /\ \A n \in dir.names : n \in dir'.names
      /\ \A t : (On(t) => On(t)') /\ (Safe(t) => Safe(t)')
      /\ ddir.current > 1 => ddir'.current > 1
  BY <1>1, CalmFacts
<1>4. ProcessTypeOK'
  BY <1>0, <1>a, <1>b, <1>2 DEF ProcessTypeOK
<1>5. CountsOK' /\ AcksBehindInstall'
  BY <1>0, <1>2, <1>3 DEF IInv, CountsOK, AcksBehindInstall
<1>6. Opened'
  BY <1>0, <1>a, <1>2, <1>3 DEF Opened, ProcessTypeOK
<1>7. Registering'
  BY <1>0, <1>b, <1>1, <1>2, CalmRegistering DEF ProcessTypeOK
<1>8. Compacting'
  BY <1>0, <1>2, <1>3 DEF IInv, Compacting
<1>9. Flushing'
  BY <1>0, <1>b, <1>1, <1>2, <1>3 DEF IInv, Flushing, Safe
<1> QED
  BY <1>0, <1>2, <1>3, <1>4, <1>5, <1>6, <1>7, <1>8, <1>9, OpenKeeps

LEMMA OpenCompactionOutputFileKeeps ==
  ASSUME IInv, OpenCompactionOutputFile
  PROVE  IInv'
<1>0. /\ ProcessTypeOK /\ DiskInv /\ CountsOK /\ Opened /\ db.st = "open"
      /\ UNCHANGED <<bg, wr, writes, crashes, owed, synced, torn>>
      /\ bg.pc = "idle" /\ comp.pc = "idle" /\ db.next < MaxNumber
      /\ comp' = [pc |-> "open", in |-> db.live, out |-> db.next]
      /\ SetDisk(Create(Disk, Table(db.next), << >>))
  BY DEF IInv, OpenCompactionOutputFile, Running
<1>a. db.next \in Nat /\ db.next >= 1 /\ db.next <= MaxNumber /\ MaxNumber \in Nat
      /\ db.next + 1 \in 2 .. MaxNumber + 1 /\ db.next + 1 <= MaxNumber
  BY <1>0, BoundsAssumption DEF ProcessTypeOK
<1>b. db.live # {}
  <2>1. Cardinality({}) = 0
    BY FS_EmptySet
  <2>2. Cardinality(db.live) >= 2
    BY DEF OpenCompactionOutputFile
  <2> QED
    BY <2>1, <2>2
<1>1. Calm /\ Table(db.next) \in dir'.names
  <2>2. << >> \in Seq(SUBSET Rec)
    OBVIOUS
  <2>3. /\ Table(db.next) \in Name /\ Table(db.next)[1] \in {"log", "table"}
        /\ FileOK(Table(db.next), [data |-> << >>, dur |-> 0], writes)
    BY <1>a, <2>2, NewTableOK
  <2>4. /\ DiskInv /\ UNCHANGED <<writes, torn>>
        /\ SetDisk(Create(Disk, Table(db.next), << >>))
    BY <1>0
  <2> QED
    BY ONLY <2>3, <2>4, CalmCreate
<1>2. /\ DOMAIN db' = DOMAIN db /\ db'.st = db.st /\ db'.mem = db.mem
      /\ db'.imm = db.imm /\ db'.log = db.log /\ db'.minlog = db.minlog
      /\ db'.next = db.next + 1 /\ db'.seq = db.seq /\ db'.manifest = db.manifest
      /\ db'.live = db.live /\ db'.todo = db.todo /\ db'.add = db.add
      /\ db'.err = db.err /\ db'.pins = db.pins
  BY <1>0 DEF ProcessTypeOK, OpenCompactionOutputFile
<1>3. /\ DiskInv' /\ dir'.current = dir.current
      /\ \A n \in dir.names : n \in dir'.names
      /\ \A t : (On(t) => On(t)') /\ (Safe(t) => Safe(t)')
      /\ ddir.current > 1 => ddir'.current > 1
  BY <1>1, CalmFacts
<1>4. ProcessTypeOK'
  BY <1>0, <1>a, <1>2 DEF ProcessTypeOK
<1>5. CountsOK' /\ AcksBehindInstall'
  BY <1>0, <1>2, <1>3 DEF IInv, CountsOK, AcksBehindInstall
<1>6. Opened'
  BY <1>0, <1>a, <1>2, <1>3 DEF Opened, ProcessTypeOK
<1>7. Registering'
  BY <1>0, <1>1, <1>2, CalmRegistering DEF ProcessTypeOK
<1>8. Compacting'
  BY <1>0, <1>b, <1>1, <1>2 DEF Compacting, On
<1>9. Flushing'
  BY <1>0, <1>2, <1>3 DEF IInv, Flushing
<1> QED
  BY <1>0, <1>2, <1>3, <1>4, <1>5, <1>6, <1>7, <1>8, <1>9, OpenKeeps

LEMMA FinishCompactionOutputFileKeeps ==
  ASSUME IInv, FinishCompactionOutputFile
  PROVE  IInv'
<1> DEFINE recs == UNION {TableData(t) : t \in comp.in}
<1>0. /\ ProcessTypeOK /\ DiskInv /\ CountsOK /\ Opened /\ Compacting /\ db.st = "open"
      /\ UNCHANGED <<db, bg, wr, writes, crashes, owed, synced, torn>>
      /\ bg.pc = "idle" /\ comp.pc = "open"
      /\ SetDisk(Sync(AddRecord(Disk, Table(comp.out), recs), Table(comp.out)))
  BY DEF IInv, FinishCompactionOutputFile, Running
<1>a. recs \in SUBSET Rec
  <2> SUFFICES ASSUME NEW t \in comp.in, NEW i \in DOMAIN file[Table(t)].data
               PROVE  file[Table(t)].data[i] \subseteq Rec
    BY DEF TableData
  <2>1. Table(t) \in dir.names
    BY <1>0 DEF Opened, Compacting, On
  <2>2. FileOK(Table(t), file[Table(t)], writes)
    BY <1>0, <2>1, FilesAre
  <2>3. file[Table(t)].data \in Seq(SUBSET Rec)
    BY <2>2 DEF FileOK, Table
  <2>4. file[Table(t)].data[i] \in SUBSET Rec
    BY <2>3
  <2> QED
    BY <2>4
<1> HIDE DEF recs
<1>b. /\ DOMAIN comp' = DOMAIN comp /\ comp'.pc = "done" /\ comp'.in = comp.in
      /\ comp'.out = comp.out
  BY <1>0 DEF FinishCompactionOutputFile, ProcessTypeOK
<1>1. Calm /\ Table(comp.out) \in ddir'.names
  <2>1. Table(comp.out) \in dir.names /\ Table(comp.out)[1] = "table" /\ writes \in Nat
    BY <1>0, BoundsAssumption DEF Compacting, On, Table, CountsOK
  <2>2. /\ DiskInv /\ UNCHANGED <<writes, torn>>
        /\ SetDisk(Sync(AddRecord(Disk, Table(comp.out), recs), Table(comp.out)))
    BY <1>0
  <2> QED
    BY ONLY <1>a, <2>1, <2>2, CalmAddSync
<1>3. /\ DiskInv' /\ dir'.current = dir.current
      /\ \A n \in dir.names : n \in dir'.names
      /\ \A t : (On(t) => On(t)') /\ (Safe(t) => Safe(t)')
      /\ ddir.current > 1 => ddir'.current > 1
  BY <1>1, CalmFacts
<1>4. ProcessTypeOK'
  BY <1>0, <1>b DEF ProcessTypeOK
<1>5. CountsOK' /\ AcksBehindInstall'
  BY <1>0, <1>3 DEF IInv, CountsOK, AcksBehindInstall
<1>6. Opened'
  BY <1>0, <1>3 DEF Opened
<1>7. Registering'
  BY <1>0, <1>1, CalmRegistering DEF ProcessTypeOK
<1>8. Compacting'
  BY <1>0, <1>b, <1>1, <1>3 DEF Compacting, On, Safe
<1>9. Flushing'
  BY <1>0, <1>3 DEF IInv, Flushing
<1> QED
  BY <1>0, <1>3, <1>4, <1>5, <1>6, <1>7, <1>8, <1>9, OpenKeeps

\* The last edit of a manifest: the tables it leaves out or takes in.
LEMMA LiveAtLast ==
  ASSUME NEW es, NEW k \in Nat, k >= 1
  PROVE  LiveAt(es, k) \subseteq (LiveAt(es, k - 1) \ es[k].del) \union es[k].add
<1> SUFFICES ASSUME NEW t \in LiveAt(es, k), t \notin es[k].add
             PROVE  t \in LiveAt(es, k - 1) /\ t \notin es[k].del
  OBVIOUS
<1>1. PICK i \in 1 .. k : t \in es[i].add /\ \A j \in i + 1 .. k : t \notin es[j].del
  BY DEF LiveAt
<1>2. i \in 1 .. k - 1 /\ k \in i + 1 .. k
  BY <1>1
<1>3. ASSUME NEW j \in i + 1 .. k - 1
      PROVE  t \notin es[j].del
  BY <1>1
<1>4. t \in Nat
  BY DEF LiveAt
<1>5. t \in LiveAt(es, k - 1)
  BY <1>1, <1>2, <1>3, <1>4 DEF LiveAt
<1> QED
  BY <1>1, <1>2, <1>5

LEMMA SyncManifestKeeps ==
  ASSUME IInv, SyncManifest
  PROVE  IInv'
<1> DEFINE name == Manifest(db.manifest)
<1>0. /\ ProcessTypeOK /\ DiskInv /\ CountsOK /\ Opened /\ db.st = "open"
      /\ UNCHANGED <<db, comp, wr, writes, crashes, owed, synced, torn>>
      /\ bg.pc = "logged" /\ SetDisk(Sync(Disk, name))
  BY DEF IInv, SyncManifest
<1>a. name \in dir.names /\ dir.current = db.manifest /\ db.manifest > 1
  BY <1>0 DEF Opened
<1>b. /\ DOMAIN bg' = DOMAIN bg /\ bg'.pc = "synced" /\ bg'.edit = bg.edit
      /\ bg'.out = bg.out
  BY <1>0 DEF SyncManifest, ProcessTypeOK
<1> HIDE DEF name
<1>1. Calm /\ file'[name].dur = Len(file'[name].data) /\ file'[name].data = file[name].data
  BY <1>0, <1>a, CalmSync
<1>3. /\ DiskInv' /\ dir'.current = dir.current
      /\ \A n \in dir.names : n \in dir'.names
      /\ \A t : (On(t) => On(t)') /\ (Safe(t) => Safe(t)')
      /\ ddir.current > 1 => ddir'.current > 1
  BY <1>1, CalmFacts
<1>4. ProcessTypeOK'
  BY <1>0, <1>b DEF ProcessTypeOK
<1>5. CountsOK' /\ AcksBehindInstall'
  BY <1>0, <1>3 DEF IInv, CountsOK, AcksBehindInstall
<1>6. Opened'
  BY <1>0, <1>3 DEF Opened
<1>7. Registering'
  <2> SUFFICES ASSUME ~db.err
               PROVE  Registered(file[name])'
    BY <1>0 DEF Registering, name
  <2> DEFINE es == file[name].data
             N == Len(es)
  <2>1. /\ es[N] = bg.edit /\ LiveAt(es, N - 1) \subseteq db.live
    BY <1>0 DEF IInv, Registering, Registered, name
  <2>2. N \in Nat /\ N >= 1
    <3>1. file[name].dur \in 0 .. N /\ N \in Nat
      BY <1>0, <1>a, FilesAre
    <3>2. Readables(db.manifest, file[name], torn)
      BY <1>0, <1>a, FilesAre DEF DirSound, name
    <3>3. file[name].dur >= 2
      BY <1>a, <3>2 DEF Readables
    <3> QED
      BY <3>1, <3>3
  <2>3. LiveAt(es, N) \subseteq (db.live \ bg.edit.del) \union bg.edit.add
    <3> HIDE DEF es, N
    <3>1. LiveAt(es, N) \subseteq (LiveAt(es, N - 1) \ es[N].del) \union es[N].add
      BY <2>2, LiveAtLast
    <3> QED
      BY <2>1, <3>1
  <2>4. (file[name])' = file'[name]
    BY <1>0 DEF name
  <2> QED
    BY <1>0, <1>b, <1>1, <2>3, <2>4 DEF Registered
<1>8. Compacting'
  BY <1>0, <1>3 DEF IInv, Compacting
<1>9. Flushing'
  BY <1>0, <1>b, <1>3 DEF IInv, Flushing
<1> QED
  BY <1>0, <1>3, <1>4, <1>5, <1>6, <1>7, <1>8, <1>9, OpenKeeps

LEMMA InstallVersionKeeps ==
  ASSUME IInv, InstallVersion
  PROVE  IInv'
<1>0. /\ ProcessTypeOK /\ DiskInv /\ CountsOK /\ Opened /\ Compacting /\ Flushing
      /\ db.st = "open" /\ bg.pc = "synced"
      /\ UNCHANGED <<dir, ddir, file, wr, writes, crashes, owed, synced, torn>>
      /\ comp' = IF bg.edit.del = {} THEN comp ELSE NoComp
  BY DEF IInv, InstallVersion, Running
<1>a. /\ bg.edit.add \subseteq Nat /\ bg.edit.del \subseteq Nat /\ bg.edit.log \in Nat
  BY <1>0 DEF ProcessTypeOK, Edit
<1>b. /\ DOMAIN bg' = DOMAIN bg /\ bg'.pc = "gc" /\ bg'.edit = bg.edit
      /\ bg'.out = bg.out
  BY <1>0 DEF InstallVersion, ProcessTypeOK
<1>1. Calm
  BY <1>0, CalmUnchanged
<1>2. /\ DOMAIN db' = DOMAIN db /\ db'.st = db.st /\ db'.mem = db.mem
      /\ db'.log = db.log /\ db'.minlog = bg.edit.log /\ db'.next = db.next
      /\ db'.seq = db.seq /\ db'.manifest = db.manifest
      /\ db'.live = (db.live \ bg.edit.del) \union bg.edit.add /\ db'.todo = db.todo
      /\ db'.add = db.add /\ db'.err = db.err /\ db'.pins = db.pins
      /\ db'.imm \subseteq Rec
  BY <1>0 DEF ProcessTypeOK, InstallVersion
<1>3. /\ DiskInv' /\ dir'.current = dir.current
      /\ \A n \in dir.names : n \in dir'.names
      /\ \A t : (On(t) => On(t)') /\ (Safe(t) => Safe(t)')
      /\ ddir.current > 1 => ddir'.current > 1
  BY <1>1, CalmFacts
<1>4. ProcessTypeOK'
  <2>1. comp' = comp \/ comp' = NoComp
    BY <1>0
  <2>2. /\ DOMAIN comp' = {"pc", "in", "out"} /\ comp'.pc \in {"idle", "open", "done"}
        /\ comp'.in \subseteq Nat /\ comp'.out \in Nat
    BY <1>0, <2>1, IdleOK DEF ProcessTypeOK
  <2> QED
    BY <1>0, <1>a, <1>b, <1>2, <2>2 DEF ProcessTypeOK
<1>5. CountsOK' /\ AcksBehindInstall'
  BY <1>0, <1>2, <1>3 DEF IInv, CountsOK, AcksBehindInstall
<1>6. Opened'
  <2>1. \A t \in bg.edit.add : On(t)
    BY <1>0 DEF Flushing, On, Safe
  <2>2. bg.edit.log <= db.log
    BY <1>0 DEF Flushing
  <2> QED
    BY <1>0, <1>2, <1>3, <2>1, <2>2 DEF Opened
<1>7. Registering'
  <2> SUFFICES ASSUME ~db'.err
               PROVE  Registered(file[Manifest(db.manifest)])'
    BY DEF Registering
  <2>1. Registered(file[Manifest(db.manifest)])
    BY <1>0, <1>2 DEF IInv, Registering
  <2> QED
    BY <1>0, <1>b, <1>2, <2>1 DEF Registered
<1>8. Compacting'
  <2>1. CASE bg.edit.del = {}
    BY <1>0, <1>2, <1>3, <2>1 DEF Compacting
  <2>2. CASE bg.edit.del # {}
    BY <1>0, <2>2, IdleOK DEF Compacting
  <2> QED
    BY <2>1, <2>2
<1>9. Flushing'
  BY <1>b DEF Flushing
<1> QED
  BY <1>0, <1>2, <1>3, <1>4, <1>5, <1>6, <1>7, <1>8, <1>9, OpenKeeps

LEMMA CollectingEndsKeeps ==
  ASSUME IInv, CollectingEnds
  PROVE  IInv'
<1>0. /\ ProcessTypeOK /\ DiskInv /\ CountsOK /\ Opened
      /\ bg' = IdleBg /\ (db.st = "gc" \/ bg.pc = "gc")
      /\ UNCHANGED <<dir, ddir, file, comp, wr, writes, crashes, owed, synced, torn>>
  BY DEF IInv, CollectingEnds, Collecting
<1>a. db.st \in {"gc", "open"} /\ bg.pc \in {"idle", "gc"}
  BY <1>0, IdleOK DEF IInv, Resting
<1>1. Calm
  BY <1>0, CalmUnchanged
<1>2. /\ DOMAIN db' = DOMAIN db /\ db'.st = "open" /\ db'.mem = db.mem
      /\ db'.imm = db.imm /\ db'.log = db.log /\ db'.minlog = db.minlog
      /\ db'.next = db.next /\ db'.seq = db.seq /\ db'.manifest = db.manifest
      /\ db'.live = db.live /\ db'.todo = db.todo /\ db'.add = db.add
      /\ db'.err = db.err /\ db'.pins = db.pins
  BY <1>0 DEF ProcessTypeOK, CollectingEnds
<1>3. /\ DiskInv' /\ dir'.current = dir.current
      /\ \A n \in dir.names : n \in dir'.names
      /\ \A t : (On(t) => On(t)') /\ (Safe(t) => Safe(t)')
      /\ ddir.current > 1 => ddir'.current > 1
  BY <1>1, CalmFacts
<1>4. ProcessTypeOK'
  BY <1>0, <1>2, IdleOK DEF ProcessTypeOK, Stage
<1>5. CountsOK' /\ AcksBehindInstall'
  BY <1>0, <1>2, <1>3 DEF IInv, CountsOK, AcksBehindInstall
<1>6. Opened'
  BY <1>0, <1>a, <1>2, <1>3 DEF Opened
<1>7. Registering'
  BY <1>0, <1>a, <1>1, <1>2, IdleOK, CalmRegistering DEF ProcessTypeOK
<1>8. Compacting'
  BY <1>0, <1>2, <1>3 DEF IInv, Compacting
<1>9. Flushing'
  BY <1>0, IdleOK DEF Flushing
<1> QED
  BY <1>0, <1>2, <1>3, <1>4, <1>5, <1>6, <1>7, <1>8, <1>9, OpenKeeps


\* An edit that fits goes to the end of the current manifest.
LEMMA EditAppended ==
  ASSUME IInv, db.st = "open", NEW x \in Edit, x.seq <= writes,
         x.next # 0 => x.next \in db.manifest + 1 .. MaxNumber,
         \A t \in x.add : Safe(t), UNCHANGED writes, torn' = (torn \/ ManifestTorn),
         SetDisk(AddRecord(Disk, Manifest(db.manifest), x))
  PROVE  /\ DiskInv' /\ UNCHANGED <<dir, ddir>> /\ torn' \in BOOLEAN
         /\ file'[Manifest(db.manifest)].data = Append(file[Manifest(db.manifest)].data, x)
         /\ file'[Manifest(db.manifest)].dur = file[Manifest(db.manifest)].dur
<1> DEFINE name == Manifest(db.manifest)
           e == AddRecord(Disk, name, x)
<1>0. /\ DiskOK(Disk, writes) /\ DiskSound(Disk, torn) /\ torn \in BOOLEAN
      /\ DOMAIN file = dir.names \union ddir.names
      /\ writes \in Nat /\ db.manifest \in 2 .. MaxNumber /\ db.manifest = dir.current
      /\ name \in dir.names /\ name \in DOMAIN file
  BY BoundsAssumption DEF IInv, DiskInv, ProcessTypeOK, CountsOK, Opened
<1>1. torn' \in BOOLEAN /\ (torn => torn')
  BY <1>0
<1>2. torn' \/ \A i \in 1 .. Len(file[name].data) : file[name].data[i].full
  <2>1. FileOK(name, file[name], writes)
    BY <1>0, FilesAre DEF IInv
  <2>2. file[name].data \in Seq(Edit)
    BY <2>1 DEF FileOK, Manifest
  <2>3. DOMAIN file[name].data = 1 .. Len(file[name].data)
    BY <2>2
  <2> QED
    BY <2>3 DEF ManifestTorn
<1>3. \A t \in x.add : Table(t) \in dir.names /\ Table(t) \in ddir.names
  BY DEF Safe
<1> HIDE DEF name
<1>4. DiskOK(e, writes) /\ DiskSound(e, torn')
  <2>1. Disk.dir = dir /\ Disk.ddir = ddir /\ Disk.file = file
    BY DiskIs
  <2>2. name = Manifest(db.manifest)
    BY DEF name
  <2>3. x.next # 0 => x.next \in db.manifest + 1 .. MaxNumber
    OBVIOUS
  <2>4. x \in Edit /\ x.seq <= writes
    OBVIOUS
  <2> HIDE DEF e
  <2> QED
    BY ONLY <1>0, <1>1, <1>2, <1>3, <2>1, <2>2, <2>3, <2>4, AddEditKeeps DEF e
<1>5. /\ e.dir = dir /\ e.ddir = ddir
      /\ e.file[name].data = Append(file[name].data, x)
      /\ e.file[name].dur = file[name].dur
  BY <1>0, AddRecordIs, DiskIs
<1>6. SetDisk(e)
  BY DEF name
<1> HIDE DEF e
<1>7. /\ dir' = e.dir /\ ddir' = e.ddir
      /\ DOMAIN file' = dir'.names \union ddir'.names
      /\ \A n \in dir'.names \union ddir'.names : file'[n] = e.file[n]
  BY <1>6, SetDiskIs
<1>8. DiskOK(Disk', writes) /\ DiskSound(Disk', torn')
  BY <1>4, <1>6, SetDiskKeeps
<1>9. DiskInv'
  BY <1>7, <1>8 DEF DiskInv
<1> QED
  BY <1>0, <1>1, <1>5, <1>7, <1>9 DEF name

LEMMA LogAndApplyKeeps ==
  ASSUME IInv, LogAndApply
  PROVE  IInv'
<1> DEFINE name == Manifest(db.manifest)
           x == NextEdit
<1>0. /\ ProcessTypeOK /\ DiskInv /\ CountsOK /\ Opened /\ Compacting /\ Flushing
      /\ db.st = "open"
      /\ bg.pc = "built" \/ (bg.pc = "idle" /\ comp.pc = "done")
      /\ UNCHANGED <<db, comp, wr, writes, crashes, owed, synced>>
      /\ SetDisk(AddRecord(Disk, name, x)) /\ torn' = (torn \/ ManifestTorn)
      /\ bg' = [pc |-> "logged", out |-> bg.out, edit |-> x]
  BY DEF IInv, LogAndApply, Running, EditReady
<1>a. /\ x = FlushEdit \/ x = CompactionEdit
      /\ x \in Edit /\ x.seq = db.seq /\ x.next = db.next /\ x.log <= db.log
      /\ \A t \in x.add : Safe(t)
      /\ x.del # {} => x.del = comp.in /\ comp.pc = "done"
  <2>1. CASE bg.pc = "built"
    BY <1>0, <2>1 DEF NextEdit, FlushEdit, Edit, ProcessTypeOK, Flushing
  <2>2. CASE bg.pc # "built"
    BY <1>0, <2>2 DEF NextEdit, CompactionEdit, Edit, ProcessTypeOK, Compacting, Opened
  <2> QED
    BY <2>1, <2>2
<1> HIDE DEF x
<1>1. /\ DiskInv' /\ UNCHANGED <<dir, ddir>> /\ torn' \in BOOLEAN
      /\ file'[name].data = Append(file[name].data, x)
      /\ file'[name].dur = file[name].dur
  <2>1. x.seq <= writes /\ (x.next # 0 => x.next \in db.manifest + 1 .. MaxNumber)
    BY <1>0, <1>a, BoundsAssumption DEF CountsOK, Opened, ProcessTypeOK
  <2> QED
    BY <1>0, <1>a, <2>1, EditAppended
<1>4. ProcessTypeOK'
  BY <1>0, <1>a, <1>1 DEF ProcessTypeOK
<1>5. CountsOK' /\ AcksBehindInstall'
  BY <1>0, <1>1 DEF IInv, CountsOK, AcksBehindInstall
<1>6. Opened'
  BY <1>0, <1>1 DEF Opened, On
<1>7. Registering'
  <2> SUFFICES ASSUME ~db.err
               PROVE  Registered(file[name])'
    BY <1>0 DEF Registering
  <2> DEFINE es == file[name].data
             N == Len(es)
  <2>1. file[name].dur = N /\ LiveAt(es, N) \subseteq db.live
    BY <1>0 DEF IInv, Registering, Registered
  <2>2. es \in Seq(Edit) /\ N \in Nat
    <3>1. FileOK(name, file[name], writes)
      BY <1>0, FilesAre DEF Opened
    <3>2. es \in Seq(Edit)
      BY <3>1 DEF FileOK, Manifest
    <3> QED
      BY <3>2
  <2>3. LiveAt(Append(es, x), N) = LiveAt(es, N)
    <3>1. N \in 0 .. Len(es)
      BY <2>2
    <3> QED
      BY <1>a, <2>2, <3>1, LiveAtAppend
  <2>4. Len(Append(es, x)) = N + 1 /\ Append(es, x)[N + 1] = x
    BY <1>a, <2>2
  <2>5. (file[name])' = file'[name]
    BY <1>0
  <2>6. bg'.pc = "logged" /\ bg'.edit = x /\ db' = db
    BY <1>0
  <2>7. (N + 1) - 1 = N
    BY <2>2
  <2> HIDE DEF es, N, name
  <2>8. file'[name].data = Append(es, x) /\ file'[name].dur = N
    BY <1>1, <2>1 DEF es
  <2> QED
    BY <2>1, <2>2, <2>3, <2>4, <2>5, <2>6, <2>7, <2>8 DEF Registered
<1>8. Compacting'
  BY <1>0, <1>1 DEF Compacting, On, Safe
<1>9. Flushing'
  BY <1>0, <1>a, <1>1 DEF Flushing, Safe
<1> QED
  BY <1>0, <1>1, <1>4, <1>5, <1>6, <1>7, <1>8, <1>9, OpenKeeps

LEMMA ManifestFailsKeeps ==
  ASSUME IInv, ManifestFails
  PROVE  IInv'
<1>0. /\ ProcessTypeOK /\ DiskInv /\ CountsOK /\ Opened /\ Compacting /\ db.st = "open"
      /\ UNCHANGED <<wr, writes, crashes, owed, synced>> /\ bg' = IdleBg
      /\ comp' = comp \/ comp' = NoComp
  BY DEF IInv, ManifestFails, Running
<1>2. /\ DOMAIN db' = DOMAIN db /\ db'.st = db.st /\ db'.mem = db.mem
      /\ db'.imm = db.imm /\ db'.log = db.log /\ db'.minlog = db.minlog
      /\ db'.next = db.next /\ db'.seq = db.seq /\ db'.manifest = db.manifest
      /\ db'.live = db.live /\ db'.todo = db.todo /\ db'.add = db.add
      /\ db'.err = TRUE /\ db'.pins = db.pins
  BY <1>0 DEF ProcessTypeOK, ManifestFails
<1>1. DiskInv' /\ UNCHANGED <<dir, ddir>> /\ torn' \in BOOLEAN
  <2>1. CASE SetDisk(AddRecord(Disk, Manifest(db.manifest), TornEdit))
             /\ torn' = (torn \/ ManifestTorn)
    <3>1. TornEdit \in Edit /\ TornEdit.seq = 0 /\ TornEdit.next = 0 /\ TornEdit.add = {}
      BY DEF TornEdit, Edit
    <3>2. writes \in Nat
      BY <1>0, BoundsAssumption DEF CountsOK
    <3>3. TornEdit.seq <= writes
      BY <3>1, <3>2
    <3>4. /\ TornEdit.next # 0 => TornEdit.next \in db.manifest + 1 .. MaxNumber
          /\ \A t \in TornEdit.add : Safe(t)
      BY <3>1
    <3>5. TornEdit \in Edit
      BY <3>1
    <3> QED
      BY <1>0, <2>1, <3>3, <3>4, <3>5, EditAppended
  <2>2. CASE UNCHANGED <<dir, ddir, file, torn>>
    <3>1. Calm
      BY <1>0, <2>2, CalmUnchanged
    <3> QED
      BY <1>0, <2>2, <3>1, CalmFacts DEF ProcessTypeOK
  <2> QED
    BY <2>1, <2>2 DEF ManifestFails
<1>4. ProcessTypeOK'
  <2>2. /\ DOMAIN comp' = {"pc", "in", "out"} /\ comp'.pc \in {"idle", "open", "done"}
        /\ comp'.in \subseteq Nat /\ comp'.out \in Nat
    BY <1>0, IdleOK DEF ProcessTypeOK
  <2>3. /\ DOMAIN bg' = {"pc", "out", "edit"} /\ bg'.pc = "idle" /\ bg'.out = 0
        /\ bg'.edit \in Edit
    BY <1>0, IdleOK
  <2>4. torn' \in BOOLEAN /\ db'.err \in BOOLEAN
    BY <1>1, <1>2
  <2>5. wr' = wr
    BY <1>0
  <2> QED
    BY ONLY <1>0, <1>2, <2>2, <2>3, <2>4, <2>5 DEF ProcessTypeOK
<1>5. CountsOK' /\ AcksBehindInstall'
  BY <1>0, <1>1, <1>2 DEF IInv, CountsOK, AcksBehindInstall
<1>6. Opened'
  BY <1>0, <1>1, <1>2 DEF Opened, On
<1>7. Registering'
  BY <1>2 DEF Registering
<1>8. Compacting'
  <2>1. CASE comp' = comp
    BY <1>0, <1>1, <1>2, <2>1 DEF Compacting, On, Safe
  <2>2. CASE comp' = NoComp
    BY <2>2, IdleOK DEF Compacting
  <2> QED
    BY <1>0, <2>1, <2>2
<1>9. Flushing'
  BY <1>0, IdleOK DEF Flushing
<1> QED
  BY <1>0, <1>1, <1>2, <1>4, <1>5, <1>6, <1>7, <1>8, <1>9, OpenKeeps


\* DeleteObsoleteFiles removes no file that the version, an iterator, a
\* compaction or the manifest on disk still needs.
LEMMA DeleteObsoleteFileKeeps ==
  ASSUME IInv, DeleteObsoleteFile
  PROVE  IInv'
<1> DEFINE name == Manifest(db.manifest)
<1>0. /\ ProcessTypeOK /\ DiskInv /\ Opened /\ Compacting /\ Flushing
      /\ UNCHANGED <<db, bg, comp, wr, writes, crashes, owed, synced, torn>>
      /\ db.st = "gc" \/ bg.pc = "gc"
  BY DEF IInv, DeleteObsoleteFile, Collecting
<1>a. db.st \in {"gc", "open"} /\ bg.pc \in {"idle", "gc"}
  BY <1>0, IdleOK DEF IInv, Resting
<1>1. PICK nm \in Obsolete : SetDisk(DeleteFile(Disk, nm))
  BY DEF DeleteObsoleteFile
<1>2. /\ ~db.err /\ nm \in dir.names
      /\ \/ nm[1] = "log" /\ nm[2] < db.minlog
         \/ nm[1] = "manifest" /\ nm[2] < db.manifest
         \/ nm[1] = "table" /\ nm[2] \notin db.live \union db.pins \union Pending
  BY <1>1 DEF Obsolete
<1>3. /\ dir.current = db.manifest /\ name \in dir.names /\ db.manifest # 0
      /\ db.manifest \in Nat /\ db.minlog \in Nat /\ db.log \in Nat
      /\ db.minlog <= db.log
  BY <1>0, <1>a, BoundsAssumption DEF Opened, ProcessTypeOK
<1>4. nm # name /\ nm # Log(db.log)
  BY <1>2, <1>3 DEF Manifest, Log
<1>5. \A t \in db.live \union db.pins \union Pending : Table(t) # nm
  BY <1>2 DEF Table
<1> DEFINE m == file[name]
           e == DeleteFile(Disk, nm)
<1>6. m.dur = Len(m.data) /\ LiveAt(m.data, Len(m.data)) \subseteq db.live
  BY <1>a, <1>2 DEF IInv, Registering, Registered
<1> HIDE DEF name
<1>7. /\ DiskOK(e, writes) /\ DiskSound(e, torn)
      /\ e.dir.names = dir.names \ {nm} /\ e.dir.current = dir.current
      /\ e.ddir = ddir /\ e.file = file
  <2>1. DiskOK(Disk, writes) /\ DiskSound(Disk, torn)
    BY <1>0 DEF DiskInv
  <2>2. Disk.dir = dir /\ Disk.ddir = ddir /\ Disk.file = file
    BY DiskIs
  <2>3. /\ nm # Manifest(Disk.dir.current) /\ Disk.dir.current # 0
        /\ m = Disk.file[Manifest(Disk.dir.current)] /\ m.dur = Len(m.data)
    BY <1>3, <1>4, <1>6, <2>2 DEF name
  <2>4. \A t \in LiveAt(m.data, Len(m.data)) : Table(t) # nm
    BY <1>5, <1>6
  <2> HIDE DEF m
  <2> QED
    BY <2>1, <2>2, <2>3, <2>4, DeleteFileKeeps
<1>8. SetDisk(e)
  BY <1>1
<1> HIDE DEF e, m
<1>9. /\ dir' = e.dir /\ ddir' = e.ddir
      /\ DOMAIN file' = dir'.names \union ddir'.names
      /\ \A n \in dir'.names \union ddir'.names : file'[n] = e.file[n]
  BY <1>8, SetDiskIs
<1>10. DiskInv'
  <2>1. DiskOK(Disk', writes) /\ DiskSound(Disk', torn)
    BY <1>7, <1>8, SetDiskKeeps
  <2> QED
    BY <1>0, <1>9, <2>1 DEF DiskInv
<1>11. /\ dir'.current = dir.current /\ ddir' = ddir
       /\ name \in dir'.names /\ file'[name] = file[name] /\ name' = name
       /\ \A t : On(t) /\ Table(t) # nm => On(t)'
       /\ \A t : Safe(t) /\ Table(t) # nm => Safe(t)'
       /\ Log(db.log) \in dir.names => Log(db.log) \in dir'.names
  BY <1>0, <1>3, <1>4, <1>7, <1>9 DEF On, Safe, name
<1>12. ProcessTypeOK'
  BY <1>0 DEF ProcessTypeOK
<1>13. CountsOK' /\ AcksBehindInstall' /\ Resting'
  BY <1>0, <1>11 DEF IInv, CountsOK, AcksBehindInstall, Resting
<1>14. Created' /\ Recovering' /\ Installing'
  BY <1>0, <1>a DEF Created, Recovering, Installing
<1>15. Opened'
  BY <1>0, <1>a, <1>5, <1>11 DEF Opened, name
<1>16. Registering'
  <2>1. Registered(file[name])
    BY <1>a, <1>2 DEF IInv, Registering, name
  <2>2. Registered(file[name])'
    BY <1>0, <1>11, <2>1 DEF Registered
  <2> QED
    BY <2>2 DEF Registering, name
<1>17. Compacting'
  <2>1. comp.pc # "idle" => Table(comp.out) # nm
    BY <1>5 DEF Pending
  <2> QED
    BY <1>0, <1>11, <2>1 DEF Compacting
<1>18. Flushing'
  BY <1>0, <1>a DEF Flushing
<1> QED
  BY <1>10, <1>12, <1>13, <1>14, <1>15, <1>16, <1>17, <1>18 DEF IInv


-----------------------------------------------------------------------------
(* The steps of Open, and the environment's. *)

LEMMA OpeningKeeps ==
  ASSUME DiskInv', db'.st # "open", ProcessTypeOK', CountsOK', AcksBehindInstall',
         bg' = IdleBg, comp' = NoComp, wr' = IdleWr, db'.err = FALSE, db'.pins = {},
         Created', Recovering', Installing', Opened', Registering'
  PROVE  IInv'
<1>1. Compacting' /\ Flushing'
  BY IdleOK DEF Compacting, Flushing
<1>2. Resting'
  BY DEF Resting
<1> QED
  BY <1>1, <1>2 DEF IInv

LEMMA OpeningIs ==
  ASSUME IInv, db.st # "open"
  PROVE  /\ ProcessTypeOK /\ DiskInv /\ CountsOK /\ AcksBehindInstall
         /\ bg = IdleBg /\ comp = NoComp /\ wr = IdleWr /\ db.err = FALSE /\ db.pins = {}
BY DEF IInv, Resting, ProcessTypeOK

LEMMA NewDBKeeps ==
  ASSUME IInv, NewDB
  PROVE  IInv'
<1> DEFINE x == [full |-> TRUE, log |-> 0, next |-> 2, seq |-> 0, add |-> {}, del |-> {}]
           name == Manifest(1)
           e == Create(Disk, name, <<x>>)
<1>0. /\ db.st = "down" /\ dir.current = 0 /\ SetDisk(e)
      /\ UNCHANGED <<bg, comp, wr, writes, crashes, owed, synced, torn>>
  BY DEF NewDB
<1>1. /\ ProcessTypeOK /\ DiskInv /\ CountsOK /\ AcksBehindInstall
      /\ bg = IdleBg /\ comp = NoComp /\ wr = IdleWr /\ db.err = FALSE /\ db.pins = {}
  BY <1>0, OpeningIs
<1>2. /\ DOMAIN db' = DOMAIN db /\ db'.st = "newdb" /\ db'.mem = db.mem
      /\ db'.imm = db.imm /\ db'.log = db.log /\ db'.minlog = db.minlog
      /\ db'.next = db.next /\ db'.seq = db.seq /\ db'.manifest = db.manifest
      /\ db'.live = db.live /\ db'.todo = db.todo /\ db'.add = db.add
      /\ db'.err = db.err /\ db'.pins = db.pins
  BY <1>1 DEF ProcessTypeOK, NewDB
<1>3. name \in Name /\ FileOK(name, [data |-> <<x>>, dur |-> 0], writes)
  <2>1. x \in Edit /\ x.seq = 0 /\ x.next = 2
    BY DEF Edit
  <2>2. name \in Name /\ name[1] = "manifest" /\ name[2] = 1
    BY BoundsAssumption DEF Manifest, Name
  <2>3. writes \in Nat
    BY <1>1, BoundsAssumption DEF CountsOK
  <2> HIDE DEF x, name
  <2>4. <<x>> \in Seq(Edit) /\ Len(<<x>>) = 1 /\ <<x>>[1] = x
    BY <2>1
  <2> QED
    BY <2>1, <2>2, <2>3, <2>4, BoundsAssumption DEF FileOK
<1>4. name # Manifest(dir.current) /\ name # Manifest(ddir.current)
  <2>1. ddir.current <= 0 /\ ddir.current \in Nat
    BY <1>0, <1>1, FilesAre
  <2> QED
    BY <1>0, <2>1 DEF Manifest
<1> HIDE DEF name
<1>5. /\ e.dir.names = dir.names \union {name} /\ e.dir.current = dir.current
      /\ e.ddir = ddir /\ e.file[name] = [data |-> <<x>>, dur |-> 0]
  <2>1. DiskOK(Disk, writes)
    BY <1>1 DEF DiskInv
  <2> HIDE DEF x
  <2> QED
    BY <2>1, CreateIs, DiskIs
<1>6. DiskOK(e, writes) /\ DiskSound(e, torn)
  <2>1. DiskOK(Disk, writes) /\ DiskSound(Disk, torn)
    BY <1>1 DEF DiskInv
  <2> HIDE DEF x
  <2> QED
    BY <1>3, <1>4, <2>1, CreateKeeps, DiskIs
<1> HIDE DEF e
<1>7. /\ dir' = e.dir /\ ddir' = e.ddir
      /\ DOMAIN file' = dir'.names \union ddir'.names
      /\ \A n \in dir'.names \union ddir'.names : file'[n] = e.file[n]
  BY <1>0, SetDiskIs
<1>8. DiskInv'
  <2>1. DiskOK(Disk', writes) /\ DiskSound(Disk', torn)
    BY <1>0, <1>6, SetDiskKeeps
  <2> QED
    BY <1>0, <1>7, <2>1 DEF DiskInv
<1>9. ProcessTypeOK'
  BY <1>0, <1>1, <1>2 DEF ProcessTypeOK, Stage
<1>10. CountsOK' /\ AcksBehindInstall'
  BY <1>0, <1>1, <1>2, <1>5, <1>7 DEF CountsOK, AcksBehindInstall
<1>11. Created'
  <2>1. file'[name] = [data |-> <<x>>, dur |-> 0] /\ name \in dir'.names
    BY <1>5, <1>7
  <2>2. Len(<<x>>) = 1 /\ <<x>>[1] = x
    OBVIOUS
  <2>3. file'[name].data = <<x>>
    <3> HIDE DEF x
    <3> QED
      BY <2>1
  <2> QED
    BY <1>0, <1>2, <1>5, <1>7, <2>1, <2>2, <2>3 DEF Created, name
<1>12. Recovering' /\ Installing' /\ Opened' /\ Registering'
  <2>1. db.add = {}
    BY <1>0 DEF IInv, Recovering
  <2> QED
    BY <1>2, <2>1 DEF Recovering, Installing, Opened, Registering
<1> QED
  BY <1>0, <1>1, <1>2, <1>8, <1>9, <1>10, <1>11, <1>12, OpeningKeeps

LEMMA NewDBCurrentKeeps ==
  ASSUME IInv, NewDBCurrent
  PROVE  IInv'
<1> DEFINE e == SetCurrentFile(Disk, 1)
           m == file[Manifest(1)]
<1>0. /\ db.st = "newdb" /\ SetDisk(e)
      /\ UNCHANGED <<bg, comp, wr, writes, crashes, owed, synced, torn>>
  BY DEF NewDBCurrent
<1>1. /\ ProcessTypeOK /\ DiskInv /\ CountsOK /\ AcksBehindInstall
      /\ bg = IdleBg /\ comp = NoComp /\ wr = IdleWr /\ db.err = FALSE /\ db.pins = {}
  BY <1>0, OpeningIs
<1>2. /\ DOMAIN db' = DOMAIN db /\ db'.st = "recover" /\ db'.mem = db.mem
      /\ db'.imm = db.imm /\ db'.log = db.log /\ db'.minlog = db.minlog
      /\ db'.next = db.next /\ db'.seq = db.seq /\ db'.manifest = db.manifest
      /\ db'.live = db.live /\ db'.todo = db.todo /\ db'.add = db.add
      /\ db'.err = db.err /\ db'.pins = db.pins
  BY <1>1 DEF ProcessTypeOK, NewDBCurrent
<1>3. /\ dir.current = 0 /\ Manifest(1) \in dir.names
      /\ Len(m.data) = 1 /\ m.data[1].full /\ m.data[1].next # 0 /\ m.data[1].add = {}
  BY <1>0 DEF IInv, Created
<1>4. TablesThere(dir, m) /\ Readables(1, m, torn)
  <2>1. m.dur \in 0 .. 1
    BY <1>1, <1>3, FilesAre
  <2>2. \A k \in m.dur .. 1 : LiveAt(m.data, k) = {}
    BY <1>3, <2>1 DEF LiveAt
  <2> QED
    BY <1>3, <2>1, <2>2 DEF TablesThere, Readables
<1>5. /\ DiskOK(e, writes) /\ DiskSound(e, torn)
      /\ e.dir.names = dir.names /\ e.dir.current = 1 /\ e.ddir = dir /\ e.file = file
  <2>1. DiskOK(Disk, writes) /\ DiskSound(Disk, torn)
    BY <1>1 DEF DiskInv
  <2>2. 1 \in 1 .. MaxNumber
    BY BoundsAssumption
  <2> HIDE DEF m
  <2>3. Disk.dir.current <= 1 /\ Manifest(1) \in Disk.dir.names
    BY <1>3, DiskIs
  <2>4. TablesThere(Disk.dir, Disk.file[Manifest(1)])
        /\ Readables(1, Disk.file[Manifest(1)], torn)
    BY <1>4, DiskIs DEF m
  <2> QED
    BY <2>1, <2>2, <2>3, <2>4, SetCurrentFileKeeps, DiskIs
<1> HIDE DEF e
<1>7. /\ dir' = e.dir /\ ddir' = e.ddir
      /\ DOMAIN file' = dir'.names \union ddir'.names
  BY <1>0, SetDiskIs
<1>8. DiskInv'
  <2>1. DiskOK(Disk', writes) /\ DiskSound(Disk', torn)
    BY <1>0, <1>5, SetDiskKeeps
  <2> QED
    BY <1>0, <1>7, <2>1 DEF DiskInv
<1>9. ProcessTypeOK'
  BY <1>0, <1>1, <1>2 DEF ProcessTypeOK, Stage
<1>10. CountsOK' /\ AcksBehindInstall'
  <2>1. ddir.current <= 0 /\ ddir.current \in Nat
    BY <1>1, <1>3, FilesAre
  <2>2. owed = {} /\ synced = {} /\ wr.pc = "idle"
    BY <1>1, <1>3, <2>1, IdleOK DEF AcksBehindInstall, CountsOK
  <2> QED
    BY <1>0, <1>1, <1>2, <2>2 DEF CountsOK, AcksBehindInstall
<1>12. Created' /\ Recovering' /\ Installing' /\ Opened' /\ Registering'
  <2>1. db.add = {} /\ dir'.current = 1
    BY <1>0, <1>5, <1>7 DEF IInv, Recovering
  <2> QED
    BY <1>2, <2>1 DEF Created, Recovering, Installing, Opened, Registering
<1> QED
  BY <1>0, <1>1, <1>2, <1>8, <1>9, <1>10, <1>12, OpeningKeeps


LEMMA LiveOfIs ==
  ASSUME NEW es \in Seq(Edit)
  PROVE  LiveOf(es) = LiveAt(es, Len(es))
<1>1. DOMAIN es = 1 .. Len(es)
  OBVIOUS
<1>2. \A i \in 1 .. Len(es) : es[i].add \subseteq Nat
  <2>1. \A i \in 1 .. Len(es) : es[i] \in Edit
    OBVIOUS
  <2> QED
    BY <2>1 DEF Edit
<1>3. ASSUME NEW t \in LiveOf(es)
      PROVE  t \in LiveAt(es, Len(es))
  BY <1>1, <1>2 DEF LiveOf, LiveAt
<1>4. ASSUME NEW t \in LiveAt(es, Len(es))
      PROVE  t \in LiveOf(es)
  BY <1>1 DEF LiveOf, LiveAt
<1> QED
  BY <1>3, <1>4

\* A sound directory can be opened, unless CURRENT names the first manifest
\* or something was appended behind a torn edit.
LEMMA SoundOpens ==
  ASSUME NEW d, NEW w, DiskOK(d, w), DiskSound(d, FALSE), d.dir.current > 1
  PROVE  Openable(d)
<1> DEFINE name == Manifest(d.dir.current)
           m == d.file[name]
           es == m.data
<1>0. d.dir.current \in Nat /\ d.dir.current # 0
  BY BoundsAssumption DEF DiskOK, DirOK
<1>1. /\ name \in d.dir.names /\ TablesThere(d.dir, m)
      /\ Readables(d.dir.current, m, FALSE) /\ FileOK(name, m, w)
  BY <1>0 DEF DiskSound, DirSound, DiskOK
<1>2. es \in Seq(Edit) /\ m.dur \in 0 .. Len(es) /\ Len(es) \in Nat
  <2>1. es \in Seq(Edit) /\ m.dur \in 0 .. Len(es)
    BY <1>1 DEF FileOK, Manifest
  <2> QED
    BY <2>1
<1>3. /\ m.dur >= 2 /\ es[2].full /\ es[2].next # 0
      /\ \A i \in 1 .. Len(es) : ~es[i].full => i = Len(es)
  BY <1>1 DEF Readables
<1>4. DOMAIN es = 1 .. Len(es)
  BY <1>2
<1> HIDE DEF m, name
<1>5. Readable(es)
  <2>1. 2 \in Full(es)
    BY <1>2, <1>3, <1>4 DEF Full
  <2> QED
    BY <2>1, <1>3, <1>4 DEF Readable
<1>6. \A t \in LiveOf(es) : Table(t) \in d.dir.names
  <2>1. Len(es) \in m.dur .. Len(es)
    BY <1>2
  <2> QED
    BY <1>1, <1>2, <2>1, LiveOfIs DEF TablesThere
<1>7. Missing(d, LiveOf(es)) = {}
  <2>1. \A t : Table(t)[2] = t
    BY DEF Table
  <2> QED
    BY <1>6, <2>1 DEF Missing
<1> QED
  BY <1>0, <1>1, <1>5, <1>7 DEF Openable, m, name

LEMMA RecoverKeeps ==
  ASSUME IInv, Recover
  PROVE  IInv'
<1>0. /\ db.st \in {"recover", "down"}
      /\ UNCHANGED <<dir, ddir, file, bg, comp, wr, writes, crashes, owed, synced, torn>>
  BY DEF Recover
<1>1. /\ ProcessTypeOK /\ DiskInv /\ CountsOK /\ AcksBehindInstall
      /\ bg = IdleBg /\ comp = NoComp /\ wr = IdleWr /\ db.err = FALSE /\ db.pins = {}
  BY <1>0, OpeningIs
<1>2. Calm
  BY <1>0, <1>1, CalmUnchanged
<1>3. DiskInv'
  BY <1>2, CalmFacts
<1>4. dir.current # 0 /\ dir.current \in Nat /\ db.add = {}
  <2>1. dir.current \in Nat
    BY <1>1, FilesAre
  <2> QED
    BY <1>0, <2>1 DEF IInv, Recovering, Recover
<1>5. CASE ~Openable(Disk)
  <2>1. /\ DOMAIN db' = DOMAIN db /\ db'.st = "corrupt" /\ db'.mem = db.mem
        /\ db'.imm = db.imm /\ db'.log = db.log /\ db'.minlog = db.minlog
        /\ db'.next = db.next /\ db'.seq = db.seq /\ db'.manifest = db.manifest
        /\ db'.live = db.live /\ db'.todo = db.todo /\ db'.add = db.add
        /\ db'.err = db.err /\ db'.pins = db.pins
    BY <1>1, <1>5 DEF ProcessTypeOK, Recover
  <2>2. ~torn => dir.current = 1
    <3> SUFFICES ASSUME ~torn, dir.current > 1
                 PROVE  FALSE
      BY <1>4
    <3>1. DiskOK(Disk, writes) /\ DiskSound(Disk, FALSE) /\ Disk.dir.current > 1
      <4>1. torn = FALSE
        BY <1>1 DEF ProcessTypeOK
      <4> QED
        BY <1>1, <4>1, DiskIs DEF DiskInv
    <3> QED
      BY <1>5, <3>1, SoundOpens
  <2>3. ProcessTypeOK'
    BY <1>0, <1>1, <2>1 DEF ProcessTypeOK, Stage
  <2>4. CountsOK' /\ AcksBehindInstall'
    BY <1>0, <1>1, <2>1 DEF CountsOK, AcksBehindInstall
  <2>5. Created' /\ Recovering' /\ Installing' /\ Opened' /\ Registering'
    BY <1>0, <2>1, <2>2 DEF Created, Recovering, Installing, Opened, Registering
  <2> QED
    BY <1>0, <1>1, <1>3, <2>1, <2>3, <2>4, <2>5, OpeningKeeps
<1>6. CASE Openable(Disk)
  <2> DEFINE name == Manifest(dir.current)
             m == file[name]
             es == m.data
             x == es[Max(Full(es))]
  <2>1. /\ DOMAIN db' = DOMAIN db /\ db'.st = "logs" /\ db'.mem = db.mem
        /\ db'.imm = db.imm /\ db'.log = db.log /\ db'.minlog = x.log
        /\ db'.next = x.next + 1 /\ db'.seq = x.seq /\ db'.manifest = x.next
        /\ db'.live = LiveOf(es) /\ db'.todo = LogsFrom(Disk, x.log) /\ db'.add = db.add
        /\ db'.err = db.err /\ db'.pins = db.pins
    <3>1. db' = [db EXCEPT !.st = "logs", !.live = LiveOf(es),
                    !.manifest = x.next, !.next = x.next + 1, !.seq = x.seq,
                    !.minlog = x.log, !.todo = LogsFrom(Disk, x.log)]
      BY <1>6 DEF Recover
    <3> HIDE DEF x, es
    <3> QED
      BY <1>1, <3>1 DEF ProcessTypeOK
  <2>2. /\ name \in dir.names /\ TablesThere(dir, m) /\ FileOK(name, m, writes)
    BY <1>1, <1>4, FilesAre DEF DirSound
  <2>3. es \in Seq(Edit) /\ m.dur \in 0 .. Len(es)
    BY <2>2 DEF FileOK, Manifest
  <2>4. Len(es) \in Nat /\ DOMAIN es = 1 .. Len(es)
    BY <2>3
  <2>5. \A i \in 1 .. Len(es) :
          /\ es[i].seq <= writes
          /\ es[i].next # 0 => es[i].next \in dir.current + 1 .. MaxNumber
    BY <2>2 DEF FileOK, Manifest
  <2>6. Full(es) # {}
    BY <1>6, DiskIs DEF Openable, Readable
  <2> HIDE DEF m, name
  <2>7. Max(Full(es)) \in Full(es)
    <3>1. Full(es) \subseteq 1 .. Len(es)
      BY <2>4 DEF Full
    <3> HIDE DEF es
    <3> QED
      BY <2>4, <2>6, <3>1, MaxExists
  <2>8. Max(Full(es)) \in 1 .. Len(es) /\ x.next # 0
    BY <2>4, <2>7 DEF Full
  <2>9. x \in Edit
    BY <2>3, <2>8
  <2>10. x.seq <= writes /\ x.next \in dir.current + 1 .. MaxNumber
    BY <2>5, <2>8
  <2>11. x.seq \in Nat /\ x.log \in Nat
    BY <2>9 DEF Edit
  <2>12. LiveOf(es) \subseteq Nat /\ \A t \in LiveOf(es) : On(t)
    <3>1. Len(es) \in m.dur .. Len(es)
      BY <2>3, <2>4
    <3>2. LiveOf(es) = LiveAt(es, Len(es))
      BY <2>3, LiveOfIs
    <3>3. \A t \in LiveAt(es, Len(es)) : Table(t) \in dir.names
      BY <2>2, <3>1 DEF TablesThere
    <3> QED
      BY <3>2, <3>3 DEF On, LiveAt
  <2> HIDE DEF x, es
  <2>13. /\ LogsFrom(Disk, x.log) \subseteq Nat
         /\ \A n \in LogsFrom(Disk, x.log) : Log(n) \in dir.names
    <3> SUFFICES ASSUME NEW n \in LogsFrom(Disk, x.log)
                 PROVE  n \in Nat /\ Log(n) \in dir.names
      OBVIOUS
    <3>1. PICK nm \in dir.names : nm[1] = "log" /\ n = nm[2]
      BY DiskIs DEF LogsFrom
    <3>2. nm \in Name
      BY <1>1, FilesAre
    <3>3. nm = <<nm[1], nm[2]>> /\ nm[2] \in Nat
      BY <3>2, BoundsAssumption DEF Name
    <3> QED
      BY <3>1, <3>3 DEF Log
  <2>14. ProcessTypeOK'
    <3>1. /\ x.next \in 0 .. MaxNumber /\ x.next + 1 \in 2 .. MaxNumber + 1
      BY <1>4, <2>10, BoundsAssumption
    <3> QED
      BY <1>0, <1>1, <1>4, <2>1, <2>11, <2>12, <2>13, <3>1 DEF ProcessTypeOK, Stage
  <2>15. CountsOK' /\ AcksBehindInstall'
    BY <1>0, <1>1, <2>1, <2>10, IdleOK DEF CountsOK, AcksBehindInstall
  <2>16. Recovering'
    <3>1. dir.current < x.next /\ x.next < x.next + 1
      BY <1>4, <2>10, BoundsAssumption
    <3>2. \A t \in db'.live \union db'.add : On(t)'
      BY <1>0, <1>4, <2>1, <2>12 DEF On
    <3> QED
      BY <1>0, <1>4, <2>1, <2>13, <3>1, <3>2 DEF Recovering
  <2>17. Created' /\ Installing' /\ Opened' /\ Registering'
    BY <2>1 DEF Created, Installing, Opened, Registering
  <2> QED
    BY <1>0, <1>1, <1>3, <2>1, <2>14, <2>15, <2>16, <2>17, OpeningKeeps
<1> QED
  BY <1>5, <1>6


\* What a log is read back as: records of writes that were begun.
LEMMA ReadLogIs ==
  ASSUME NEW f, NEW q \in Seq(Rec), f.data = q, NEW w \in Nat,
         \A i \in 1 .. Len(q) : q[i].seq <= w
  PROVE  ReadLog(f) \subseteq Rec /\ \A r \in ReadLog(f) : r.seq \in 0 .. w
<1> DEFINE cut == {i \in DOMAIN q : q[i] = Torn}
           upto == IF cut = {} THEN Len(q) ELSE Min(cut) - 1
<1>1. Len(q) \in Nat /\ DOMAIN q = 1 .. Len(q)
  OBVIOUS
<1>2. upto \in Nat /\ upto <= Len(q)
  <2>1. CASE cut = {}
    BY <1>1, <2>1
  <2>2. CASE cut # {}
    <3>1. cut \subseteq Nat /\ cut \subseteq 1 .. Len(q)
      BY <1>1
    <3> HIDE DEF cut
    <3>2. Min(cut) \in cut
      BY <2>2, <3>1, MinExists
    <3>3. upto = Min(cut) - 1 /\ Min(cut) \in 1 .. Len(q)
      BY <2>2, <3>1, <3>2
    <3> QED
      BY ONLY <1>1, <3>3
  <2> QED
    BY <2>1, <2>2
<1>3. ReadLog(f) = {q[i] : i \in 1 .. upto}
  BY DEF ReadLog
<1> HIDE DEF upto
<1>4. ASSUME NEW i \in 1 .. upto
      PROVE  q[i] \in Rec /\ q[i].seq \in 0 .. w
  <2>1. i \in 1 .. Len(q)
    BY <1>1, <1>2
  <2>2. q[i] \in Rec /\ q[i].seq <= w
    BY <2>1
  <2> QED
    BY <2>2 DEF Rec
<1> QED
  BY <1>3, <1>4

LEMMA MaxOfIs ==
  ASSUME NEW x \in Nat, NEW y \in Nat
  PROVE  MaxOf(x, y) \in {x, y} /\ x <= MaxOf(x, y) /\ y <= MaxOf(x, y)
BY DEF MaxOf

LEMMA RecoverLogFileKeeps ==
  ASSUME IInv, RecoverLogFile
  PROVE  IInv'
<1> DEFINE n == Min(db.todo)
           recs == ReadLog(file[Log(n)])
           seqs == {r.seq : r \in recs} \union {db.seq}
<1>0. /\ db.st = "logs" /\ db.todo # {} /\ db.next < MaxNumber
      /\ UNCHANGED <<bg, comp, wr, writes, crashes, owed, synced, torn>>
  BY DEF RecoverLogFile
<1>1. /\ ProcessTypeOK /\ DiskInv /\ CountsOK /\ AcksBehindInstall
      /\ bg = IdleBg /\ comp = NoComp /\ wr = IdleWr /\ db.err = FALSE /\ db.pins = {}
  BY <1>0, OpeningIs
<1>2. /\ dir.current # 0 /\ dir.current < db.manifest /\ db.manifest < db.next
      /\ \A t \in db.live \union db.add : On(t)
      /\ \A k \in db.todo : Log(k) \in dir.names
  BY <1>0 DEF IInv, Recovering
<1>3. /\ db.next \in Nat /\ db.next >= 1 /\ db.next <= MaxNumber /\ MaxNumber \in Nat
      /\ db.manifest \in Nat /\ writes \in Nat /\ db.seq \in 0 .. writes
  BY <1>0, <1>1, BoundsAssumption DEF ProcessTypeOK, CountsOK
<1>4. n \in db.todo /\ Log(n) \in dir.names /\ n \in Nat
  <2>1. db.todo \subseteq Nat
    BY <1>1 DEF ProcessTypeOK
  <2> QED
    BY <1>0, <1>2, <2>1, MinExists
<1>5. n + 1 \in 2 .. MaxNumber /\ recs \subseteq Rec /\ \A r \in recs : r.seq \in 0 .. writes
  <2>1. FileOK(Log(n), file[Log(n)], writes) /\ Log(n) \in Name
    BY <1>1, <1>4, FilesAre
  <2>2. /\ file[Log(n)].data \in Seq(Rec) /\ n < MaxNumber
        /\ \A i \in 1 .. Len(file[Log(n)].data) : file[Log(n)].data[i].seq <= writes
    BY <2>1 DEF FileOK, Log
  <2>3. n \in 1 .. MaxNumber
    BY <2>1 DEF Log, Name
  <2> HIDE DEF n
  <2>4. recs \subseteq Rec /\ \A r \in recs : r.seq \in 0 .. writes
    BY <1>3, <2>2, ReadLogIs
  <2> QED
    BY <1>3, <2>2, <2>3, <2>4
<1> HIDE DEF n, recs
<1>6. Max(seqs) \in 0 .. writes
  <2>1. seqs \subseteq 0 .. writes /\ seqs # {}
    BY <1>3, <1>5
  <2> HIDE DEF seqs
  <2> QED
    BY <1>3, <2>1, MaxUpTo
<1>7. CASE recs = {}
  <2>1. /\ UNCHANGED <<dir, ddir, file>>
        /\ db' = [db EXCEPT !.todo = @ \ {n}, !.next = MaxOf(@, n + 1)]
    BY <1>7 DEF RecoverLogFile, n, recs
  <2>2. /\ DOMAIN db' = DOMAIN db /\ db'.st = db.st /\ db'.mem = db.mem
        /\ db'.imm = db.imm /\ db'.log = db.log /\ db'.minlog = db.minlog
        /\ db'.next = MaxOf(db.next, n + 1) /\ db'.seq = db.seq
        /\ db'.manifest = db.manifest /\ db'.live = db.live
        /\ db'.todo = db.todo \ {n} /\ db'.add = db.add
        /\ db'.err = db.err /\ db'.pins = db.pins
    BY <1>1, <2>1 DEF ProcessTypeOK
  <2>3. Calm
    BY <1>0, <1>1, <2>1, CalmUnchanged
  <2>4. DiskInv'
    BY <2>3, CalmFacts
  <2>5. db'.next \in 2 .. MaxNumber + 1 /\ db.next <= db'.next
    BY <1>1, <1>3, <1>4, <1>5, <2>2, MaxOfIs DEF ProcessTypeOK
  <2>6. ProcessTypeOK'
    BY <1>0, <1>1, <2>2, <2>5 DEF ProcessTypeOK
  <2>7. CountsOK' /\ AcksBehindInstall'
    BY <1>0, <1>1, <2>1, <2>2 DEF CountsOK, AcksBehindInstall
  <2>8. Recovering'
    BY <1>0, <1>2, <1>3, <2>1, <2>2, <2>5 DEF Recovering, On
  <2>9. Created' /\ Installing' /\ Opened' /\ Registering'
    BY <1>0, <2>2 DEF Created, Installing, Opened, Registering
  <2> QED
    BY <1>0, <1>1, <2>2, <2>4, <2>6, <2>7, <2>8, <2>9, OpeningKeeps
<1>8. CASE recs # {}
  <2> DEFINE name == Table(db.next)
  <2>1. /\ SetDisk(Sync(Create(Disk, name, <<recs>>), name))
        /\ db' = [db EXCEPT !.todo = @ \ {n}, !.add = @ \union {db.next},
                       !.next = MaxOf(@ + 1, n + 1), !.seq = Max(seqs)]
    BY <1>8 DEF RecoverLogFile, n, recs
  <2> HIDE DEF seqs
  <2>2. /\ DOMAIN db' = DOMAIN db /\ db'.st = db.st /\ db'.mem = db.mem
        /\ db'.imm = db.imm /\ db'.log = db.log /\ db'.minlog = db.minlog
        /\ db'.next = MaxOf(db.next + 1, n + 1) /\ db'.seq = Max(seqs)
        /\ db'.manifest = db.manifest /\ db'.live = db.live
        /\ db'.todo = db.todo \ {n} /\ db'.add = db.add \union {db.next}
        /\ db'.err = db.err /\ db'.pins = db.pins
    BY <1>1, <2>1 DEF ProcessTypeOK
  <2>3. Calm /\ name \in dir'.names
    <3>1. <<recs>> \in Seq(SUBSET Rec)
      BY <1>5
    <3>2. /\ name \in Name /\ name[1] \in {"log", "table"}
          /\ FileOK(name, [data |-> <<recs>>, dur |-> 0], writes)
      BY <1>3, <3>1, NewTableOK
    <3>3. DiskInv /\ UNCHANGED <<writes, torn>>
      BY <1>0, <1>1
    <3> QED
      BY ONLY <2>1, <3>2, <3>3, CalmCreateSync
  <2>4. /\ DiskInv' /\ dir'.current = dir.current
        /\ \A k \in dir.names : k \in dir'.names
        /\ \A t : On(t) => On(t)'
        /\ ddir.current > 1 => ddir'.current > 1
    BY <2>3, CalmFacts
  <2>5. db'.next \in 2 .. MaxNumber + 1 /\ db.next < db'.next
    <3>1. db.next + 1 \in 2 .. MaxNumber /\ n + 1 \in 2 .. MaxNumber
      BY <1>0, <1>3, <1>5
    <3> QED
      BY <1>3, <2>2, <3>1, MaxOfIs
  <2>6. ProcessTypeOK'
    BY <1>0, <1>1, <1>3, <1>6, <2>2, <2>5 DEF ProcessTypeOK
  <2>7. CountsOK' /\ AcksBehindInstall'
    BY <1>0, <1>1, <1>6, <2>2, <2>4, IdleOK DEF CountsOK, AcksBehindInstall
  <2>8. Recovering'
    <3>1. \A t \in db'.live \union db'.add : On(t)'
      BY <1>2, <2>2, <2>3, <2>4 DEF On
    <3> QED
      BY <1>0, <1>2, <1>3, <2>2, <2>4, <2>5, <3>1 DEF Recovering
  <2>9. Created' /\ Installing' /\ Opened' /\ Registering'
    BY <1>0, <2>2 DEF Created, Installing, Opened, Registering
  <2> QED
    BY <1>0, <1>1, <2>2, <2>4, <2>6, <2>7, <2>8, <2>9, OpeningKeeps
<1> QED
  BY <1>7, <1>8


LEMMA OpenLogKeeps ==
  ASSUME IInv, OpenLog
  PROVE  IInv'
<1> DEFINE name == Log(db.next)
<1>0. /\ db.st = "logs" /\ db.todo = {} /\ db.next < MaxNumber
      /\ UNCHANGED <<bg, comp, wr, writes, crashes, owed, synced, torn>>
      /\ SetDisk(Create(Disk, name, << >>))
  BY DEF OpenLog
<1>1. /\ ProcessTypeOK /\ DiskInv /\ CountsOK /\ AcksBehindInstall
      /\ bg = IdleBg /\ comp = NoComp /\ wr = IdleWr /\ db.err = FALSE /\ db.pins = {}
  BY <1>0, OpeningIs
<1>2. /\ dir.current # 0 /\ dir.current < db.manifest /\ db.manifest < db.next
      /\ \A t \in db.live \union db.add : On(t)
  BY <1>0 DEF IInv, Recovering
<1>3. /\ db.next \in Nat /\ db.next >= 1 /\ MaxNumber \in Nat /\ db.manifest \in Nat
      /\ db.next + 1 \in 2 .. MaxNumber + 1 /\ db.next + 1 <= MaxNumber
  BY <1>0, <1>1, BoundsAssumption DEF ProcessTypeOK
<1>4. /\ DOMAIN db' = DOMAIN db /\ db'.st = "edit" /\ db'.mem = db.mem
      /\ db'.imm = db.imm /\ db'.log = db.next /\ db'.minlog = db.minlog
      /\ db'.next = db.next + 1 /\ db'.seq = db.seq /\ db'.manifest = db.manifest
      /\ db'.live = db.live /\ db'.todo = db.todo /\ db'.add = db.add
      /\ db'.err = db.err /\ db'.pins = db.pins
  BY <1>1 DEF ProcessTypeOK, OpenLog
<1>5. Calm /\ name \in dir'.names
  <2>1. /\ name \in Name /\ name[1] \in {"log", "table"}
        /\ FileOK(name, [data |-> << >>, dur |-> 0], writes)
    BY <1>0, <1>3, NewLogOK
  <2>2. DiskInv /\ UNCHANGED <<writes, torn>> /\ SetDisk(Create(Disk, name, << >>))
    BY <1>0, <1>1
  <2> QED
    BY ONLY <2>1, <2>2, CalmCreate
<1>6. /\ DiskInv' /\ dir'.current = dir.current
      /\ \A k \in dir.names : k \in dir'.names
      /\ \A t : On(t) => On(t)'
      /\ ddir.current > 1 => ddir'.current > 1
  BY <1>5, CalmFacts
<1>7. ProcessTypeOK'
  BY <1>0, <1>1, <1>3, <1>4 DEF ProcessTypeOK, Stage
<1>8. CountsOK' /\ AcksBehindInstall'
  BY <1>0, <1>1, <1>4, <1>6 DEF CountsOK, AcksBehindInstall
<1>9. Recovering'
  BY <1>0, <1>2, <1>3, <1>4, <1>5, <1>6 DEF Recovering
<1>10. Created' /\ Installing' /\ Opened' /\ Registering'
  BY <1>4 DEF Created, Installing, Opened, Registering
<1> QED
  BY <1>0, <1>1, <1>4, <1>6, <1>7, <1>8, <1>9, <1>10, OpeningKeeps

LEMMA SnapshotIs ==
  ASSUME NEW S \in SUBSET Nat
  PROVE  /\ Snapshot(S) \in Edit /\ Snapshot(S).full /\ Snapshot(S).add = S
         /\ Snapshot(S).next = 0 /\ Snapshot(S).seq = 0
BY DEF Snapshot, Edit

LEMMA OpenManifestKeeps ==
  ASSUME IInv, OpenManifest
  PROVE  IInv'
<1> DEFINE name == Manifest(db.manifest)
           x == Snapshot(db.live)
           y == [full |-> TRUE, log |-> db.log, next |-> db.next, seq |-> db.seq,
                 add |-> db.add, del |-> {}]
           e == Create(Disk, name, <<x, y>>)
<1>0. /\ db.st = "edit" /\ SetDisk(e)
      /\ UNCHANGED <<bg, comp, wr, writes, crashes, owed, synced, torn>>
  BY DEF OpenManifest
<1>1. /\ ProcessTypeOK /\ DiskInv /\ CountsOK /\ AcksBehindInstall
      /\ bg = IdleBg /\ comp = NoComp /\ wr = IdleWr /\ db.err = FALSE /\ db.pins = {}
  BY <1>0, OpeningIs
<1>2. /\ dir.current # 0 /\ dir.current < db.manifest /\ db.manifest < db.next
      /\ \A t \in db.live \union db.add : On(t)
      /\ \A n \in db.todo : Log(n) \in dir.names
      /\ Log(db.log) \in dir.names /\ db.log < db.next /\ db.next <= MaxNumber
  BY <1>0 DEF IInv, Recovering
<1>3. /\ dir.current \in Nat /\ ddir.current \in Nat /\ ddir.current <= dir.current
      /\ db.manifest \in 1 .. MaxNumber /\ db.next \in db.manifest + 1 .. MaxNumber
      /\ MaxNumber \in Nat /\ writes \in Nat /\ db.seq <= writes
  <2>1. dir.current \in Nat /\ ddir.current \in Nat /\ ddir.current <= dir.current
    BY <1>1, FilesAre
  <2> QED
    BY <1>1, <1>2, <2>1, BoundsAssumption DEF ProcessTypeOK, CountsOK
<1>4. /\ DOMAIN db' = DOMAIN db /\ db'.st = "sync" /\ db'.mem = db.mem
      /\ db'.imm = db.imm /\ db'.log = db.log /\ db'.minlog = db.minlog
      /\ db'.next = db.next /\ db'.seq = db.seq /\ db'.manifest = db.manifest
      /\ db'.live = db.live /\ db'.todo = db.todo /\ db'.add = db.add
      /\ db'.err = db.err /\ db'.pins = db.pins
  BY <1>1 DEF ProcessTypeOK, OpenManifest
<1>5. /\ x \in Edit /\ x.full /\ x.add = db.live /\ x.next = 0 /\ x.seq = 0
  BY <1>1, SnapshotIs DEF ProcessTypeOK
<1>6. /\ y \in Edit /\ y.full /\ y.add = db.add /\ y.next = db.next /\ y.seq = db.seq
  BY <1>1 DEF ProcessTypeOK, Edit
<1> HIDE DEF x, y
<1>7. /\ <<x, y>> \in Seq(Edit) /\ Len(<<x, y>>) = 2
      /\ <<x, y>>[1] = x /\ <<x, y>>[2] = y
  BY <1>5, <1>6
<1> DEFINE c == <<x, y>>
<1> HIDE DEF c
<1>8. name \in Name /\ FileOK(name, [data |-> c, dur |-> 0], writes)
  <2>1. name \in Name /\ name[1] = "manifest" /\ name[2] = db.manifest
    BY <1>3 DEF Manifest, Name
  <2>2. c \in Seq(Edit) /\ Len(c) = 2 /\ c[1] = x /\ c[2] = y
    BY <1>7 DEF c
  <2>3. \A i \in 1 .. Len(c) :
          /\ c[i].seq <= writes
          /\ c[i].next # 0 => c[i].next \in name[2] + 1 .. MaxNumber
    BY <1>3, <1>5, <1>6, <2>1, <2>2
  <2> DEFINE f == [data |-> c, dur |-> 0]
  <2>4. DOMAIN f = {"data", "dur"} /\ f.data = c /\ f.dur \in 0 .. 2
    OBVIOUS
  <2> HIDE DEF name, f
  <2>5. FileOK(name, f, writes)
    BY <2>1, <2>2, <2>3, <2>4 DEF FileOK
  <2> QED
    BY <2>1, <2>5 DEF f
<1>9. name # Manifest(dir.current) /\ name # Manifest(ddir.current)
  BY <1>2, <1>3 DEF Manifest
<1>e. e = Create(Disk, name, c)
  BY DEF c
<1> HIDE DEF name, e
<1>10. /\ e.dir.names = dir.names \union {name} /\ e.dir.current = dir.current
       /\ e.ddir = ddir /\ e.file[name] = [data |-> c, dur |-> 0]
       /\ DiskOK(e, writes) /\ DiskSound(e, torn)
  <2>1. DiskOK(Disk, writes) /\ DiskSound(Disk, torn)
    BY <1>1 DEF DiskInv
  <2>2. /\ e.dir.names = dir.names \union {name} /\ e.dir.current = dir.current
        /\ e.ddir = ddir /\ e.file[name] = [data |-> c, dur |-> 0]
    BY <1>e, <2>1, CreateIs, DiskIs
  <2>3. DiskOK(e, writes) /\ DiskSound(e, torn)
    BY <1>e, <1>8, <1>9, <2>1, CreateKeeps, DiskIs
  <2> QED
    BY <2>2, <2>3
<1>11. /\ dir' = e.dir /\ ddir' = e.ddir
       /\ DOMAIN file' = dir'.names \union ddir'.names
       /\ \A n \in dir'.names \union ddir'.names : file'[n] = e.file[n]
  BY <1>0, SetDiskIs
<1>12. DiskInv'
  <2>1. DiskOK(Disk', writes) /\ DiskSound(Disk', torn)
    BY <1>0, <1>10, SetDiskKeeps
  <2> QED
    BY <1>0, <1>11, <2>1 DEF DiskInv
<1>13. ProcessTypeOK'
  BY <1>0, <1>1, <1>4 DEF ProcessTypeOK, Stage
<1>14. CountsOK' /\ AcksBehindInstall'
  BY <1>0, <1>1, <1>4, <1>10, <1>11 DEF CountsOK, AcksBehindInstall
<1>15. Recovering'
  BY <1>2, <1>4, <1>10, <1>11 DEF Recovering, On
<1>16. Installing'
  <2>1. file'[name] = [data |-> c, dur |-> 0] /\ name \in dir'.names /\ name' = name
    BY <1>4, <1>10, <1>11 DEF name
  <2>2. Len(c) = 2 /\ c[1] = x /\ c[2] = y
    BY <1>7 DEF c
  <2>3. file'[name].data = c
    BY <2>1
  <2>4. y.next # 0
    BY <1>3, <1>6
  <2> QED
    BY <1>4, <1>5, <1>6, <2>1, <2>2, <2>3, <2>4 DEF Installing, name
<1>17. Created' /\ Opened' /\ Registering'
  BY <1>4 DEF Created, Opened, Registering
<1> QED
  BY <1>0, <1>1, <1>4, <1>12, <1>13, <1>14, <1>15, <1>16, <1>17, OpeningKeeps


LEMMA OpenSyncKeeps ==
  ASSUME IInv, OpenSync
  PROVE  IInv'
<1> DEFINE name == Manifest(db.manifest)
<1>0. /\ db.st = "sync" /\ SetDisk(Sync(Disk, name))
      /\ UNCHANGED <<bg, comp, wr, writes, crashes, owed, synced, torn>>
  BY DEF OpenSync
<1>1. /\ ProcessTypeOK /\ DiskInv /\ CountsOK /\ AcksBehindInstall
      /\ bg = IdleBg /\ comp = NoComp /\ wr = IdleWr /\ db.err = FALSE /\ db.pins = {}
  BY <1>0, OpeningIs
<1>2. /\ name \in dir.names
      /\ Len(file[name].data) = 2 /\ file[name].data[1].add = db.live
      /\ file[name].data[2].add = db.add /\ file[name].data[1].full
      /\ file[name].data[2].full /\ file[name].data[2].next # 0
  BY <1>0 DEF IInv, Installing
<1>4. /\ DOMAIN db' = DOMAIN db /\ db'.st = "current" /\ db'.mem = db.mem
      /\ db'.imm = db.imm /\ db'.log = db.log /\ db'.minlog = db.minlog
      /\ db'.next = db.next /\ db'.seq = db.seq /\ db'.manifest = db.manifest
      /\ db'.live = db.live /\ db'.todo = db.todo /\ db'.add = db.add
      /\ db'.err = db.err /\ db'.pins = db.pins
  BY <1>1 DEF ProcessTypeOK, OpenSync
<1> HIDE DEF name
<1>5. Calm /\ dir' = dir /\ file'[name].dur = Len(file'[name].data)
      /\ file'[name].data = file[name].data
  BY <1>0, <1>1, <1>2, CalmSync
<1>6. DiskInv' /\ (ddir.current > 1 => ddir'.current > 1)
  BY <1>5, CalmFacts
<1>7. ProcessTypeOK'
  BY <1>0, <1>1, <1>4 DEF ProcessTypeOK, Stage
<1>8. CountsOK' /\ AcksBehindInstall'
  BY <1>0, <1>1, <1>4, <1>5, <1>6 DEF CountsOK, AcksBehindInstall
<1>9. Recovering'
  BY <1>0, <1>4, <1>5 DEF IInv, Recovering, On
<1>10. Installing'
  <2>1. name' = name
    BY <1>4 DEF name
  <2> QED
    BY <1>2, <1>4, <1>5, <2>1 DEF Installing, name
<1>11. Created' /\ Opened' /\ Registering'
  BY <1>4 DEF Created, Opened, Registering
<1> QED
  BY <1>0, <1>1, <1>4, <1>6, <1>7, <1>8, <1>9, <1>10, <1>11, OpeningKeeps

LEMMA OpenInstallKeeps ==
  ASSUME IInv, OpenInstall
  PROVE  IInv'
<1> DEFINE name == Manifest(db.manifest)
           m == file[name]
           e == SetCurrentFile(Disk, db.manifest)
<1>0. /\ db.st = "current" /\ SetDisk(e)
      /\ UNCHANGED <<bg, comp, wr, writes, crashes, owed, synced, torn>>
  BY DEF OpenInstall
<1>1. /\ ProcessTypeOK /\ DiskInv /\ CountsOK /\ AcksBehindInstall
      /\ bg = IdleBg /\ comp = NoComp /\ wr = IdleWr /\ db.err = FALSE /\ db.pins = {}
  BY <1>0, OpeningIs
<1>2. /\ dir.current # 0 /\ dir.current < db.manifest /\ db.manifest < db.next
      /\ \A t \in db.live \union db.add : On(t)
      /\ Log(db.log) \in dir.names /\ db.log < db.next /\ db.next <= MaxNumber
  BY <1>0 DEF IInv, Recovering
<1>3. /\ name \in dir.names /\ m.dur = 2
      /\ Len(m.data) = 2 /\ m.data[1].add = db.live
      /\ m.data[2].add = db.add /\ m.data[1].full
      /\ m.data[2].full /\ m.data[2].next # 0
  BY <1>0 DEF IInv, Installing
<1>4. /\ DOMAIN db' = DOMAIN db /\ db'.st = "gc" /\ db'.mem = db.mem
      /\ db'.imm = db.imm /\ db'.log = db.log /\ db'.minlog = db.log
      /\ db'.next = db.next /\ db'.seq = db.seq /\ db'.manifest = db.manifest
      /\ db'.live = db.live \union db.add /\ db'.todo = db.todo /\ db'.add = {}
      /\ db'.err = db.err /\ db'.pins = db.pins
  BY <1>1 DEF ProcessTypeOK, OpenInstall
<1>5. /\ dir.current \in Nat /\ db.manifest \in 1 .. MaxNumber /\ db.manifest > 1
      /\ db.log \in Nat /\ MaxNumber \in Nat
  <2>1. dir.current \in Nat
    BY <1>1, FilesAre
  <2> QED
    BY <1>1, <1>2, <2>1, BoundsAssumption DEF ProcessTypeOK
<1>6. LiveAt(m.data, 2) \subseteq db.live \union db.add
  <2> SUFFICES ASSUME NEW t \in LiveAt(m.data, 2)
               PROVE  t \in db.live \union db.add
    OBVIOUS
  <2>1. PICK i \in 1 .. 2 : t \in m.data[i].add
    BY DEF LiveAt
  <2>2. i = 1 \/ i = 2
    BY <2>1
  <2> QED
    BY <1>3, <2>1, <2>2
<1>7. TablesThere(dir, m) /\ Readables(db.manifest, m, torn)
  <2>1. \A k \in m.dur .. Len(m.data) : k = 2
    BY <1>3
  <2>2. TablesThere(dir, m)
    BY <1>2, <1>6, <2>1 DEF TablesThere, On
  <2>3. \A i \in 1 .. Len(m.data) : m.data[i].full
    <3> SUFFICES ASSUME NEW i \in 1 .. 2
                 PROVE  m.data[i].full
      BY <1>3
    <3>1. i = 1 \/ i = 2
      OBVIOUS
    <3> QED
      BY <1>3, <3>1
  <2> QED
    BY <1>3, <1>5, <2>2, <2>3 DEF Readables
<1> HIDE DEF name
<1>8. /\ DiskOK(e, writes) /\ DiskSound(e, torn)
      /\ e.dir.names = dir.names /\ e.dir.current = db.manifest
      /\ e.ddir = dir /\ e.file = file
  <2>1. DiskOK(Disk, writes) /\ DiskSound(Disk, torn)
    BY <1>1 DEF DiskInv
  <2>2. /\ Disk.dir = dir /\ Disk.ddir = ddir /\ Disk.file = file
    BY DiskIs
  <2>3. Disk.dir.current <= db.manifest /\ Manifest(db.manifest) \in Disk.dir.names
    BY <1>2, <1>3, <1>5, <2>2 DEF name
  <2>4. TablesThere(Disk.dir, Disk.file[Manifest(db.manifest)])
        /\ Readables(db.manifest, Disk.file[Manifest(db.manifest)], torn)
    BY <1>7, <2>2 DEF name
  <2> HIDE DEF m
  <2> QED
    BY <1>5, <2>1, <2>2, <2>3, <2>4, SetCurrentFileKeeps
<1> HIDE DEF e
<1>9. /\ dir' = e.dir /\ ddir' = e.ddir
      /\ DOMAIN file' = dir'.names \union ddir'.names
      /\ \A n \in dir'.names \union ddir'.names : file'[n] = e.file[n]
  BY <1>0, SetDiskIs
<1>10. DiskInv'
  <2>1. DiskOK(Disk', writes) /\ DiskSound(Disk', torn)
    BY <1>0, <1>8, SetDiskKeeps
  <2> QED
    BY <1>0, <1>9, <2>1 DEF DiskInv
<1>11. ProcessTypeOK'
  BY <1>0, <1>1, <1>4 DEF ProcessTypeOK, Stage
<1>12. CountsOK' /\ AcksBehindInstall'
  <2>1. synced # {} => ddir'.current > 1
    BY <1>1, <1>8, <1>9 DEF AcksBehindInstall, CountsOK
  <2> QED
    BY <1>0, <1>1, <1>4, <1>5, <1>8, <1>9, <2>1, IdleOK DEF CountsOK, AcksBehindInstall
<1>13. Created' /\ Recovering' /\ Installing'
  BY <1>4 DEF Created, Recovering, Installing
<1>14. Opened'
  BY <1>1, <1>2, <1>3, <1>4, <1>5, <1>8, <1>9 DEF Opened, On, name
<1>15. Registering'
  <2>1. file'[name] = m /\ name' = name
    BY <1>3, <1>4, <1>8, <1>9 DEF name
  <2>2. bg' = IdleBg
    BY <1>0, <1>1
  <2>3. Registered(file[name])'
    BY <1>3, <1>4, <1>6, <2>1, <2>2, IdleOK DEF Registered
  <2> QED
    BY <2>3 DEF Registering, name
<1> QED
  BY <1>0, <1>1, <1>4, <1>10, <1>11, <1>12, <1>13, <1>14, <1>15, OpeningKeeps

-----------------------------------------------------------------------------
(* The environment *)

LEMMA DownOK ==
  ASSUME db' = Down, bg' = IdleBg, comp' = NoComp, wr' = IdleWr, torn' \in BOOLEAN
  PROVE  /\ ProcessTypeOK' /\ db'.st = "down" /\ db'.add = {} /\ db'.seq = 0
         /\ db'.err = FALSE /\ db'.pins = {}
<1>1. 2 \in 2 .. MaxNumber + 1 /\ 0 \in 0 .. MaxNumber
  BY BoundsAssumption
<1> QED
  BY <1>1, IdleOK DEF Down, ProcessTypeOK, Stage

LEMMA ProcessEndsKeeps ==
  ASSUME IInv, ProcessEnds
  PROVE  IInv'
<1>0. /\ ProcessTypeOK /\ DiskInv /\ CountsOK /\ AcksBehindInstall
      /\ db' = Down /\ bg' = IdleBg /\ comp' = NoComp /\ wr' = IdleWr
      /\ UNCHANGED <<dir, ddir, file, writes, owed, synced, torn>>
  BY DEF IInv, ProcessEnds
<1>1. Calm
  BY <1>0, CalmUnchanged
<1>2. DiskInv'
  BY <1>1, CalmFacts
<1>3. /\ ProcessTypeOK' /\ db'.st = "down" /\ db'.add = {} /\ db'.seq = 0
      /\ db'.err = FALSE /\ db'.pins = {}
  BY <1>0, DownOK DEF ProcessTypeOK
<1>4. CountsOK' /\ AcksBehindInstall'
  <2>1. 0 <= writes
    BY <1>0, BoundsAssumption DEF CountsOK
  <2> QED
    BY <1>0, <1>3, <2>1, IdleOK DEF CountsOK, AcksBehindInstall
<1>5. Created' /\ Recovering' /\ Installing' /\ Opened' /\ Registering'
  BY <1>3 DEF Created, Recovering, Installing, Opened, Registering
<1> QED
  BY <1>0, <1>2, <1>3, <1>4, <1>5, OpeningKeeps

LEMMA MachineCrashesKeeps ==
  ASSUME IInv, MachineCrashes
  PROVE  IInv'
<1> DEFINE e == AfterCrash(Disk)
<1>0. /\ ProcessTypeOK /\ DiskInv /\ CountsOK /\ AcksBehindInstall /\ SetDisk(e)
      /\ db' = Down /\ bg' = IdleBg /\ comp' = NoComp /\ wr' = IdleWr
      /\ owed' = synced /\ UNCHANGED <<writes, synced, torn>>
  BY DEF IInv, MachineCrashes
<1>1. DiskOK(e, writes) /\ DiskSound(e, torn) /\ e.dir = ddir /\ e.ddir = ddir
  <2>1. DiskOK(Disk, writes) /\ DiskSound(Disk, torn)
    BY <1>0 DEF DiskInv
  <2> QED
    BY <2>1, AfterCrashKeeps, DiskIs
<1> HIDE DEF e
<1>2. /\ dir' = ddir /\ ddir' = ddir
      /\ DOMAIN file' = dir'.names \union ddir'.names
  BY <1>0, <1>1, SetDiskIs
<1>3. DiskInv'
  <2>1. DiskOK(Disk', writes) /\ DiskSound(Disk', torn)
    BY <1>0, <1>1, SetDiskKeeps
  <2> QED
    BY <1>0, <1>2, <2>1 DEF DiskInv
<1>4. /\ ProcessTypeOK' /\ db'.st = "down" /\ db'.add = {} /\ db'.seq = 0
      /\ db'.err = FALSE /\ db'.pins = {}
  BY <1>0, DownOK DEF ProcessTypeOK
<1>5. CountsOK' /\ AcksBehindInstall'
  <2>1. 0 <= writes
    BY <1>0, BoundsAssumption DEF CountsOK
  <2> QED
    BY <1>0, <1>2, <1>4, <2>1, IdleOK DEF CountsOK, AcksBehindInstall
<1>6. Created' /\ Recovering' /\ Installing' /\ Opened' /\ Registering'
  BY <1>4 DEF Created, Recovering, Installing, Opened, Registering
<1> QED
  BY <1>0, <1>3, <1>4, <1>5, <1>6, OpeningKeeps

LEMMA KernelKeeps ==
  ASSUME IInv, CommitDirectory \/ WriteBack
  PROVE  IInv'
<1>0. /\ UNCHANGED <<db, bg, comp, wr, writes, crashes, owed, synced, torn>>
      /\ DiskInv
  BY DEF IInv, CommitDirectory, WriteBack
<1>1. CASE CommitDirectory
  <2>1. SetDisk([Disk EXCEPT !.ddir = dir])
    BY <1>1 DEF CommitDirectory
  <2>2. Calm
    BY <1>0, <2>1, CalmCommit
  <2> QED
    BY <1>0, <2>2, CalmKeeps
<1>2. CASE WriteBack
  <2>1. PICK n \in dir.names : SetDisk([Disk EXCEPT !.file[n].dur = Len(file[n].data)])
    BY <1>2 DEF WriteBack
  <2>2. Calm
    BY <1>0, <2>1, CalmWriteBack
  <2> QED
    BY <1>0, <2>2, CalmKeeps
<1> QED
  BY <1>1, <1>2


-----------------------------------------------------------------------------
(* The invariant holds, and what follows from it. *)

LEMMA InitHolds ==
  ASSUME Init
  PROVE  IInv
<1>1. /\ dir.names = {} /\ dir.current = 0 /\ ddir = dir
      /\ DOMAIN dir = {"names", "current"} /\ DOMAIN file = {}
      /\ writes = 0 /\ owed = {} /\ synced = {} /\ torn = FALSE
      /\ db = Down /\ bg = IdleBg /\ comp = NoComp /\ wr = IdleWr
  <2>1. file = << >>
    BY DEF Init
  <2>2. DOMAIN file = {}
    BY <2>1
  <2> QED
    BY <2>2 DEF Init
<1>2. DiskInv
  <2>1. DirOK(dir) /\ DirOK(ddir)
    BY <1>1, BoundsAssumption DEF DirOK
  <2>2. DiskOK(Disk, writes)
    BY <1>1, <2>1, DiskIs, BoundsAssumption DEF DiskOK
  <2>3. DiskSound(Disk, torn)
    BY <1>1, DiskIs DEF DiskSound, DirSound
  <2> QED
    BY <1>1, <2>2, <2>3 DEF DiskInv
<1>3. /\ ProcessTypeOK /\ db.st = "down" /\ db.add = {} /\ db.seq = 0
      /\ db.err = FALSE /\ db.pins = {}
  <2>1. 2 \in 2 .. MaxNumber + 1 /\ 0 \in 0 .. MaxNumber
    BY BoundsAssumption
  <2>2. db = Down /\ bg = IdleBg /\ comp = NoComp /\ wr = IdleWr /\ torn \in BOOLEAN
    BY <1>1
  <2> QED
    BY ONLY <2>1, <2>2, IdleOK DEF Down, ProcessTypeOK, Stage
<1>4. CountsOK /\ AcksBehindInstall
  BY <1>1, <1>3, IdleOK, BoundsAssumption DEF CountsOK, AcksBehindInstall
<1>5. Resting /\ Compacting /\ Flushing
  BY <1>1, <1>3, IdleOK DEF Resting, Compacting, Flushing
<1>6. Created /\ Recovering /\ Installing /\ Opened /\ Registering
  BY <1>3 DEF Created, Recovering, Installing, Opened, Registering
<1> QED
  BY <1>2, <1>3, <1>4, <1>5, <1>6 DEF IInv

LEMMA StutterKeeps ==
  ASSUME IInv, UNCHANGED vars
  PROVE  IInv'
<1>1. UNCHANGED <<dir, ddir, file, db, bg, comp, wr, writes, owed, synced, torn>>
  BY DEF vars
<1>2. Calm
  BY <1>1, CalmUnchanged DEF IInv
<1> QED
  BY <1>1, <1>2, CalmKeeps

LEMMA NextKeeps ==
  ASSUME IInv, [Next]_vars
  PROVE  IInv'
<1>1. CASE \/ NewDB \/ NewDBCurrent \/ Recover \/ RecoverLogFile \/ OpenLog
           \/ OpenManifest \/ OpenSync \/ OpenInstall
  BY <1>1, NewDBKeeps, NewDBCurrentKeeps, RecoverKeeps, RecoverLogFileKeeps,
     OpenLogKeeps, OpenManifestKeeps, OpenSyncKeeps, OpenInstallKeeps
<1>2. CASE DeleteObsoleteFile \/ CollectingEnds \/ SwitchMemTable
  BY <1>2, DeleteObsoleteFileKeeps, CollectingEndsKeeps, SwitchMemTableKeeps
<1>3. CASE \/ (\E sync \in BOOLEAN : LogWrite(sync)) \/ LogWriteFails
           \/ SyncLog \/ SyncLogFails \/ InsertAndAcknowledge
  BY <1>3, LogWriteKeeps, LogWriteFailsKeeps, SyncLogKeeps, SyncLogFailsKeeps,
     InsertAndAcknowledgeKeeps
<1>4. CASE BuildTable \/ OpenCompactionOutputFile \/ FinishCompactionOutputFile
  BY <1>4, BuildTableKeeps, OpenCompactionOutputFileKeeps,
     FinishCompactionOutputFileKeeps
<1>5. CASE LogAndApply \/ SyncManifest \/ InstallVersion \/ ManifestFails
  BY <1>5, LogAndApplyKeeps, SyncManifestKeeps, InstallVersionKeeps, ManifestFailsKeeps
<1>6. CASE NewIterator \/ CleanupIteratorState
  BY <1>6, NewIteratorKeeps
<1>7. CASE CommitDirectory \/ WriteBack \/ ProcessEnds \/ MachineCrashes
  BY <1>7, KernelKeeps, ProcessEndsKeeps, MachineCrashesKeeps
<1>8. CASE UNCHANGED vars
  BY <1>8, StutterKeeps
<1> QED
  BY <1>1, <1>2, <1>3, <1>4, <1>5, <1>6, <1>7, <1>8 DEF Next

LEMMA InvariantHolds == Spec => []IInv
<1>1. Init => IInv
  BY InitHolds
<1>2. IInv /\ [Next]_vars => IInv'
  BY NextKeeps
<1> QED
  BY <1>1, <1>2, PTL DEF Spec

\* The files keep their types, and DeleteObsoleteFiles never takes a file
\* that the version, an iterator, a compaction or the manifest needs.
THEOREM NeededFilesAreKept == Spec => []FilesSound
<1>1. ASSUME IInv
      PROVE  FilesSound
  <2>1. /\ DiskInv /\ ProcessTypeOK /\ CountsOK /\ Opened /\ Compacting
    BY <1>1 DEF IInv
  <2>2. \A n \in DOMAIN file :
          n \in Name /\ file[n].dur \in 0 .. Len(file[n].data)
    BY <2>1, FilesAre DEF DiskInv
  <2>3. \A n \in Name : n[1] \in {"log", "table", "manifest"} /\ n[2] \in 1 .. MaxNumber
    BY DEF Name
  <2>4. db.seq \in 0 .. MaxWrites /\ owed \subseteq 1 .. MaxWrites /\ synced \subseteq owed
    BY <2>1, BoundsAssumption DEF ProcessTypeOK, CountsOK
  <2>5. StoreTypeOK
    BY <2>1, <2>2, <2>3, <2>4 DEF StoreTypeOK, DiskInv, ProcessTypeOK
  <2>6. NeededFilesStay
    <3> SUFFICES ASSUME db.st \in {"gc", "open"}
                 PROVE  /\ \A t \in db.live \union db.pins \union comp.in \union Pending :
                             Table(t) \in dir.names
                        /\ Log(db.log) \in dir.names /\ Manifest(db.manifest) \in dir.names
      BY DEF NeededFilesStay
    <3>1. /\ Log(db.log) \in dir.names /\ Manifest(db.manifest) \in dir.names
          /\ \A t \in db.live \union db.pins : Table(t) \in dir.names
      BY <2>1 DEF Opened, On
    <3>2. comp.in \subseteq db.live
      BY <2>1, IdleOK DEF Compacting
    <3>3. \A t \in Pending : Table(t) \in dir.names
      BY <2>1 DEF Compacting, On, Pending
    <3> QED
      BY <3>1, <3>2, <3>3
  <2> QED
    BY <2>5, <2>6 DEF FilesSound
<1> QED
  BY <1>1, InvariantHolds, PTL

\* Recovery refuses a directory only before its second manifest was installed
\* (NewDB does not sync the first), and then no acknowledged write is lost
\* with it, unless a torn record was appended behind.
THEOREM OnlyNewDatabasesFail == Spec => []CorruptOnlyWhenNew
<1>1. ASSUME IInv
      PROVE  CorruptOnlyWhenNew
  BY <1>1 DEF IInv, Recovering, AcksBehindInstall, CorruptOnlyWhenNew
<1> QED
  BY <1>1, InvariantHolds, PTL

(* What a restart finds at any moment: the directory as it is after the    *)
(* process ended, and the one that a machine crash leaves.                 *)
Restartable ==
  ~torn => /\ dir.current > 1 \/ owed # {} => Openable(Disk)
           /\ ddir.current > 1 \/ synced # {} => Openable(AfterCrash(Disk))

\* Whenever the process or the machine stops, a database that acknowledged a
\* write (for the machine: a synced one) can be opened again.
THEOREM AcknowledgedReopens == Spec => []Restartable
<1>1. ASSUME IInv
      PROVE  Restartable
  <2> SUFFICES ASSUME ~torn
               PROVE  /\ dir.current > 1 \/ owed # {} => Openable(Disk)
                      /\ ddir.current > 1 \/ synced # {} => Openable(AfterCrash(Disk))
    BY DEF Restartable
  <2>1. torn = FALSE
    BY <1>1 DEF IInv, ProcessTypeOK
  <2>2. DiskOK(Disk, writes) /\ DiskSound(Disk, FALSE)
    BY <1>1, <2>1 DEF IInv, DiskInv
  <2>3. (owed # {} => dir.current > 1) /\ (synced # {} => ddir.current > 1)
    BY <1>1 DEF IInv, AcksBehindInstall
  <2>4. dir.current > 1 => Openable(Disk)
    BY <2>2, SoundOpens, DiskIs
  <2>5. ddir.current > 1 => Openable(AfterCrash(Disk))
    <3>1. /\ DiskOK(AfterCrash(Disk), writes) /\ DiskSound(AfterCrash(Disk), FALSE)
          /\ AfterCrash(Disk).dir = ddir
      BY <2>2, AfterCrashKeeps, DiskIs
    <3> QED
      BY <3>1, SoundOpens
  <2> QED
    BY <2>3, <2>4, <2>5
<1> QED
  BY <1>1, InvariantHolds, PTL
=============================================================================

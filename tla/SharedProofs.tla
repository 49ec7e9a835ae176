---------------------------- MODULE SharedProofs ----------------------------
(***************************************************************************)
(* Proofs about the structures that threads of a process share, for every  *)
(* set of threads, files and keys and every limit: the lock of a database  *)
(* directory, the limits on open files and the queue of writers.           *)
(***************************************************************************)
EXTENDS MCShared, FiniteSetTheorems, MaxLemma

\* A set all of whose elements are equal has at most one.
LEMMA AtMostOne ==
  ASSUME NEW S, \A x, y \in S : x = y
  PROVE  Cardinality(S) <= 1
<1>1. CASE S = {}
  BY <1>1, FS_EmptySet
<1>2. CASE S # {}
  <2>1. PICK x \in S : TRUE
    BY <1>2
  <2>2. S = {x}
    BY <2>1
  <2> QED
    BY <2>2, FS_Singleton
<1> QED
  BY <1>1, <1>2

\* The cardinality that an instance of a module counts with is this one.
LEMMA SameCardinality ==
  \A S : Threads!Cardinality(S) = Cardinality(S)
BY DEF Threads!Cardinality, Cardinality

-----------------------------------------------------------------------------
(* The lock of the database directory (FileLocks).                         *)

LockStep == {"idle", "opened", "refused", "inserted", "held", "failed", "remove",
             "unlocked", "removed"}

Inside == {"inserted", "held", "failed", "remove", "unlocked"}

\* Processes of one thread each: a thread past Insert has its process in the
\* table, and one that holds the lock has the record lock of the kernel.
ProcessesInv ==
  part = "processes" =>
    /\ lockPc \in [LockThread -> LockStep]
    /\ locks \subseteq LockThread /\ kernel \in LockThread \union {NoLock}
    /\ \A t \in LockThread : lockPc[t] \in Inside => t \in locks
    /\ \A t \in LockThread : lockPc[t] = "held" => kernel = t

\* Threads of one process: one thread at a time is past Insert.
ThreadsInv ==
  part = "threads" =>
    /\ lockPc \in [LockThread -> LockStep]
    /\ locks \subseteq {OneProcess} /\ kernel \in {OneProcess, NoLock}
    /\ \A t \in LockThread : lockPc[t] \in Inside => OneProcess \in locks
    /\ \A t, u \in LockThread : lockPc[t] \in Inside /\ lockPc[u] \in Inside => t = u

LEMMA ProcessesInit == Init => ProcessesInv
BY DEF Init, Start, Threads!Init, ProcessesInv, LockStep, Inside

LEMMA ThreadsInit == Init => ThreadsInv
BY DEF Init, Start, Threads!Init, ThreadsInv, LockStep, Inside

LEMMA ProcessesNext == ProcessesInv /\ [Next]_vars => ProcessesInv'
<1> SUFFICES ASSUME ProcessesInv, [Next]_vars, part' = "processes"
             PROVE  ProcessesInv'
  BY DEF ProcessesInv
<1>0. UNCHANGED lockVars \/ Processes!Next
  <2>1. part' = part
    BY DEF Next, vars
  <2> QED
    BY <2>1 DEF Next, vars, lockVars
<1>a. part = "processes" /\ part' = "processes"
  BY DEF Next, vars
<1> USE DEF ProcessesInv, LockStep, Inside
<1>1. CASE UNCHANGED lockVars
  BY <1>a, <1>1 DEF lockVars
<1>2. ASSUME NEW t \in LockThread, Processes!Step(t)
      PROVE  ProcessesInv'
  <2> USE <1>a, LocksAssumption DEF Processes!Go, Processes!CloseFd
  <2>1. CASE Processes!LockFile(t)
    BY <2>1 DEF Processes!LockFile
  <2>2. CASE Processes!Insert(t)
    BY <2>2 DEF Processes!Insert
  <2>3. CASE Processes!Refused(t)
    BY <2>3 DEF Processes!Refused
  <2>4. CASE Processes!Lock(t)
    BY <2>4 DEF Processes!Lock
  <2>5. CASE Processes!FailedClose(t)
    BY <2>5 DEF Processes!FailedClose
  <2>6. CASE Processes!FailedRemove(t)
    BY <2>6 DEF Processes!FailedRemove
  <2>7. CASE Processes!UnlockFile(t)
    BY <2>7 DEF Processes!UnlockFile
  <2>8. CASE Processes!UnlockRemove(t)
    BY <2>8 DEF Processes!UnlockRemove
  <2>9. CASE Processes!UnlockClose(t)
    BY <2>9 DEF Processes!UnlockClose
  <2> QED
    BY <1>2, <2>1, <2>2, <2>3, <2>4, <2>5, <2>6, <2>7, <2>8, <2>9 DEF Processes!Step
<1>3. ASSUME NEW p \in LockThread, Processes!Exit(p)
      PROVE  ProcessesInv'
  BY <1>a, <1>3, LocksAssumption DEF Processes!Exit, Processes!CloseFd
<1> QED
  BY <1>0, <1>1, <1>2, <1>3 DEF Processes!Next

LEMMA ThreadsNext == ThreadsInv /\ [Next]_vars => ThreadsInv'
<1> SUFFICES ASSUME ThreadsInv, [Next]_vars, part' = "threads"
             PROVE  ThreadsInv'
  BY DEF ThreadsInv
<1>0. UNCHANGED lockVars \/ Threads!Next
  <2>1. part' = part
    BY DEF Next, vars
  <2> QED
    BY <2>1 DEF Next, vars, lockVars
<1>a. part = "threads" /\ part' = "threads" /\ OneProcess \in LockThread
  BY LocksAssumption DEF Next, vars, OneProcess
<1> USE DEF ThreadsInv, LockStep, Inside
<1>1. CASE UNCHANGED lockVars
  BY <1>a, <1>1 DEF lockVars
<1>2. ASSUME NEW t \in LockThread, Threads!Step(t)
      PROVE  ThreadsInv'
  <2> USE <1>a, LocksAssumption DEF Threads!Go, Threads!CloseFd
  <2>1. CASE Threads!LockFile(t)
    BY <2>1 DEF Threads!LockFile
  <2>2. CASE Threads!Insert(t)
    BY <2>2 DEF Threads!Insert
  <2>3. CASE Threads!Refused(t)
    BY <2>3 DEF Threads!Refused
  <2>4. CASE Threads!Lock(t)
    BY <2>4 DEF Threads!Lock
  <2>5. CASE Threads!FailedClose(t)
    BY <2>5 DEF Threads!FailedClose
  <2>6. CASE Threads!FailedRemove(t)
    BY <2>6 DEF Threads!FailedRemove
  <2>7. CASE Threads!UnlockFile(t)
    BY <2>7 DEF Threads!UnlockFile
  <2>8. CASE Threads!UnlockRemove(t)
    BY <2>8 DEF Threads!UnlockRemove
  <2>9. CASE Threads!UnlockClose(t)
    BY <2>9 DEF Threads!UnlockClose
  <2> QED
    BY <1>2, <2>1, <2>2, <2>3, <2>4, <2>5, <2>6, <2>7, <2>8, <2>9 DEF Threads!Step
<1>3. ASSUME NEW p \in {OneProcess}, Threads!Exit(p)
      PROVE  ThreadsInv'
  BY <1>a, <1>3, LocksAssumption DEF Threads!Exit, Threads!CloseFd
<1> QED
  BY <1>0, <1>1, <1>2, <1>3 DEF Threads!Next

\* However many threads open and close one database, in one process or in a
\* process each, at most one holds it at any moment, and the record lock of a
\* process that holds it is still there (PosixEnv::LockFile, UnlockFile).
THEOREM OneHolder == Spec => []LocksSound
<1>1. ProcessesInv /\ ThreadsInv => LocksSound
  <2> SUFFICES ASSUME ProcessesInv, ThreadsInv
               PROVE  LocksSound
    OBVIOUS
  <2>0. OneProcess \in LockThread
    BY LocksAssumption DEF OneProcess
  <2>1. CASE part = "processes"
    <3>1. \A t, u \in Threads!Owners : t = u
      BY <2>1 DEF ProcessesInv, Threads!Owners
    <3>2. Threads!Exclusive
      <4>1. Cardinality(Threads!Owners) <= 1
        BY ONLY <3>1, AtMostOne
      <4> QED
        BY ONLY <4>1, SameCardinality DEF Threads!Exclusive
    <3>3. Processes!LocksTypeOK /\ Processes!HeldIsLocked
      BY <2>1 DEF ProcessesInv, LockStep, Inside, Processes!LocksTypeOK,
                  Processes!HeldIsLocked, Processes!Owners
    <3> QED
      BY <2>1, <3>2, <3>3 DEF LocksSound
  <2>2. CASE part = "threads"
    <3>1. \A t, u \in Threads!Owners : t = u
      BY <2>2 DEF ThreadsInv, Threads!Owners, Inside
    <3>2. Threads!Exclusive
      <4>1. Cardinality(Threads!Owners) <= 1
        BY ONLY <3>1, AtMostOne
      <4> QED
        BY ONLY <4>1, SameCardinality DEF Threads!Exclusive
    <3>3. Threads!LocksTypeOK
      BY <2>0, <2>2 DEF ThreadsInv, LockStep, Inside, Threads!LocksTypeOK
    <3> QED
      BY <2>2, <3>2, <3>3 DEF LocksSound
  <2> QED
    BY <2>1, <2>2 DEF LocksSound
<1> QED
  BY <1>1, ProcessesInit, ThreadsInit, ProcessesNext, ThreadsNext, PTL DEF Spec

-----------------------------------------------------------------------------
(* The limits on open files (FileLimits).                                  *)

Is(a, b) == IF a = b THEN 1 ELSE 0
IsIn(x, S) == IF x \in S THEN 1 ELSE 0

\* Two subsets of a finite set that agree but for one element.
LEMMA CountOne ==
  ASSUME NEW D, IsFiniteSet(D), NEW S, NEW T, S \subseteq D, T \subseteq D,
         NEW x \in D, \A y \in D : y # x => (y \in S <=> y \in T)
  PROVE  /\ Cardinality(S) \in Nat /\ Cardinality(T) \in Nat
         /\ Cardinality(T) = Cardinality(S) + IsIn(x, T) - IsIn(x, S)
<1>1. IsFiniteSet(S) /\ IsFiniteSet(T)
  BY FS_Subset
<1>2. Cardinality(S) \in Nat /\ Cardinality(T) \in Nat
  BY <1>1, FS_CardinalityType
<1>3. CASE x \in S /\ x \notin T
  <2>1. T = S \ {x}
    BY <1>3
  <2>2. Cardinality(T) = Cardinality(S) - 1
    BY <1>1, <1>3, <2>1, FS_RemoveElement
  <2> QED
    BY <1>2, <1>3, <2>2 DEF IsIn
<1>4. CASE x \notin S /\ x \in T
  <2>1. T = S \union {x}
    BY <1>4
  <2>2. Cardinality(T) = Cardinality(S) + 1
    BY <1>1, <1>4, <2>1, FS_AddElement
  <2> QED
    BY <1>2, <1>4, <2>2 DEF IsIn
<1>5. CASE x \in S <=> x \in T
  <2>1. T = S
    BY <1>5
  <2> QED
    BY <1>2, <1>5, <2>1 DEF IsIn
<1> QED
  BY <1>3, <1>4, <1>5

Opening == {"look_mmap", "take_mmap", "map", "look_fd", "take_fd", "keep_fd", "use_temp"}
FileStep == Opening \union {"idle", "reading"}
FileKind == {"closed", "opening", "mmap", "fd", "temp"}
Places == [mmap : Nat, fd : Nat]

OpenAs(kinds, k) == {f \in TableFile : kinds[f] = k}
ThreadsAt(pcs, step) == {t \in FileThread : pcs[t].at = step}
Busy(pcs) == {t \in FileThread : pcs[t].at # "idle"}

FilesTyped ==
  /\ allowed \in Places
  /\ kind \in [TableFile -> FileKind]
  /\ filePc = [t \in FileThread |-> filePc[t]]
  /\ \A t \in FileThread :
       /\ filePc[t].at \in FileStep
       /\ filePc[t].at # "idle" => filePc[t].file \in TableFile
  /\ maps \in Int /\ fds \in Int

\* A file is opened by one thread at a time.
OpenedByOne ==
  /\ \A t \in FileThread : filePc[t].at \in Opening => kind[filePc[t].file] = "opening"
  /\ \A t, u \in FileThread :
       filePc[t].at \in Opening /\ filePc[u].at \in Opening /\ filePc[t].file = filePc[u].file
         => t = u

PlacesCounted ==
  /\ allowed.mmap + Cardinality(OpenAs(kind, "mmap")) + Cardinality(ThreadsAt(filePc, "map")) = MmapLimit
  /\ allowed.fd + Cardinality(OpenAs(kind, "fd")) + Cardinality(ThreadsAt(filePc, "keep_fd")) = FdLimit
  /\ maps = Cardinality(OpenAs(kind, "mmap"))
  /\ fds = Cardinality(OpenAs(kind, "fd")) + Cardinality(Busy(filePc))

LimitsInv == FilesTyped /\ OpenedByOne /\ PlacesCounted

\* A step of thread t that opens, keeps or closes no file but f.
StepOf(t, f) ==
  /\ kind' \in [TableFile -> FileKind]
  /\ filePc' = [u \in FileThread |-> filePc'[u]]
  /\ \A u \in FileThread : u # t => filePc'[u] = filePc[u]
  /\ \A g \in TableFile : g # f => kind'[g] = kind[g]
  /\ filePc'[t].at \in FileStep
  /\ filePc'[t].at # "idle" => filePc'[t].file \in TableFile
  /\ filePc'[t].at \in Opening => filePc'[t].file = f /\ kind'[f] = "opening"

\* The file is nobody else's, or is not touched.
Owned(t, f) ==
  \/ \A u \in FileThread \ {t} : filePc[u].at \in Opening => filePc[u].file # f
  \/ kind'[f] = kind[f] /\ filePc'[t].at \notin Opening

\* What the step takes from the limits it gives to a file or a thread.
Booked(t, f) ==
  /\ allowed' \in Places /\ maps' \in Int /\ fds' \in Int
  /\ allowed'.mmap + Is(kind'[f], "mmap") + Is(filePc'[t].at, "map")
       = allowed.mmap + Is(kind[f], "mmap") + Is(filePc[t].at, "map")
  /\ allowed'.fd + Is(kind'[f], "fd") + Is(filePc'[t].at, "keep_fd")
       = allowed.fd + Is(kind[f], "fd") + Is(filePc[t].at, "keep_fd")
  /\ maps' = maps + Is(kind'[f], "mmap") - Is(kind[f], "mmap")
  /\ fds' = fds + Is(kind'[f], "fd") - Is(kind[f], "fd")
                - Is(filePc'[t].at, "idle") + Is(filePc[t].at, "idle")

LEMMA StepCounts ==
  ASSUME NEW t \in FileThread, NEW f \in TableFile, StepOf(t, f)
  PROVE  /\ \A s : /\ Cardinality(ThreadsAt(filePc, s)) \in Nat
                   /\ Cardinality(ThreadsAt(filePc', s)) = Cardinality(ThreadsAt(filePc, s))
                        + Is(filePc'[t].at, s) - Is(filePc[t].at, s)
         /\ \A k : /\ Cardinality(OpenAs(kind, k)) \in Nat
                   /\ Cardinality(OpenAs(kind', k)) = Cardinality(OpenAs(kind, k))
                        + Is(kind'[f], k) - Is(kind[f], k)
         /\ Cardinality(Busy(filePc)) \in Nat
         /\ Cardinality(Busy(filePc')) = Cardinality(Busy(filePc))
              - Is(filePc'[t].at, "idle") + Is(filePc[t].at, "idle")
<1>0. /\ \A u \in FileThread : u # t => filePc'[u] = filePc[u]
      /\ \A g \in TableFile : g # f => kind'[g] = kind[g]
      /\ IsFiniteSet(FileThread) /\ IsFiniteSet(TableFile)
  BY LimitsAssumption DEF StepOf
<1>1. ASSUME NEW s
      PROVE  /\ Cardinality(ThreadsAt(filePc, s)) \in Nat
             /\ Cardinality(ThreadsAt(filePc', s)) = Cardinality(ThreadsAt(filePc, s))
                  + Is(filePc'[t].at, s) - Is(filePc[t].at, s)
  <2> DEFINE S == {u \in FileThread : filePc[u].at = s}
             T == {u \in FileThread : filePc'[u].at = s}
  <2>1. /\ S \subseteq FileThread /\ T \subseteq FileThread
        /\ \A u \in FileThread : u # t => (u \in S <=> u \in T)
        /\ (t \in S) = (filePc[t].at = s) /\ (t \in T) = (filePc'[t].at = s)
    BY <1>0
  <2>2. ThreadsAt(filePc, s) = S /\ ThreadsAt(filePc', s) = T
    BY DEF ThreadsAt
  <2> HIDE DEF S, T
  <2>3. /\ Cardinality(S) \in Nat
        /\ Cardinality(T) = Cardinality(S) + IsIn(t, T) - IsIn(t, S)
    BY <1>0, <2>1, CountOne
  <2> QED
    BY <2>1, <2>2, <2>3 DEF Is, IsIn
<1>2. ASSUME NEW k
      PROVE  /\ Cardinality(OpenAs(kind, k)) \in Nat
             /\ Cardinality(OpenAs(kind', k)) = Cardinality(OpenAs(kind, k))
                  + Is(kind'[f], k) - Is(kind[f], k)
  <2> DEFINE S == {g \in TableFile : kind[g] = k}
             T == {g \in TableFile : kind'[g] = k}
  <2>1. /\ S \subseteq TableFile /\ T \subseteq TableFile
        /\ \A g \in TableFile : g # f => (g \in S <=> g \in T)
        /\ (f \in S) = (kind[f] = k) /\ (f \in T) = (kind'[f] = k)
    BY <1>0
  <2>2. OpenAs(kind, k) = S /\ OpenAs(kind', k) = T
    BY DEF OpenAs
  <2> HIDE DEF S, T
  <2>3. /\ Cardinality(S) \in Nat
        /\ Cardinality(T) = Cardinality(S) + IsIn(f, T) - IsIn(f, S)
    BY <1>0, <2>1, CountOne
  <2> QED
    BY <2>1, <2>2, <2>3 DEF Is, IsIn
<1>3. /\ Cardinality(Busy(filePc)) \in Nat
      /\ Cardinality(Busy(filePc')) = Cardinality(Busy(filePc))
           - Is(filePc'[t].at, "idle") + Is(filePc[t].at, "idle")
  <2> DEFINE S == {u \in FileThread : filePc[u].at # "idle"}
             T == {u \in FileThread : filePc'[u].at # "idle"}
  <2>1. /\ S \subseteq FileThread /\ T \subseteq FileThread
        /\ \A u \in FileThread : u # t => (u \in S <=> u \in T)
        /\ (t \in S) = (filePc[t].at # "idle") /\ (t \in T) = (filePc'[t].at # "idle")
    BY <1>0
  <2>2. Busy(filePc) = S /\ Busy(filePc') = T
    BY DEF Busy
  <2> HIDE DEF S, T
  <2>3. /\ Cardinality(S) \in Nat
        /\ Cardinality(T) = Cardinality(S) + IsIn(t, T) - IsIn(t, S)
    BY <1>0, <2>1, CountOne
  <2> QED
    BY <2>1, <2>2, <2>3 DEF Is, IsIn
<1> QED
  BY <1>1, <1>2, <1>3

LEMMA StepKeeps ==
  ASSUME LimitsInv, NEW t \in FileThread, NEW f \in TableFile,
         StepOf(t, f), Owned(t, f), Booked(t, f)
  PROVE  LimitsInv'
<1>1. FilesTyped'
  BY DEF LimitsInv, FilesTyped, StepOf, Booked
<1>2. OpenedByOne'
  <2>1. FilesTyped /\ OpenedByOne
    BY DEF LimitsInv
  <2>2. ASSUME NEW u \in FileThread, filePc'[u].at \in Opening
        PROVE  /\ kind'[filePc'[u].file] = "opening"
               /\ u # t => filePc[u] = filePc'[u] /\ filePc[u].file \in TableFile
                           /\ (filePc'[t].at \in Opening => filePc[u].file # f)
    <3>1. CASE u = t
      BY <2>2, <3>1 DEF StepOf
    <3>2. CASE u # t
      <4>1. filePc[u] = filePc'[u] /\ filePc[u].file \in TableFile /\ kind[filePc[u].file] = "opening"
        <5>1. filePc[u] = filePc'[u]
          BY <3>2 DEF StepOf
        <5>2. filePc[u].at # "idle"
          BY <2>2, <5>1 DEF Opening
        <5> QED
          BY <2>1, <2>2, <5>1, <5>2 DEF FilesTyped, OpenedByOne
      <4>2. CASE filePc[u].file # f
        BY <3>2, <4>1, <4>2 DEF StepOf
      <4>3. CASE filePc[u].file = f
        BY <2>2, <3>2, <4>1, <4>3 DEF Owned
      <4> QED
        BY <4>2, <4>3
    <3> QED
      BY <3>1, <3>2
  <2>3. ASSUME NEW u \in FileThread, NEW v \in FileThread, filePc'[u].at \in Opening,
               filePc'[v].at \in Opening, filePc'[u].file = filePc'[v].file
        PROVE  u = v
    <3>1. filePc'[t].at \in Opening => filePc'[t].file = f
      BY DEF StepOf
    <3> QED
      BY <2>1, <2>2, <2>3, <3>1 DEF OpenedByOne
  <2> QED
    BY <2>2, <2>3 DEF OpenedByOne
<1>3. PlacesCounted'
  <2> DEFINE threads(step) == Cardinality(ThreadsAt(filePc, step))
             threads1(step) == Cardinality(ThreadsAt(filePc', step))
             files(k) == Cardinality(OpenAs(kind, k))
             files1(k) == Cardinality(OpenAs(kind', k))
             a(k) == Is(kind[f], k)
             a1(k) == Is(kind'[f], k)
             b(step) == Is(filePc[t].at, step)
             b1(step) == Is(filePc'[t].at, step)
             busy == Cardinality(Busy(filePc))
             busy1 == Cardinality(Busy(filePc'))
             free(l) == allowed[l]
             free1(l) == allowed'[l]
  <2>1. /\ \A s : threads(s) \in Nat /\ threads1(s) = threads(s) + b1(s) - b(s)
        /\ \A k : files(k) \in Nat /\ files1(k) = files(k) + a1(k) - a(k)
        /\ busy \in Nat /\ busy1 = busy - b1("idle") + b("idle")
    BY StepCounts
  <2>2. /\ \A k : a(k) \in Int /\ a1(k) \in Int
        /\ \A s : b(s) \in Int /\ b1(s) \in Int
    BY DEF Is
  <2>3. /\ free("mmap") \in Int /\ free("fd") \in Int
        /\ free1("mmap") \in Int /\ free1("fd") \in Int
    <3>1. allowed \in Places /\ allowed' \in Places
      BY DEF Booked, LimitsInv, FilesTyped
    <3> QED
      BY <3>1 DEF Places
  <2>4. MmapLimit \in Int /\ FdLimit \in Int
    BY LimitsAssumption
  <2>5. /\ free1("mmap") + a1("mmap") + b1("map") = free("mmap") + a("mmap") + b("map")
        /\ free1("fd") + a1("fd") + b1("keep_fd") = free("fd") + a("fd") + b("keep_fd")
        /\ maps' = maps + a1("mmap") - a("mmap")
        /\ fds' = fds + a1("fd") - a("fd") - b1("idle") + b("idle")
    BY DEF Booked
  <2>6. /\ free("mmap") + files("mmap") + threads("map") = MmapLimit
        /\ free("fd") + files("fd") + threads("keep_fd") = FdLimit
        /\ maps = files("mmap") /\ fds = files("fd") + busy
    BY DEF LimitsInv, PlacesCounted
  <2> HIDE DEF threads, threads1, files, files1, a, a1, b, b1, busy, busy1, free, free1
  <2>7. /\ free1("mmap") + files1("mmap") + threads1("map") = MmapLimit
        /\ free1("fd") + files1("fd") + threads1("keep_fd") = FdLimit
    <3>1. free1("mmap") + files1("mmap") + threads1("map") = MmapLimit
      <4>1. threads("map") \in Nat /\ threads1("map") = threads("map") + b1("map") - b("map")
        BY ONLY <2>1
      <4>2. files("mmap") \in Nat /\ files1("mmap") = files("mmap") + a1("mmap") - a("mmap")
        BY ONLY <2>1
      <4>3. a("mmap") \in Int /\ a1("mmap") \in Int /\ b("map") \in Int /\ b1("map") \in Int
        BY ONLY <2>2
      <4>4. free1("mmap") + a1("mmap") + b1("map") = free("mmap") + a("mmap") + b("map")
        BY ONLY <2>5
      <4>5. free("mmap") + files("mmap") + threads("map") = MmapLimit
        BY ONLY <2>6
      <4> QED
        <5>1. free("mmap") \in Int /\ free1("mmap") \in Int
          BY ONLY <2>3
        <5>2. free1("mmap") = free("mmap") + a("mmap") + b("map") - a1("mmap") - b1("map")
          BY ONLY <4>3, <4>4, <5>1
        <5>3. files1("mmap") + threads1("map") = files("mmap") + threads("map")
                + a1("mmap") + b1("map") - a("mmap") - b("map")
          BY ONLY <4>1, <4>2, <4>3
        <5> QED
          BY ONLY <4>1, <4>2, <4>3, <4>5, <5>1, <5>2, <5>3
    <3>2. free1("fd") + files1("fd") + threads1("keep_fd") = FdLimit
      <4>1. /\ threads("keep_fd") \in Nat
            /\ threads1("keep_fd") = threads("keep_fd") + b1("keep_fd") - b("keep_fd")
        BY ONLY <2>1
      <4>2. files("fd") \in Nat /\ files1("fd") = files("fd") + a1("fd") - a("fd")
        BY ONLY <2>1
      <4>3. a("fd") \in Int /\ a1("fd") \in Int /\ b("keep_fd") \in Int /\ b1("keep_fd") \in Int
        BY ONLY <2>2
      <4>4. free1("fd") + a1("fd") + b1("keep_fd") = free("fd") + a("fd") + b("keep_fd")
        BY ONLY <2>5
      <4>5. free("fd") + files("fd") + threads("keep_fd") = FdLimit
        BY ONLY <2>6
      <4> QED
        <5>1. free("fd") \in Int /\ free1("fd") \in Int
          BY ONLY <2>3
        <5>2. free1("fd") = free("fd") + a("fd") + b("keep_fd") - a1("fd") - b1("keep_fd")
          BY ONLY <4>3, <4>4, <5>1
        <5>3. files1("fd") + threads1("keep_fd") = files("fd") + threads("keep_fd")
                + a1("fd") + b1("keep_fd") - a("fd") - b("keep_fd")
          BY ONLY <4>1, <4>2, <4>3
        <5> QED
          BY ONLY <4>1, <4>2, <4>3, <4>5, <5>1, <5>2, <5>3
    <3> QED
      BY ONLY <3>1, <3>2
  <2>8. maps' = files1("mmap") /\ fds' = files1("fd") + busy1
    BY ONLY <2>1, <2>2, <2>5, <2>6
  <2> QED
    BY ONLY <2>7, <2>8 DEF PlacesCounted, threads1, files1, busy1, free1
<1> QED
  BY <1>1, <1>2, <1>3 DEF LimitsInv

LEMMA LimitsInit == Limits!Init => LimitsInv
<1> SUFFICES ASSUME Limits!Init PROVE LimitsInv
  OBVIOUS
<1>1. /\ allowed = [mmap |-> MmapLimit, fd |-> FdLimit]
      /\ filePc = [t \in FileThread |-> Limits!Idle]
      /\ kind = [f \in TableFile |-> "closed"] /\ fds = 0 /\ maps = 0
  BY DEF Limits!Init
<1>2. FilesTyped
  BY <1>1, LimitsAssumption DEF FilesTyped, Limits!Idle, FileStep, FileKind, Places
<1>3. OpenedByOne
  BY <1>1 DEF OpenedByOne, Limits!Idle, Opening
<1>4. PlacesCounted
  <2>1. /\ OpenAs(kind, "mmap") = {} /\ OpenAs(kind, "fd") = {} /\ Busy(filePc) = {}
        /\ ThreadsAt(filePc, "map") = {} /\ ThreadsAt(filePc, "keep_fd") = {}
    BY <1>1 DEF OpenAs, Busy, ThreadsAt, Limits!Idle
  <2> QED
    BY <1>1, <2>1, LimitsAssumption, FS_EmptySet DEF PlacesCounted
<1> QED
  BY <1>2, <1>3, <1>4 DEF LimitsInv

\* Every step of a thread keeps the accounts.
LEMMA LimitsStep ==
  ASSUME LimitsInv, NEW t \in FileThread,
         \/ \E f \in TableFile : \/ Limits!NewRandomAccessFile(t, f) \/ Limits!ReadOpen(t, f)
                                 \/ Limits!Close(t, f)
         \/ \E limit \in {"mmap", "fd"} : Limits!Look(t, limit) \/ Limits!Take(t, limit)
         \/ Limits!Map(t) \/ Limits!KeepFd(t) \/ Limits!UseTemp(t) \/ Limits!ReadClose(t)
  PROVE  LimitsInv'
<1> USE DEF Limits!At, Limits!Goto, Limits!Done, Limits!Idle, Places
<1>1. /\ FilesTyped /\ OpenedByOne
      /\ allowed \in [mmap : Nat, fd : Nat] /\ kind \in [TableFile -> FileKind]
      /\ filePc = [u \in FileThread |-> filePc[u]]
      /\ filePc[t].at \in FileStep
      /\ filePc[t].at # "idle" => filePc[t].file \in TableFile
      /\ maps \in Int /\ fds \in Int
  BY DEF LimitsInv, FilesTyped
<1>2. filePc[t].at \in Opening =>
        /\ filePc[t].file \in TableFile /\ kind[filePc[t].file] = "opening"
        /\ \A u \in FileThread \ {t} :
             filePc[u].at \in Opening => filePc[u].file # filePc[t].file
  BY <1>1 DEF OpenedByOne, FilesTyped, Opening
<1>3. ASSUME NEW f \in TableFile, Limits!NewRandomAccessFile(t, f)
      PROVE  LimitsInv'
  <2> USE DEF Limits!NewRandomAccessFile
  <2>1. StepOf(t, f)
    BY <1>1, <1>3 DEF StepOf, FileStep, FileKind, Opening
  <2>2. Owned(t, f)
    BY <1>1, <1>3 DEF Owned, OpenedByOne
  <2>3. Booked(t, f)
    BY <1>1, <1>3 DEF Booked, Is
  <2> QED
    BY <2>1, <2>2, <2>3, StepKeeps
<1>4. ASSUME NEW limit \in {"mmap", "fd"}, Limits!Look(t, limit) \/ Limits!Take(t, limit)
      PROVE  LimitsInv'
  <2> DEFINE f == filePc[t].file
             s == filePc'[t].at
  <2> USE DEF Limits!Look, Limits!Take, Limits!Looks, Limits!Takes, Limits!After, Limits!Refused
  <2>1. /\ filePc' = [filePc EXCEPT ![t] = [at |-> s, file |-> f]] /\ UNCHANGED kind
        /\ s \in Opening
    BY <1>1, <1>4 DEF Opening
  <2>2. filePc[t].at \in {"look_mmap", "take_mmap", "look_fd", "take_fd"}
    BY <1>4
  <2>3. f \in TableFile
    BY <1>2, <2>2 DEF Opening
  <2>4. StepOf(t, f)
    BY <1>1, <1>2, <2>1, <2>2, <2>3 DEF StepOf, FileStep, Opening
  <2>5. Owned(t, f)
    BY <1>2, <2>2 DEF Owned, Opening
  <2>6. Booked(t, f)
    <3>1. CASE limit = "mmap"
      BY <1>1, <1>4, <2>1, <2>2, <3>1 DEF Booked, Is, Opening
    <3>2. CASE limit = "fd"
      BY <1>1, <1>4, <2>1, <2>2, <3>2 DEF Booked, Is, Opening
    <3> QED
      BY <3>1, <3>2
  <2> QED
    BY <2>3, <2>4, <2>5, <2>6, StepKeeps
<1>5. ASSUME Limits!Map(t) \/ Limits!KeepFd(t) \/ Limits!UseTemp(t)
      PROVE  LimitsInv'
  <2> DEFINE f == filePc[t].file
  <2> USE DEF Limits!Map, Limits!KeepFd, Limits!UseTemp
  <2>1. filePc[t].at \in Opening
    BY <1>5 DEF Opening
  <2>2. f \in TableFile /\ kind[f] = "opening"
    BY <1>2, <2>1
  <2>3. filePc' = [filePc EXCEPT ![t] = [at |-> "idle"]]
    BY <1>5
  <2>4. \E k \in {"mmap", "closed", "fd", "temp"} : kind' = [kind EXCEPT ![f] = k]
    BY <1>5
  <2>5. StepOf(t, f)
    BY <1>1, <2>2, <2>3, <2>4 DEF StepOf, FileStep, FileKind, Opening
  <2>6. Owned(t, f)
    BY <1>2, <2>1 DEF Owned
  <2>7. Booked(t, f)
    <3>1. CASE Limits!Map(t)
      BY <1>1, <2>2, <2>3, <3>1 DEF Booked, Is
    <3>2. CASE Limits!KeepFd(t) \/ Limits!UseTemp(t)
      BY <1>1, <2>2, <2>3, <3>2 DEF Booked, Is
    <3> QED
      BY <1>5, <3>1, <3>2
  <2> QED
    BY <2>2, <2>5, <2>6, <2>7, StepKeeps
<1>6. ASSUME NEW f \in TableFile, Limits!ReadOpen(t, f)
      PROVE  LimitsInv'
  <2> USE DEF Limits!ReadOpen
  <2>1. StepOf(t, f)
    BY <1>1, <1>6 DEF StepOf, FileStep, Opening
  <2>2. Owned(t, f)
    BY <1>1, <1>6 DEF Owned, Opening
  <2>3. Booked(t, f)
    BY <1>1, <1>6 DEF Booked, Is
  <2> QED
    BY <2>1, <2>2, <2>3, StepKeeps
<1>7. ASSUME Limits!ReadClose(t)
      PROVE  LimitsInv'
  <2> DEFINE f == filePc[t].file
  <2> USE DEF Limits!ReadClose
  <2>1. f \in TableFile
    BY <1>1, <1>7
  <2>2. StepOf(t, f)
    BY <1>1, <1>7, <2>1 DEF StepOf, FileStep, Opening
  <2>3. Owned(t, f)
    BY <1>1, <1>7 DEF Owned, Opening
  <2>4. Booked(t, f)
    BY <1>1, <1>7 DEF Booked, Is
  <2> QED
    BY <2>1, <2>2, <2>3, <2>4, StepKeeps
<1>8. ASSUME NEW f \in TableFile, Limits!Close(t, f)
      PROVE  LimitsInv'
  <2> USE DEF Limits!Close
  <2>1. StepOf(t, f)
    BY <1>1, <1>8 DEF StepOf, FileKind, Opening
  <2>2. Owned(t, f)
    BY <1>1, <1>8 DEF Owned, OpenedByOne
  <2>3. Booked(t, f)
    BY <1>1, <1>8 DEF Booked, Is
  <2> QED
    BY <2>1, <2>2, <2>3, StepKeeps
<1> QED
  BY <1>3, <1>4, <1>5, <1>6, <1>7, <1>8

LEMMA LimitsNext ==
  (part = "limits" => LimitsInv) /\ [Next]_vars => (part = "limits" => LimitsInv)'
<1> SUFFICES ASSUME part = "limits" => LimitsInv, [Next]_vars, part' = "limits"
             PROVE  LimitsInv'
  OBVIOUS
<1>1. CASE UNCHANGED <<part, fileVars>>
  BY <1>1 DEF fileVars, LimitsInv, FilesTyped, OpenedByOne, PlacesCounted
<1>2. CASE part = "limits" /\ Limits!Next
  <2>1. PICK t \in FileThread :
          \/ \E f \in TableFile :
               Limits!NewRandomAccessFile(t, f) \/ Limits!ReadOpen(t, f) \/ Limits!Close(t, f)
          \/ \E limit \in {"mmap", "fd"} : Limits!Look(t, limit) \/ Limits!Take(t, limit)
          \/ Limits!Map(t) \/ Limits!KeepFd(t) \/ Limits!UseTemp(t) \/ Limits!ReadClose(t)
    BY <1>2 DEF Limits!Next
  <2> QED
    BY <1>2, <2>1, LimitsStep
<1> QED
  BY <1>1, <1>2 DEF Next, vars

\* At every moment the places for mappings and descriptors that are left, in
\* use or with a thread on its way from Acquire to the file add up to the
\* limit, and the mappings and descriptors of the process stay within the
\* limits and one descriptor for each thread, however many threads and files
\* there are and whatever the limits.
THEOREM LimitsHold == Spec => []LimitsSound
<1>1. LimitsInv => Limits!Balanced /\ Limits!Bounded
  <2> SUFFICES ASSUME LimitsInv PROVE Limits!Balanced /\ Limits!Bounded
    OBVIOUS
  <2>1. \A S : Limits!Cardinality(S) = Cardinality(S)
    BY DEF Limits!Cardinality, Cardinality
  <2>2. /\ Limits!Files("mmap") = Cardinality(OpenAs(kind, "mmap"))
        /\ Limits!Files("fd") = Cardinality(OpenAs(kind, "fd"))
        /\ Limits!Between("map") = Cardinality(ThreadsAt(filePc, "map"))
        /\ Limits!Between("keep_fd") = Cardinality(ThreadsAt(filePc, "keep_fd"))
    BY <2>1 DEF Limits!Files, Limits!Between, Limits!At, OpenAs, ThreadsAt
  <2>3. /\ IsFiniteSet(OpenAs(kind, "mmap")) /\ IsFiniteSet(OpenAs(kind, "fd"))
        /\ IsFiniteSet(ThreadsAt(filePc, "map")) /\ IsFiniteSet(ThreadsAt(filePc, "keep_fd"))
        /\ IsFiniteSet(Busy(filePc))
    BY FS_Subset, LimitsAssumption DEF OpenAs, ThreadsAt, Busy
  <2>4. /\ Cardinality(OpenAs(kind, "mmap")) \in Nat /\ Cardinality(OpenAs(kind, "fd")) \in Nat
        /\ Cardinality(ThreadsAt(filePc, "map")) \in Nat
        /\ Cardinality(ThreadsAt(filePc, "keep_fd")) \in Nat
        /\ Cardinality(Busy(filePc)) \in Nat /\ Cardinality(FileThread) \in Nat
    BY <2>3, FS_CardinalityType, LimitsAssumption
  <2>5. Cardinality(Busy(filePc)) <= Cardinality(FileThread)
    BY FS_Subset, LimitsAssumption DEF Busy
  <2>6. allowed.mmap \in Nat /\ allowed.fd \in Nat
    BY DEF LimitsInv, FilesTyped, Places
  <2>7. Limits!Balanced
    BY <2>2, <2>6 DEF LimitsInv, PlacesCounted, Limits!Balanced
  <2>8. Limits!Bounded
    BY <2>1, <2>4, <2>5, <2>6, LimitsAssumption DEF LimitsInv, PlacesCounted, Limits!Bounded
  <2> QED
    BY <2>7, <2>8
<1>2. Init => (part = "limits" => LimitsInv)
  BY LimitsInit DEF Init, Start
<1> DEFINE Inv == part = "limits" => LimitsInv
<1>3. Inv /\ [Next]_vars => Inv'
  BY LimitsNext
<1>4. Inv => LimitsSound
  BY <1>1 DEF LimitsSound
<1> HIDE DEF Inv
<1>5. Init => Inv
  BY <1>2 DEF Inv
<1> QED
  BY <1>3, <1>4, <1>5, PTL DEF Spec

-----------------------------------------------------------------------------
(* The write queue (WriteQueue).                                           *)

CallStep == {"start", "queue", "room", "nap", "log", "imm", "man", "done"}
Leading == {"room", "nap", "log"}
Batch(t) == Call[t] \in {"write", "sync"}
InQueue(t) == \E i \in 1 .. Len(queue) : queue[i] = t
ImmSet == IF imm = << >> THEN {} ELSE imm[1]
Answered == {t \in Caller : status[t] # "none"}
ArrivedBefore(s, t, u) ==
  \E a, b \in 1 .. Len(s) : a < b /\ s[a] = t /\ s[b] = u

CallsTyped ==
  /\ pc \in [Caller -> CallStep] /\ asleep \in [Caller -> BOOLEAN]
  /\ status \in [Caller -> {"none", "ok", "error"}]
  /\ queue \in Seq(Caller) /\ last \in 0 .. Len(queue)
  /\ came \in Seq(Caller)

BackgroundTyped ==
  /\ left \in [Caller -> 0 .. Pieces] /\ mdone \in [Caller -> BOOLEAN]
  /\ manual \in Caller \union {NoCaller} /\ err \in BOOLEAN
  /\ bg \in {"none", "queued", "flush", "manual", "auto", "crashed"}
  /\ sched = (bg # "none")

\* A call is in writers_ until it has an answer; its head leads.
QueueOrder ==
  /\ \A i, j \in 1 .. Len(queue) : queue[i] = queue[j] => i = j
  /\ \A t \in Caller :
       /\ InQueue(t) <=> pc[t] \in Leading \/ (pc[t] = "queue" /\ status[t] = "none")
       /\ pc[t] \in Leading => Len(queue) > 0 /\ queue[1] = t
       /\ status[t] # "none" => pc[t] \notin Leading \union {"start"}
       /\ pc[t] = "log" =>
            /\ last > 0 /\ Batch(t)
            /\ \A i \in 1 .. last : Call[queue[i]] = "sync" => Call[t] = "sync"

\* A manual compaction that the background thread works on has pieces left,
\* unless its call gave up after an error.
ManualKept ==
  /\ manual # NoCaller => ~mdone[manual]
  /\ bg = "manual" => IF manual = NoCaller THEN err ELSE left[manual] > 0

\* A write is in one of the memtables or stored exactly if it was answered ok.
Applied ==
  /\ mem \subseteq Caller /\ stored \subseteq Caller
  /\ imm = << >> \/ \E S \in SUBSET Caller : imm = <<S>>
  /\ mem \cap stored = {} /\ mem \cap ImmSet = {} /\ ImmSet \cap stored = {}
  /\ \A t \in Caller :
       IF t \in mem \union stored \union ImmSet
       THEN Batch(t) /\ status[t] = "ok"
       ELSE Batch(t) => status[t] # "ok"

Counted ==
  /\ seq \in Nat /\ seq <= Cardinality(Answered)
  /\ l0 \in Nat /\ l0 <= Cardinality(stored)

\* What the log holds: batches that were answered, in records that take
\* successive sequence numbers; a record of a failed sync is the last one.
Record == [ids : UNION {[D -> Caller] : D \in SUBSET (1 .. Cardinality(Caller))},
           synced : BOOLEAN, seq : Nat]
SizeOf(r) == Cardinality(DOMAIN r.ids)

LogTyped ==
  /\ log \in Seq(Record)
  /\ \A i \in 1 .. Len(log) :
       /\ log[i].seq \in Nat /\ SizeOf(log[i]) \in Nat
       /\ \A n \in DOMAIN log[i].ids : n \in 1 .. Cardinality(Caller) /\ log[i].ids[n] \in Caller
       /\ log[i].seq + SizeOf(log[i]) <= seq + 1
       /\ \A j \in 1 .. Len(log) : i < j => log[i].seq + SizeOf(log[i]) <= log[j].seq

LogAnswered ==
  /\ \A i \in 1 .. Len(log) : \A n \in DOMAIN log[i].ids :
       Batch(log[i].ids[n]) /\ status[log[i].ids[n]] # "none"
  /\ \A t \in Caller : Call[t] = "sync" /\ status[t] = "ok" =>
       \E i \in 1 .. Len(log) : log[i].synced /\ \E n \in DOMAIN log[i].ids : log[i].ids[n] = t

LogFailed ==
  \A i \in 1 .. Len(log) : Call[log[i].ids[1]] = "sync" /\ ~log[i].synced =>
    i = Len(log) /\ err /\ \A t \in Caller : pc[t] # "log"

LogKept == LogTyped /\ LogAnswered /\ LogFailed

\* The log and, after it, the queue have the batches as they arrived.
ArrivalKept ==
  /\ \A t \in Caller : Batch(t) /\ pc[t] # "start" => \E a \in 1 .. Len(came) : came[a] = t
  /\ \A i, j \in 1 .. Len(queue) :
       i < j /\ Batch(queue[i]) /\ Batch(queue[j]) => ArrivedBefore(came, queue[i], queue[j])
  /\ \A i \in 1 .. Len(log) : \A n \in DOMAIN log[i].ids :
       /\ \A j \in 1 .. Len(queue) :
            Batch(queue[j]) => ArrivedBefore(came, log[i].ids[n], queue[j])
       /\ \A j \in 1 .. Len(log) : \A k \in DOMAIN log[j].ids :
            i < j \/ (i = j /\ n < k) =>
              log[i].ids[n] # log[j].ids[k] /\ ArrivedBefore(came, log[i].ids[n], log[j].ids[k])

QueueInv ==
  /\ CallsTyped /\ BackgroundTyped /\ QueueOrder /\ ManualKept /\ Applied /\ Counted
  /\ LogKept /\ ArrivalKept

\* The background thread flushes a memtable that is there.
FlushHasWork == bg = "flush" => imm # << >>

LEMMA QueueCardinality == \A S : Queue!Cardinality(S) = Cardinality(S)
BY DEF Queue!Cardinality, Cardinality

LEMMA QueueInit == Queue!Init => QueueInv
<1> SUFFICES ASSUME Queue!Init PROVE QueueInv
  OBVIOUS
<1>1. /\ pc = [t \in Caller |-> "start"] /\ asleep = [t \in Caller |-> FALSE]
      /\ queue = << >> /\ status = [t \in Caller |-> "none"] /\ last = 0 /\ log = << >>
      /\ seq = 0 /\ mem = {} /\ imm = << >> /\ stored = {} /\ l0 = 0 /\ err = FALSE
      /\ sched = FALSE /\ bg = "none" /\ manual = NoCaller
      /\ left = [t \in Caller |-> Pieces] /\ mdone = [t \in Caller |-> FALSE]
      /\ came = << >>
  BY DEF Queue!Init
<1>2. CallsTyped /\ BackgroundTyped
  <2>1. /\ pc \in [Caller -> CallStep] /\ asleep \in [Caller -> BOOLEAN]
        /\ status \in [Caller -> {"none", "ok", "error"}]
    BY <1>1 DEF CallStep
  <2>2. queue \in Seq(Caller) /\ came \in Seq(Caller) /\ last \in 0 .. Len(queue)
    BY <1>1
  <2>3. left \in [Caller -> 0 .. Pieces] /\ mdone \in [Caller -> BOOLEAN]
    BY <1>1, QueueAssumption
  <2> QED
    BY <1>1, <2>1, <2>2, <2>3 DEF CallsTyped, BackgroundTyped
<1>3. QueueOrder /\ ManualKept
  BY <1>1 DEF QueueOrder, ManualKept, InQueue, Leading
<1>4. Applied
  BY <1>1 DEF Applied, ImmSet
<1>5. Counted
  <2>1. Answered = {} /\ stored = {}
    BY <1>1 DEF Answered
  <2> QED
    BY <1>1, <2>1, FS_EmptySet DEF Counted
<1>6. LogKept /\ ArrivalKept
  BY <1>1 DEF LogKept, LogTyped, LogAnswered, LogFailed, ArrivalKept
<1> QED
  BY <1>2, <1>3, <1>4, <1>5, <1>6 DEF QueueInv

\* The first n of the queue leave it with the answer st; t is their leader.
Leaves(t, n, st) ==
  /\ n \in 1 .. Len(queue) /\ queue[1] = t
  /\ queue' \in Seq(Caller) /\ Len(queue') = Len(queue) - n /\ last' = 0
  /\ \A i \in 1 .. Len(queue') : queue'[i] = queue[i + n]
  /\ \A i \in 1 .. Len(queue) : status[queue[i]] = "none"
  /\ status' \in [Caller -> {"none", "ok", "error"}]
  /\ \A u \in Caller :
       IF \E i \in 1 .. n : queue[i] = u
       THEN status[u] = "none" /\ status'[u] = st
       ELSE status'[u] = status[u]
  /\ pc' \in [Caller -> CallStep] /\ pc'[t] \in {"done", "imm", "man"}
  /\ \A u \in Caller : u # t => pc'[u] = pc[u]

LEMMA LeaveStep ==
  ASSUME CallsTyped, QueueOrder, NEW t \in Caller, pc[t] \in {"room", "log"},
         NEW n \in 1 .. Len(queue), NEW st \in {"ok", "error"},
         NEW wake \in [Caller -> BOOLEAN], Queue!Leave(t, n, st, wake)
  PROVE  Leaves(t, n, st) /\ asleep' \in [Caller -> BOOLEAN]
<1>1. queue \in Seq(Caller) /\ Len(queue) \in Nat
  BY DEF CallsTyped
<1>2. Queue!ToSet(SubSeq(queue, 1, n)) = {queue[i] : i \in 1 .. n}
  <2>1. SubSeq(queue, 1, n) = [i \in 1 .. n |-> queue[i]]
    BY <1>1
  <2> QED
    BY <2>1 DEF Queue!ToSet
<1>3. /\ queue' = SubSeq(queue, n + 1, Len(queue))
      /\ status' = [u \in Caller |-> IF u \in {queue[i] : i \in 1 .. n} THEN st ELSE status[u]]
      /\ pc' = [pc EXCEPT ![t] = Queue!After(t, st)] /\ last' = 0
      /\ asleep' \in [Caller -> BOOLEAN]
  BY <1>2 DEF Queue!Leave, CallsTyped
<1>4. Queue!After(t, st) \in {"done", "imm", "man"}
  BY DEF Queue!After
<1>5. queue' \in Seq(Caller) /\ Len(queue') = Len(queue) - n
      /\ \A i \in 1 .. Len(queue') : queue'[i] = queue[i + n]
  BY <1>1, <1>3
<1>6. queue[1] = t
  BY DEF QueueOrder, Leading
<1>7. \A i \in 1 .. Len(queue) : status[queue[i]] = "none"
  <2> SUFFICES ASSUME NEW i \in 1 .. Len(queue) PROVE status[queue[i]] = "none"
    OBVIOUS
  <2>1. queue[i] \in Caller /\ InQueue(queue[i])
    BY <1>1 DEF InQueue
  <2> QED
    BY <2>1 DEF QueueOrder
<1>8. \A u \in Caller :
        IF \E i \in 1 .. n : queue[i] = u
        THEN status[u] = "none" /\ status'[u] = st
        ELSE status'[u] = status[u]
  BY <1>1, <1>3, <1>7
<1> QED
  BY <1>1, <1>3, <1>4, <1>5, <1>6, <1>7, <1>8 DEF Leaves, CallsTyped, CallStep

LEMMA LeaveKeepsQueue ==
  ASSUME CallsTyped, QueueOrder, NEW t \in Caller, NEW n, NEW st \in {"ok", "error"},
         Leaves(t, n, st), UNCHANGED came, asleep' \in [Caller -> BOOLEAN]
  PROVE  CallsTyped' /\ QueueOrder'
<1>1. queue \in Seq(Caller) /\ Len(queue) \in Nat /\ n \in 1 .. Len(queue)
      /\ Len(queue') \in Nat
  BY DEF CallsTyped, Leaves
<1>2. CallsTyped'
  BY <1>1 DEF CallsTyped, Leaves
<1>3. \A i, j \in 1 .. Len(queue') : queue'[i] = queue'[j] => i = j
  BY <1>1 DEF QueueOrder, Leaves
<1>4. ASSUME NEW u \in Caller
      PROVE  /\ InQueue(u)' <=> pc'[u] \in Leading \/ (pc'[u] = "queue" /\ status'[u] = "none")
             /\ pc'[u] \notin Leading
             /\ status'[u] # "none" => pc'[u] \notin Leading \union {"start"}
  <2>1. InQueue(u)' <=> \E i \in n + 1 .. Len(queue) : queue[i] = u
    <3>1. ASSUME NEW i \in 1 .. Len(queue'), queue'[i] = u
          PROVE  \E k \in n + 1 .. Len(queue) : queue[k] = u
      <4>1. i + n \in n + 1 .. Len(queue) /\ queue[i + n] = u
        BY <1>1, <3>1 DEF Leaves
      <4> QED
        BY <4>1
    <3>2. ASSUME NEW k \in n + 1 .. Len(queue), queue[k] = u
          PROVE  \E i \in 1 .. Len(queue') : queue'[i] = u
      <4>1. k - n \in 1 .. Len(queue') /\ (k - n) + n = k
        BY <1>1 DEF Leaves
      <4>2. queue'[k - n] = u
        BY <3>2, <4>1 DEF Leaves
      <4> QED
        BY <4>1, <4>2
    <3> QED
      BY <3>1, <3>2 DEF InQueue
  <2>2. CASE \E i \in 1 .. n : queue[i] = u
    <3>1. ~InQueue(u)'
      BY <1>1, <2>1, <2>2 DEF QueueOrder
    <3>2. InQueue(u) /\ status'[u] = st
      BY <1>1, <2>2 DEF InQueue, Leaves
    <3>3. u # t => pc[u] = "queue" /\ pc'[u] = "queue"
      BY <1>1, <3>2 DEF QueueOrder, Leaves
    <3> QED
      BY <3>1, <3>2, <3>3 DEF Leaves, Leading
  <2>3. CASE ~\E i \in 1 .. n : queue[i] = u
    <3>0. 1 \in 1 .. n
      BY <1>1
    <3>1. u # t /\ pc'[u] = pc[u] /\ status'[u] = status[u]
      BY <2>3, <3>0 DEF Leaves
    <3>2. InQueue(u)' <=> InQueue(u)
      BY <1>1, <2>1, <2>3 DEF InQueue
    <3>3. pc[u] \notin Leading
      BY <3>1 DEF QueueOrder, Leaves
    <3> QED
      BY <3>1, <3>2, <3>3 DEF QueueOrder
  <2> QED
    BY <2>2, <2>3
<1>5. QueueOrder'
  BY <1>3, <1>4 DEF QueueOrder, Leading
<1> QED
  BY <1>2, <1>5

\* The first n of the queue are n calls.
LEMMA PrefixCount ==
  ASSUME CallsTyped, QueueOrder, NEW n \in 1 .. Len(queue)
  PROVE  Cardinality({queue[i] : i \in 1 .. n}) = n
<1> DEFINE S == {queue[i] : i \in 1 .. n}
           f == [i \in 1 .. n |-> queue[i]]
<1>1. Len(queue) \in Nat /\ n \in Nat
  BY DEF CallsTyped
<1>2. \A i, j \in 1 .. n : queue[i] = queue[j] => i = j
  BY <1>1 DEF QueueOrder
<1>3. f \in Bijection(1 .. n, S)
  BY <1>2 DEF Bijection, Injection, IsInjective, Surjection
<1>4. ExistsBijection(1 .. n, S)
  BY <1>3 DEF ExistsBijection
<1> QED
  BY <1>1, <1>4, FS_CountingElements

\* As many calls as leave the queue get an answer.
LEMMA LeaveCounts ==
  ASSUME CallsTyped, QueueOrder, NEW t \in Caller, NEW n, NEW st \in {"ok", "error"},
         Leaves(t, n, st)
  PROVE  /\ Cardinality(Answered) \in Nat
         /\ Cardinality(Answered') = Cardinality(Answered) + n
<1> DEFINE out == {queue[i] : i \in 1 .. n}
<1>1. queue \in Seq(Caller) /\ n \in 1 .. Len(queue) /\ Len(queue) \in Nat
  BY DEF CallsTyped, Leaves
<1>2. out \subseteq Caller /\ Cardinality(out) = n
  BY <1>1, PrefixCount
<1>3. Answered' = Answered \union out
  <2>1. ASSUME NEW u \in Caller
        PROVE  u \in Answered' <=> u \in Answered \union out
    <3>1. CASE \E i \in 1 .. n : queue[i] = u
      BY <3>1 DEF Answered, Leaves
    <3>2. CASE ~\E i \in 1 .. n : queue[i] = u
      BY <3>2 DEF Answered, Leaves
    <3> QED
      BY <3>1, <3>2
  <2> QED
    BY <1>2, <2>1 DEF Answered
<1>4. Answered \cap out = {}
  BY <1>1 DEF Answered, Leaves
<1>5. IsFiniteSet(Answered) /\ IsFiniteSet(out)
  BY <1>2, FS_Subset, QueueAssumption DEF Answered
<1>6. Cardinality({}) = 0
  BY FS_EmptySet
<1>7. Cardinality(Answered) \in Nat
  BY <1>5, FS_CardinalityType
<1> HIDE DEF out
<1>8. Cardinality(Answered \union out) = Cardinality(Answered) + Cardinality(out) - 0
  BY <1>4, <1>5, <1>6, FS_Union
<1> QED
  BY <1>1, <1>2, <1>3, <1>7, <1>8

\* The answers of those that leave, when nothing is logged.
LEMMA LeaveKeepsApplied ==
  ASSUME CallsTyped, QueueOrder, Applied, Counted,
         NEW t \in Caller, NEW n, NEW st \in {"ok", "error"},
         Leaves(t, n, st), UNCHANGED <<mem, imm, stored, l0>>,
         st = "error" \/ (n = 1 /\ ~Batch(t)),
         seq' \in Nat, seq' <= seq + n
  PROVE  Applied' /\ Counted'
<1>1. queue \in Seq(Caller) /\ n \in 1 .. Len(queue) /\ Len(queue) \in Nat
  BY DEF CallsTyped, Leaves
<1>2. Applied'
  <2>1. ImmSet' = ImmSet
    BY DEF ImmSet
  <2>2. ASSUME NEW u \in Caller
        PROVE  IF u \in mem \union stored \union ImmSet
               THEN Batch(u) /\ status'[u] = "ok"
               ELSE Batch(u) => status'[u] # "ok"
    <3>1. CASE \E i \in 1 .. n : queue[i] = u
      <4>1. status'[u] = st /\ status[u] = "none"
        BY <3>1 DEF Leaves
      <4>2. u \notin mem \union stored \union ImmSet
        BY <4>1 DEF Applied
      <4>3. n = 1 => u = t
        BY <1>1, <3>1 DEF Leaves
      <4> QED
        BY <4>1, <4>2, <4>3
    <3>2. CASE ~\E i \in 1 .. n : queue[i] = u
      <4>1. status'[u] = status[u]
        BY <3>2 DEF Leaves
      <4> QED
        BY <4>1 DEF Applied
    <3> QED
      BY <3>1, <3>2
  <2> QED
    BY <2>1, <2>2 DEF Applied
<1>3. seq' <= Cardinality(Answered')
  BY <1>1, LeaveCounts DEF Counted
<1> QED
  BY <1>2, <1>3 DEF Counted

\* The log and the order of arrival, when nothing is logged.
LEMMA LeaveKeepsLog ==
  ASSUME CallsTyped, QueueOrder, LogKept, ArrivalKept, Counted,
         NEW t \in Caller, NEW n, NEW st \in {"ok", "error"},
         Leaves(t, n, st), UNCHANGED <<log, came>>, err => err',
         st = "error" \/ (n = 1 /\ ~Batch(t)),
         seq' \in Nat, seq <= seq'
  PROVE  LogKept' /\ ArrivalKept'
<1>1. queue \in Seq(Caller) /\ n \in 1 .. Len(queue) /\ Len(queue) \in Nat /\ Len(queue') \in Nat
  BY DEF CallsTyped, Leaves
<1>2. ASSUME NEW u \in Caller
      PROVE  /\ status[u] # "none" => status'[u] = status[u]
             /\ Call[u] = "sync" /\ status'[u] = "ok" => status[u] = "ok"
  <2>1. CASE \E i \in 1 .. n : queue[i] = u
    <3>1. status'[u] = st /\ status[u] = "none"
      BY <2>1 DEF Leaves
    <3>2. n = 1 => u = t
      BY <1>1, <2>1 DEF Leaves
    <3> QED
      BY <3>1, <3>2 DEF Batch
  <2>2. CASE ~\E i \in 1 .. n : queue[i] = u
    BY <2>2 DEF Leaves
  <2> QED
    BY <2>1, <2>2
<1>3. ASSUME NEW u \in Caller
      PROVE  /\ pc'[u] = "log" => pc[u] = "log"
             /\ pc'[u] # "start" => pc[u] # "start"
  <2>1. InQueue(t)
    BY <1>1 DEF InQueue, Leaves
  <2>2. pc[t] # "start"
    BY <2>1 DEF QueueOrder, Leading
  <2> QED
    BY <2>2 DEF Leaves
<1>4. LogKept'
  <2>1. LogTyped'
    <3>1. ASSUME NEW i \in 1 .. Len(log)
          PROVE  log[i].seq + SizeOf(log[i]) <= seq' + 1
      <4>1. log[i].seq \in Nat /\ SizeOf(log[i]) \in Nat /\ log[i].seq + SizeOf(log[i]) <= seq + 1
            /\ seq \in Nat
        BY DEF LogKept, LogTyped, Counted
      <4> QED
        BY <4>1
    <3> QED
      BY <3>1 DEF LogKept, LogTyped
  <2>2. LogAnswered'
    <3>1. \A i \in 1 .. Len(log) : \A k \in DOMAIN log[i].ids :
            Batch(log[i].ids[k]) /\ status'[log[i].ids[k]] # "none"
      BY <1>2 DEF LogKept, LogTyped, LogAnswered
    <3>2. \A u \in Caller : Call[u] = "sync" /\ status'[u] = "ok" =>
            \E i \in 1 .. Len(log) : log[i].synced /\ \E k \in DOMAIN log[i].ids : log[i].ids[k] = u
      BY <1>2 DEF LogKept, LogAnswered
    <3> QED
      BY <3>1, <3>2 DEF LogAnswered
  <2>3. LogFailed'
    BY <1>3 DEF LogKept, LogFailed
  <2> QED
    BY <2>1, <2>2, <2>3 DEF LogKept
<1>5. ArrivalKept'
  <2>2. \A i \in 1 .. Len(queue') : i + n \in 1 .. Len(queue) /\ queue'[i] = queue[i + n]
    BY <1>1 DEF Leaves
  <2>3. \A i, j \in 1 .. Len(queue') : i < j => i + n < j + n
    BY <1>1
  <2>4. ASSUME NEW i \in 1 .. Len(queue'), NEW j \in 1 .. Len(queue'),
               i < j, Batch(queue'[i]), Batch(queue'[j])
        PROVE  ArrivedBefore(came, queue'[i], queue'[j])
    <3>1. /\ i + n \in 1 .. Len(queue) /\ queue'[i] = queue[i + n]
          /\ j + n \in 1 .. Len(queue) /\ queue'[j] = queue[j + n]
      BY <2>2
    <3>2. i + n < j + n
      BY <2>3, <2>4
    <3>3. Batch(queue[i + n]) /\ Batch(queue[j + n])
      BY <2>4, <3>1
    <3>4. ArrivedBefore(came, queue[i + n], queue[j + n])
      BY <3>1, <3>2, <3>3 DEF ArrivalKept
    <3> QED
      BY <3>1, <3>4
  <2>5. \A u \in Caller : Batch(u) /\ pc'[u] # "start" => \E a \in 1 .. Len(came) : came[a] = u
    BY <1>3 DEF ArrivalKept
  <2>6. \A i \in 1 .. Len(log) : \A k \in DOMAIN log[i].ids : \A j \in 1 .. Len(queue') :
          Batch(queue'[j]) => ArrivedBefore(came, log[i].ids[k], queue'[j])
    <3> SUFFICES ASSUME NEW i \in 1 .. Len(log), NEW k \in DOMAIN log[i].ids,
                        NEW j \in 1 .. Len(queue'), Batch(queue'[j])
                 PROVE  ArrivedBefore(came, log[i].ids[k], queue'[j])
      OBVIOUS
    <3>1. j + n \in 1 .. Len(queue) /\ Batch(queue[j + n]) /\ queue'[j] = queue[j + n]
      BY <2>2
    <3>2. ArrivedBefore(came, log[i].ids[k], queue[j + n])
      BY <3>1 DEF ArrivalKept
    <3> QED
      BY <3>1, <3>2
  <2> QED
    BY <2>4, <2>5, <2>6 DEF ArrivalKept
<1> QED
  BY <1>4, <1>5

LEMMA AppendFacts ==
  ASSUME NEW S, NEW s \in Seq(S), NEW e, NEW T, S \subseteq T, e \in T
  PROVE  /\ Append(s, e) \in Seq(T) /\ Len(Append(s, e)) = Len(s) + 1 /\ Len(s) \in Nat
         /\ \A i \in 1 .. Len(s) : Append(s, e)[i] = s[i]
         /\ Append(s, e)[Len(s) + 1] = e
OBVIOUS

LEMMA EnqueueKeeps ==
  ASSUME QueueInv, NEW t \in Caller, Queue!Enqueue(t)
  PROVE  QueueInv'
<1>1. /\ CallsTyped /\ QueueOrder /\ ArrivalKept /\ LogKept /\ Applied /\ Counted
      /\ BackgroundTyped /\ ManualKept
  BY DEF QueueInv
<1>2. /\ pc[t] = "start" /\ queue' = Append(queue, t)
      /\ came' = IF Batch(t) THEN Append(came, t) ELSE came
      /\ IF queue = << >>
         THEN pc' = [pc EXCEPT ![t] = "room"] /\ UNCHANGED asleep
         ELSE pc' = [pc EXCEPT ![t] = "queue"] /\ asleep' = [asleep EXCEPT ![t] = TRUE]
      /\ UNCHANGED <<status, last, log, seq, mem, imm, stored, l0, seek, err, sched,
                     bg, manual, left, mdone>>
  BY DEF Queue!Enqueue, Queue!IsBatch, Batch
<1>3. /\ queue' \in Seq(Caller) /\ Len(queue') = Len(queue) + 1 /\ Len(queue) \in Nat
      /\ \A i \in 1 .. Len(queue) : queue'[i] = queue[i] /\ queue[i] \in Caller
      /\ queue'[Len(queue) + 1] = t /\ queue \in Seq(Caller)
  BY <1>1, <1>2 DEF CallsTyped
<1>4. /\ came' \in Seq(Caller) /\ Len(came) \in Nat /\ Len(came') \in Nat /\ Len(came') >= Len(came)
      /\ \A a \in 1 .. Len(came) : came'[a] = came[a]
      /\ Batch(t) => Len(came') = Len(came) + 1 /\ came'[Len(came) + 1] = t
  <2>1. came \in Seq(Caller)
    BY <1>1 DEF CallsTyped
  <2> QED
    BY <1>2, <2>1
<1>5. ~InQueue(t) /\ status[t] = "none"
  BY <1>1, <1>2 DEF QueueOrder, Leading, CallsTyped
<1>6. CallsTyped'
  <2>1. pc' \in [Caller -> CallStep] /\ asleep' \in [Caller -> BOOLEAN]
    BY <1>1, <1>2 DEF CallsTyped, CallStep
  <2> QED
    BY <1>1, <1>2, <1>3, <1>4, <2>1 DEF CallsTyped
<1>7. QueueOrder'
  <2>1. \A i, j \in 1 .. Len(queue') : queue'[i] = queue'[j] => i = j
    BY <1>1, <1>3, <1>5 DEF QueueOrder, InQueue
  <2>2. pc'[t] = IF queue = << >> THEN "room" ELSE "queue"
    BY <1>1, <1>2 DEF CallsTyped
  <2>3. \A u \in Caller : u # t => pc'[u] = pc[u]
    BY <1>1, <1>2 DEF CallsTyped
  <2>4. \A u \in Caller : InQueue(u)' <=> InQueue(u) \/ u = t
    BY <1>3 DEF InQueue
  <2>5. queue = << >> <=> Len(queue) = 0
    BY <1>3
  <2>6. ASSUME NEW u \in Caller
        PROVE  /\ InQueue(u)' <=> pc'[u] \in Leading \/ (pc'[u] = "queue" /\ status'[u] = "none")
               /\ pc'[u] \in Leading => Len(queue') > 0 /\ queue'[1] = u
               /\ status'[u] # "none" => pc'[u] \notin Leading \union {"start"}
               /\ pc'[u] = "log" =>
                    /\ last' > 0 /\ Batch(u)
                    /\ \A i \in 1 .. last' : Call[queue'[i]] = "sync" => Call[u] = "sync"
    <3>1. CASE u = t
      BY <1>2, <1>3, <1>5, <2>2, <2>4, <2>5, <3>1 DEF Leading
    <3>2. CASE u # t
      <4>1. \A i \in 1 .. last : i \in 1 .. Len(queue)
        BY <1>1, <1>3 DEF CallsTyped
      <4>2. pc'[u] = pc[u] /\ status'[u] = status[u] /\ last' = last
        BY <1>2, <2>3, <3>2
      <4> QED
        BY <1>1, <1>3, <2>4, <3>2, <4>1, <4>2 DEF QueueOrder
    <3> QED
      BY <3>1, <3>2
  <2> QED
    BY <2>1, <2>6 DEF QueueOrder
<1>8. BackgroundTyped' /\ ManualKept' /\ Applied' /\ Counted'
  BY <1>1, <1>2 DEF BackgroundTyped, ManualKept, Applied, Counted, ImmSet, Answered
<1>9. LogKept'
  <2>1. \A u \in Caller : pc'[u] = "log" => pc[u] = "log"
    BY <1>1, <1>2 DEF CallsTyped
  <2>2. LogTyped' /\ LogAnswered'
    BY <1>1, <1>2 DEF LogKept, LogTyped, LogAnswered
  <2>3. LogFailed'
    BY <1>1, <1>2, <2>1 DEF LogKept, LogFailed
  <2> QED
    BY <2>2, <2>3 DEF LogKept
<1>10. ArrivalKept'
  <2>1. \A u, v : ArrivedBefore(came, u, v) => ArrivedBefore(came', u, v)
    BY <1>4 DEF ArrivedBefore
  <2>2. \A u \in Caller : Batch(u) /\ pc[u] # "start" =>
          \E a \in 1 .. Len(came) : came[a] = u
    BY <1>1 DEF ArrivalKept
  <2>3. \A u \in Caller : Batch(u) /\ pc[u] # "start" /\ Batch(t) => ArrivedBefore(came', u, t)
    <3> SUFFICES ASSUME NEW u \in Caller, Batch(u), pc[u] # "start", Batch(t)
                 PROVE  ArrivedBefore(came', u, t)
      OBVIOUS
    <3>1. PICK a \in 1 .. Len(came) : came[a] = u
      BY <2>2
    <3>2. a \in 1 .. Len(came') /\ Len(came) + 1 \in 1 .. Len(came') /\ a < Len(came) + 1
          /\ came'[a] = u
      BY <1>4, <3>1
    <3> QED
      BY <1>4, <3>2 DEF ArrivedBefore
  <2>4. \A i \in 1 .. Len(queue) : pc[queue[i]] # "start"
    BY <1>1, <1>3 DEF QueueOrder, InQueue, Leading
  <2>5. \A i \in 1 .. Len(log) : \A n \in DOMAIN log[i].ids :
          log[i].ids[n] \in Caller /\ Batch(log[i].ids[n]) /\ pc[log[i].ids[n]] # "start"
    <3> SUFFICES ASSUME NEW i \in 1 .. Len(log), NEW n \in DOMAIN log[i].ids
                 PROVE  /\ log[i].ids[n] \in Caller /\ Batch(log[i].ids[n])
                        /\ pc[log[i].ids[n]] # "start"
      OBVIOUS
    <3>1. log[i].ids[n] \in Caller
      BY <1>1 DEF LogKept, LogTyped
    <3>2. Batch(log[i].ids[n]) /\ status[log[i].ids[n]] # "none"
      BY <1>1 DEF LogKept, LogAnswered
    <3> QED
      BY <1>1, <3>1, <3>2 DEF QueueOrder
  <2>6. \A u \in Caller : Batch(u) /\ pc'[u] # "start" => \E a \in 1 .. Len(came') : came'[a] = u
    <3> SUFFICES ASSUME NEW u \in Caller, Batch(u), pc'[u] # "start"
                 PROVE  \E a \in 1 .. Len(came') : came'[a] = u
      OBVIOUS
    <3>1. CASE u = t
      <4>1. Len(came) + 1 \in 1 .. Len(came')
        BY <1>4, <3>1
      <4> QED
        BY <1>4, <3>1, <4>1
    <3>2. CASE u # t
      <4>1. pc[u] # "start"
        BY <1>1, <1>2, <3>2 DEF CallsTyped
      <4>2. PICK a \in 1 .. Len(came) : came[a] = u
        BY <2>2, <4>1
      <4> QED
        BY <1>4, <4>2
    <3> QED
      BY <3>1, <3>2
  <2>7. ASSUME NEW i \in 1 .. Len(queue'), NEW j \in 1 .. Len(queue'), i < j,
               Batch(queue'[i]), Batch(queue'[j])
        PROVE  ArrivedBefore(came', queue'[i], queue'[j])
    <3>1. i \in 1 .. Len(queue) /\ queue'[i] = queue[i] /\ queue[i] \in Caller
      BY <1>3, <2>7
    <3>2. CASE j = Len(queue) + 1
      BY <1>3, <2>3, <2>4, <2>7, <3>1, <3>2
    <3>3. CASE j \in 1 .. Len(queue)
      <4>1. ArrivedBefore(came, queue[i], queue[j])
        BY <1>1, <1>3, <2>7, <3>1, <3>3 DEF ArrivalKept
      <4> QED
        BY <1>3, <2>1, <3>1, <3>3, <4>1
    <3> QED
      BY <1>3, <3>2, <3>3
  <2>8. ASSUME NEW i \in 1 .. Len(log), NEW n \in DOMAIN log[i].ids,
               NEW j \in 1 .. Len(queue'), Batch(queue'[j])
        PROVE  ArrivedBefore(came', log[i].ids[n], queue'[j])
    <3>1. CASE j = Len(queue) + 1
      BY <1>3, <2>3, <2>5, <2>8, <3>1
    <3>2. CASE j \in 1 .. Len(queue)
      <4>1. ArrivedBefore(came, log[i].ids[n], queue[j])
        BY <1>1, <1>3, <2>8, <3>2 DEF ArrivalKept
      <4> QED
        BY <1>3, <2>1, <3>2, <4>1
    <3> QED
      BY <1>3, <3>1, <3>2
  <2>9. log' = log
    BY <1>2
  <2>10. \A i, j \in 1 .. Len(log) : \A n \in DOMAIN log[i].ids : \A k \in DOMAIN log[j].ids :
           i < j \/ (i = j /\ n < k) =>
             log[i].ids[n] # log[j].ids[k] /\ ArrivedBefore(came', log[i].ids[n], log[j].ids[k])
    BY <1>1, <2>1 DEF ArrivalKept
  <2> QED
    BY <2>6, <2>7, <2>8, <2>9, <2>10 DEF ArrivalKept
<1> QED
  BY <1>6, <1>7, <1>8, <1>9, <1>10 DEF QueueInv

\* A call goes on, in the queue or outside it.
GoesOn(t) ==
  \/ pc'[t] = pc[t]
  \/ pc[t] \in {"room", "nap"} /\ pc'[t] \in {"room", "nap"}
  \/ pc[t] \in {"imm", "man"} /\ pc'[t] \in {"imm", "man", "done"}
  \/ pc[t] = "start" /\ ~Batch(t) /\ pc'[t] = "done"
  \/ pc[t] = "queue" /\ status[t] # "none" /\ pc'[t] \in {"imm", "man", "done"}
  \/ pc[t] = "queue" /\ status[t] = "none" /\ queue[1] = t /\ pc'[t] = "room"

LEMMA MoveKeeps ==
  ASSUME CallsTyped, QueueOrder, LogKept, ArrivalKept, Applied, Counted, NEW t \in Caller,
         pc' \in [Caller -> CallStep], \A u \in Caller : u # t => pc'[u] = pc[u], GoesOn(t),
         asleep' \in [Caller -> BOOLEAN], err => err',
         UNCHANGED <<queue, status, last, log, seq, mem, imm, stored, l0, came>>
  PROVE  CallsTyped' /\ QueueOrder' /\ LogKept' /\ ArrivalKept' /\ Applied' /\ Counted'
<1>1. CallsTyped'
  BY DEF CallsTyped
<1>2. QueueOrder'
  <2>1. \A u \in Caller : InQueue(u)' <=> InQueue(u)
    BY DEF InQueue
  <2>2. InQueue(t) => Len(queue) > 0
    BY DEF InQueue, CallsTyped
  <2>3. ASSUME NEW u \in Caller
        PROVE  /\ InQueue(u)' <=> pc'[u] \in Leading \/ (pc'[u] = "queue" /\ status[u] = "none")
               /\ pc'[u] \in Leading => Len(queue) > 0 /\ queue[1] = u
               /\ status[u] # "none" => pc'[u] \notin Leading \union {"start"}
               /\ pc'[u] = "log" => pc[u] = "log"
    <3>1. CASE u # t
      BY <2>1, <3>1 DEF QueueOrder
    <3>2. CASE u = t
      BY <2>1, <2>2, <3>2 DEF QueueOrder, GoesOn, Leading
    <3> QED
      BY <3>1, <3>2
  <2> QED
    BY <2>3 DEF QueueOrder
<1>3. \A u \in Caller : /\ pc'[u] = "log" => pc[u] = "log"
                        /\ Batch(u) /\ pc'[u] # "start" => pc[u] # "start"
  BY DEF GoesOn
<1>4. LogKept'
  <2>1. LogTyped' /\ LogAnswered'
    BY DEF LogKept, LogTyped, LogAnswered
  <2>2. LogFailed'
    BY <1>3 DEF LogKept, LogFailed
  <2> QED
    BY <2>1, <2>2 DEF LogKept
<1>5. ArrivalKept'
  BY <1>3 DEF ArrivalKept
<1>6. Applied' /\ Counted'
  BY DEF Applied, Counted, ImmSet, Answered
<1> QED
  BY <1>1, <1>2, <1>4, <1>5, <1>6

\* MaybeScheduleCompaction, or nothing.
Scheduled == UNCHANGED <<sched, bg>> \/ (~sched /\ sched' = TRUE /\ bg' = "queued")

LEMMA ScheduleKeeps ==
  ASSUME BackgroundTyped, ManualKept, Scheduled, UNCHANGED <<left, mdone, manual>>,
         err' \in BOOLEAN, err => err'
  PROVE  BackgroundTyped' /\ ManualKept'
BY DEF BackgroundTyped, ManualKept, Scheduled

LEMMA MovesKeep ==
  ASSUME QueueInv, NEW t \in Caller,
         \/ Queue!Await(t) \/ Queue!RoomDelay(t) \/ Queue!RoomNapEnds(t) \/ Queue!RoomWait(t)
         \/ Queue!ImmLoop(t) \/ Queue!GetEnds(t)
  PROVE  QueueInv'
<1>1. /\ CallsTyped /\ QueueOrder /\ ArrivalKept /\ LogKept /\ Applied /\ Counted
      /\ BackgroundTyped /\ ManualKept
  BY DEF QueueInv
<1>2. /\ pc \in [Caller -> CallStep] /\ asleep \in [Caller -> BOOLEAN]
      /\ queue \in Seq(Caller)
  BY <1>1 DEF CallsTyped
<1>a. status[t] = "none" /\ pc[t] = "queue" => Len(queue) > 0
  BY <1>1 DEF QueueOrder, InQueue, CallsTyped
<1>3. /\ pc' \in [Caller -> CallStep] /\ \A u \in Caller : u # t => pc'[u] = pc[u]
      /\ GoesOn(t) /\ asleep' \in [Caller -> BOOLEAN] /\ Scheduled
      /\ UNCHANGED <<queue, status, last, log, seq, mem, imm, stored, l0, came>>
      /\ UNCHANGED <<left, mdone, manual, err>>
  <2>1. CASE Queue!Await(t)
    <3>1. Queue!After(t, status[t]) \in {"done", "imm", "man"}
      BY DEF Queue!After
    <3>2. status[t] = "none" /\ pc[t] = "queue" => Head(queue) = queue[1]
      BY <1>2, <1>a
    <3> QED
      BY <1>2, <2>1, <3>1, <3>2 DEF Queue!Await, GoesOn, CallStep, Scheduled
  <2>2. CASE Queue!RoomDelay(t) \/ Queue!RoomNapEnds(t)
    BY <1>2, <2>2 DEF Queue!RoomDelay, Queue!RoomNapEnds, Queue!InRoom, GoesOn, CallStep, Scheduled
  <2>3. CASE Queue!RoomWait(t)
    BY <1>2, <2>3 DEF Queue!RoomWait, GoesOn, Scheduled
  <2>4. CASE Queue!ImmLoop(t)
    BY <1>2, <2>4 DEF Queue!ImmLoop, GoesOn, CallStep, Scheduled
  <2>5. CASE Queue!GetEnds(t)
    <3>1. ~Batch(t)
      BY <2>5 DEF Queue!GetEnds, Batch
    <3> QED
      BY <1>2, <2>5, <3>1 DEF Queue!GetEnds, Queue!MaybeScheduleCompaction, GoesOn, CallStep,
                              Scheduled
  <2> QED
    BY <2>1, <2>2, <2>3, <2>4, <2>5
<1>4. CallsTyped' /\ QueueOrder' /\ LogKept' /\ ArrivalKept' /\ Applied' /\ Counted'
  BY <1>1, <1>3, MoveKeeps
<1>5. BackgroundTyped' /\ ManualKept'
  <2>1. err' \in BOOLEAN
    BY <1>1, <1>3 DEF BackgroundTyped
  <2> QED
    BY <1>1, <1>3, <2>1, ScheduleKeeps
<1> QED
  BY <1>4, <1>5 DEF QueueInv

LEMMA ManualLoopKeeps ==
  ASSUME QueueInv, NEW t \in Caller, Queue!ManualLoop(t)
  PROVE  QueueInv'
<1>1. /\ CallsTyped /\ QueueOrder /\ ArrivalKept /\ LogKept /\ Applied /\ Counted
      /\ BackgroundTyped /\ ManualKept
  BY DEF QueueInv
<1>2. pc \in [Caller -> CallStep] /\ asleep \in [Caller -> BOOLEAN]
  BY <1>1 DEF CallsTyped
<1>3. /\ pc' \in [Caller -> CallStep] /\ \A u \in Caller : u # t => pc'[u] = pc[u]
      /\ GoesOn(t) /\ asleep' \in [Caller -> BOOLEAN]
      /\ UNCHANGED <<queue, status, last, log, seq, mem, imm, stored, l0, came, err>>
  BY <1>2 DEF Queue!ManualLoop, GoesOn, CallStep
<1>4. CallsTyped' /\ QueueOrder' /\ LogKept' /\ ArrivalKept' /\ Applied' /\ Counted'
  BY <1>1, <1>3, MoveKeeps
<1>5. BackgroundTyped' /\ ManualKept'
  <2> USE <1>1, QueueAssumption
      DEF Queue!ManualLoop, Queue!MaybeScheduleCompaction, BackgroundTyped, ManualKept
  <2>1. CASE mdone[t] \/ err
    BY <2>1
  <2>2. CASE ~(mdone[t] \/ err) /\ manual = NoCaller
    BY <2>2
  <2>3. CASE ~(mdone[t] \/ err) /\ manual # NoCaller
    BY <2>3
  <2> QED
    BY <2>1, <2>2, <2>3
<1> QED
  BY <1>4, <1>5 DEF QueueInv

\* A call leaves the queue without a log record: MakeRoomForWrite failed, or
\* there was no batch, or the record could not be appended.
LEMMA LeavesKeep ==
  ASSUME QueueInv, NEW t \in Caller, pc[t] \in {"room", "log"},
         NEW n \in 1 .. Len(queue), NEW st \in {"ok", "error"},
         NEW wake \in [Caller -> BOOLEAN], Queue!Leave(t, n, st, wake),
         st = "error" \/ (n = 1 /\ ~Batch(t)),
         UNCHANGED <<came, mem, imm, stored, l0, log>>,
         UNCHANGED <<left, mdone, manual, sched, bg>>, err' \in BOOLEAN, err => err',
         seq' \in Nat, seq <= seq', seq' <= seq + n
  PROVE  QueueInv'
<1>1. /\ CallsTyped /\ QueueOrder /\ ArrivalKept /\ LogKept /\ Applied /\ Counted
      /\ BackgroundTyped /\ ManualKept
  BY DEF QueueInv
<1>2. Leaves(t, n, st) /\ asleep' \in [Caller -> BOOLEAN]
  BY <1>1, LeaveStep
<1>3. CallsTyped' /\ QueueOrder'
  BY <1>1, <1>2, LeaveKeepsQueue
<1>4. Applied' /\ Counted'
  BY <1>1, <1>2, LeaveKeepsApplied
<1>5. LogKept' /\ ArrivalKept'
  BY <1>1, <1>2, LeaveKeepsLog
<1>6. BackgroundTyped' /\ ManualKept'
  BY <1>1, ScheduleKeeps DEF Scheduled
<1> QED
  BY <1>3, <1>4, <1>5, <1>6 DEF QueueInv

LEMMA LeaderFacts ==
  ASSUME QueueInv, NEW t \in Caller, pc[t] \in Leading
  PROVE  /\ Len(queue) \in Nat /\ Len(queue) > 0 /\ 1 \in 1 .. Len(queue) /\ queue[1] = t
         /\ Head(queue) = t /\ asleep \in [Caller -> BOOLEAN] /\ err \in BOOLEAN
         /\ seq \in Nat /\ last \in 0 .. Len(queue) /\ queue \in Seq(Caller)
<1>1. queue \in Seq(Caller) /\ Len(queue) > 0 /\ queue[1] = t
  BY DEF QueueInv, CallsTyped, QueueOrder
<1> QED
  BY <1>1 DEF QueueInv, CallsTyped, BackgroundTyped, Counted

LEMMA RoomFailsKeep ==
  ASSUME QueueInv, NEW t \in Caller, Queue!RoomError(t) \/ Queue!RoomSwitchFails(t)
  PROVE  QueueInv'
<1>1. pc[t] = "room"
  BY DEF Queue!RoomError, Queue!RoomSwitchFails, Queue!RoomFull, Queue!InRoom
<1>2. /\ Queue!Leave(t, 1, "error", asleep)
      /\ UNCHANGED <<room, log, seq, mem, imm, stored, l0, seek, err, sched, bg,
                     manual, left, mdone, closing, came>>
  BY DEF Queue!RoomError, Queue!RoomSwitchFails
<1>3. /\ Len(queue) \in Nat /\ 1 \in 1 .. Len(queue) /\ asleep \in [Caller -> BOOLEAN]
      /\ err \in BOOLEAN /\ seq \in Nat
  BY <1>1, LeaderFacts DEF Leading
<1> QED
  BY <1>1, <1>2, <1>3, LeavesKeep

LEMMA AddRecordFailsKeeps ==
  ASSUME QueueInv, NEW t \in Caller, Queue!AddRecordFails(t)
  PROVE  QueueInv'
<1>1. pc[t] = "log" /\ seq' = seq + Queue!Cardinality(DOMAIN Queue!Group)
      /\ Queue!Leave(t, last, "error", asleep)
      /\ UNCHANGED <<room, log, mem, imm, stored, l0, seek, err, sched, bg, manual,
                     left, mdone, closing, came>>
  BY DEF Queue!AddRecordFails
<1>2. /\ Len(queue) \in Nat /\ asleep \in [Caller -> BOOLEAN] /\ last \in 0 .. Len(queue)
      /\ err \in BOOLEAN /\ seq \in Nat
  BY <1>1, LeaderFacts DEF Leading
<1>3. last > 0
  BY <1>1 DEF QueueInv, QueueOrder
<1>4. DOMAIN Queue!Group \subseteq 1 .. last
  BY DEF Queue!Group
<1>5. IsFiniteSet(1 .. last) /\ Cardinality(1 .. last) = last
  BY <1>2, <1>3, FS_Interval
<1>6. Cardinality(DOMAIN Queue!Group) \in Nat /\ Cardinality(DOMAIN Queue!Group) <= last
  BY <1>4, <1>5, FS_Subset, FS_CardinalityType
<1>7. seq' \in Nat /\ seq <= seq' /\ seq' <= seq + last
  BY <1>1, <1>2, <1>6, QueueCardinality
<1> QED
  BY <1>1, <1>2, <1>3, <1>7, LeavesKeep

\* A step that only signals, or touches neither calls nor log.
LEMMA CallsKept ==
  ASSUME CallsTyped, QueueOrder, LogKept, ArrivalKept, asleep' \in [Caller -> BOOLEAN],
         UNCHANGED <<pc, queue, status, last, came, log, seq>>, err => err'
  PROVE  CallsTyped' /\ QueueOrder' /\ LogKept' /\ ArrivalKept'
<1>1. CallsTyped'
  BY DEF CallsTyped
<1>2. QueueOrder'
  <2>1. \A u \in Caller : InQueue(u)' <=> InQueue(u)
    BY DEF InQueue
  <2> QED
    BY <2>1 DEF QueueOrder
<1>3. LogTyped' /\ LogAnswered'
  BY DEF LogKept, LogTyped, LogAnswered
<1>4. LogFailed'
  BY DEF LogKept, LogFailed
<1>5. ArrivalKept'
  BY DEF ArrivalKept
<1> QED
  BY <1>1, <1>2, <1>3, <1>4, <1>5 DEF LogKept

\* The memtable is switched: its writes are in imm_ now.
LEMMA RoomSwitchKeeps ==
  ASSUME QueueInv, NEW t \in Caller, Queue!RoomSwitch(t)
  PROVE  QueueInv'
<1>1. /\ CallsTyped /\ QueueOrder /\ ArrivalKept /\ LogKept /\ Applied /\ Counted
      /\ BackgroundTyped /\ ManualKept
  BY DEF QueueInv
<1>2. /\ imm = << >> /\ imm' = <<mem>> /\ mem' = {} /\ Scheduled
      /\ UNCHANGED <<pc, asleep, queue, status, last, log, seq, stored, l0, err, manual, left,
                     mdone, came>>
  BY DEF Queue!RoomSwitch, Queue!RoomFull, Queue!MaybeScheduleCompaction, Scheduled
<1>3. CallsTyped' /\ QueueOrder' /\ LogKept' /\ ArrivalKept'
  <2>1. asleep' \in [Caller -> BOOLEAN]
    BY <1>1, <1>2 DEF CallsTyped
  <2> QED
    BY <1>1, <1>2, <2>1, CallsKept
<1>6. Applied'
  <2>1. ImmSet = {} /\ ImmSet' = mem
    BY <1>2 DEF ImmSet
  <2> QED
    BY <1>1, <1>2, <2>1 DEF Applied
<1>7. Counted'
  BY <1>1, <1>2 DEF Counted, Answered
<1>8. BackgroundTyped' /\ ManualKept'
  BY <1>1, <1>2, ScheduleKeeps DEF BackgroundTyped
<1> QED
  BY <1>3, <1>6, <1>7, <1>8 DEF QueueInv

\* BuildBatchGroup takes a prefix of the queue; a sync write joins no group
\* whose leader does not sync.
LEMMA GroupOfLeader ==
  ASSUME CallsTyped, Len(queue) > 0
  PROVE  /\ Queue!BuildBatchGroup \in 1 .. Len(queue)
         /\ \A i \in 2 .. Queue!BuildBatchGroup :
              Call[queue[i]] = "sync" => Call[Head(queue)] = "sync"
<1> DEFINE Joins(n) == /\ Call[queue[n]] = "sync" => Call[Head(queue)] = "sync"
                       /\ Queue!IsBatch(queue[n]) =>
                            Queue!Bytes(n) <= Queue!MaxSize(Head(queue))
           Good(n) == /\ \A i \in 2 .. n : Joins(i)
                      /\ n < Len(queue) => ~Joins(n + 1)
           S == {n \in 1 .. Len(queue) : \A i \in 2 .. n : Joins(i)}
<1>1. Len(queue) \in Nat
  BY DEF CallsTyped
<1>2. S \subseteq 1 .. Len(queue) /\ 1 \in S
  BY <1>1
<1>3. PICK top \in S : \A k \in S : k <= top
  BY <1>1, <1>2, MaxExists
<1>4. top \in 1 .. Len(queue) /\ Good(top)
  <2>1. ASSUME top < Len(queue), Joins(top + 1)
        PROVE  FALSE
    <3>1. \A i \in 2 .. top + 1 : i \in 2 .. top \/ i = top + 1
      BY <1>1, <1>2
    <3>2. top + 1 \in S
      BY <1>1, <1>2, <2>1, <3>1
    <3> QED
      BY <1>1, <1>2, <1>3, <3>2
  <2> QED
    BY <2>1
<1>5. Queue!BuildBatchGroup = CHOOSE n \in 1 .. Len(queue) : Good(n)
  BY DEF Queue!BuildBatchGroup
<1> HIDE DEF Good
<1>6. Queue!BuildBatchGroup \in 1 .. Len(queue) /\ Good(Queue!BuildBatchGroup)
  BY <1>4, <1>5
<1> QED
  BY <1>6 DEF Good

LEMMA RoomEnoughKeeps ==
  ASSUME QueueInv, NEW t \in Caller, Queue!RoomEnough(t)
  PROVE  QueueInv'
<1>1. /\ CallsTyped /\ QueueOrder /\ ArrivalKept /\ LogKept /\ Applied /\ Counted
      /\ BackgroundTyped /\ ManualKept
  BY DEF QueueInv
<1>2. /\ pc[t] = "room" /\ ~err
      /\ UNCHANGED <<room, log, seq, mem, imm, stored, l0, seek, err, sched, bg,
                     manual, left, mdone, closing, came>>
  BY DEF Queue!RoomEnough, Queue!InRoom
<1>3. /\ Len(queue) \in Nat /\ Len(queue) > 0 /\ 1 \in 1 .. Len(queue)
      /\ queue[1] = t /\ Head(queue) = t
      /\ asleep \in [Caller -> BOOLEAN] /\ err \in BOOLEAN /\ seq \in Nat
  BY <1>2, LeaderFacts DEF Leading
<1>4. CASE ~Batch(t)
  <2>1. Queue!Leave(t, 1, "ok", asleep)
    BY <1>4 DEF Queue!RoomEnough, Queue!IsBatch, Batch
  <2> QED
    BY <1>2, <1>3, <1>4, <2>1, LeavesKeep
<1>5. CASE Batch(t)
  <2>1. /\ pc' = [pc EXCEPT ![t] = "log"] /\ last' = Queue!BuildBatchGroup
        /\ UNCHANGED <<asleep, queue, status>>
    BY <1>5 DEF Queue!RoomEnough, Queue!IsBatch, Batch
  <2>2. /\ last' \in 1 .. Len(queue)
        /\ \A i \in 1 .. last' : Call[queue[i]] = "sync" => Call[t] = "sync"
    <3>1. \A i \in 1 .. last' : i = 1 \/ i \in 2 .. last'
      BY <1>1, <1>3, <2>1, GroupOfLeader
    <3> QED
      BY <1>1, <1>3, <2>1, <3>1, GroupOfLeader
  <2>3. pc'[t] = "log" /\ \A u \in Caller : u # t => pc'[u] = pc[u]
    BY <1>1, <2>1 DEF CallsTyped
  <2>4. CallsTyped'
    BY <1>1, <1>2, <1>3, <2>1, <2>2 DEF CallsTyped, CallStep
  <2>5. QueueOrder'
    <3>1. \A u \in Caller : InQueue(u)' <=> InQueue(u)
      BY <2>1 DEF InQueue
    <3>2. ASSUME NEW u \in Caller, u # t
          PROVE  pc'[u] = pc[u] /\ pc[u] \notin Leading
      BY <1>1, <1>3, <2>3, <3>2 DEF QueueOrder
    <3>3. InQueue(t) /\ status[t] = "none"
      BY <1>1, <1>2 DEF QueueOrder, Leading
    <3>4. ASSUME NEW u \in Caller
          PROVE  /\ InQueue(u)' <=> pc'[u] \in Leading \/ (pc'[u] = "queue" /\ status'[u] = "none")
                 /\ pc'[u] \in Leading => Len(queue') > 0 /\ queue'[1] = u
                 /\ status'[u] # "none" => pc'[u] \notin Leading \union {"start"}
                 /\ pc'[u] = "log" =>
                      /\ last' > 0 /\ Batch(u)
                      /\ \A i \in 1 .. last' : Call[queue'[i]] = "sync" => Call[u] = "sync"
      <4>1. CASE u = t
        BY <1>3, <1>5, <2>1, <2>2, <2>3, <3>1, <3>3, <4>1 DEF Leading
      <4>2. CASE u # t
        BY <1>1, <2>1, <3>1, <3>2, <4>2 DEF QueueOrder, Leading
      <4> QED
        BY <4>1, <4>2
    <3>5. \A i, j \in 1 .. Len(queue') : queue'[i] = queue'[j] => i = j
      BY <1>1, <2>1 DEF QueueOrder
    <3> QED
      BY <3>4, <3>5 DEF QueueOrder
  <2>6. LogKept'
    <3>1. LogTyped' /\ LogAnswered'
      BY <1>1, <1>2, <2>1 DEF LogKept, LogTyped, LogAnswered
    <3>2. LogFailed'
      BY <1>1, <1>2 DEF LogKept, LogFailed
    <3> QED
      BY <3>1, <3>2 DEF LogKept
  <2>7. ArrivalKept'
    <3>1. \A u \in Caller : pc'[u] # "start" => pc[u] # "start"
      BY <1>2, <2>3
    <3> QED
      BY <1>1, <1>2, <2>1, <3>1 DEF ArrivalKept
  <2>8. Applied' /\ Counted'
    BY <1>1, <1>2, <2>1 DEF Applied, Counted, ImmSet, Answered
  <2>9. BackgroundTyped' /\ ManualKept'
    BY <1>1, <1>2, <1>3, ScheduleKeeps DEF Scheduled
  <2> QED
    BY <2>4, <2>5, <2>6, <2>7, <2>8, <2>9 DEF QueueInv
<1> QED
  BY <1>4, <1>5

LEMMA GroupFacts ==
  ASSUME CallsTyped, QueueOrder, NEW t \in Caller, pc[t] = "log"
  PROVE  /\ last \in 1 .. Len(queue) /\ Len(queue) \in Nat /\ queue[1] = t /\ Batch(t)
         /\ DOMAIN Queue!Group = {i \in 1 .. last : Batch(queue[i])}
         /\ \A n \in DOMAIN Queue!Group :
              Queue!Group[n] = queue[n] /\ queue[n] \in Caller /\ n \in 1 .. Len(queue)
         /\ Cardinality(DOMAIN Queue!Group) \in Nat
         /\ Cardinality(DOMAIN Queue!Group) <= last
         /\ \A n \in 1 .. Len(queue) : n \in 1 .. Cardinality(Caller)
<1>1. /\ queue \in Seq(Caller) /\ Len(queue) \in Nat /\ last \in 1 .. Len(queue)
      /\ queue[1] = t /\ Batch(t)
  BY DEF CallsTyped, QueueOrder, Leading
<1>2. Queue!Group = [n \in {i \in 1 .. last : Batch(queue[i])} |-> queue[n]]
  BY DEF Queue!Group, Queue!IsBatch, Batch
<1>3. DOMAIN Queue!Group \subseteq 1 .. last
  BY <1>2
<1>4. IsFiniteSet(1 .. last) /\ Cardinality(1 .. last) = last
  BY <1>1, FS_Interval
<1>5. Cardinality(DOMAIN Queue!Group) \in Nat /\ Cardinality(DOMAIN Queue!Group) <= last
  BY <1>3, <1>4, FS_Subset, FS_CardinalityType
<1>6. Len(queue) <= Cardinality(Caller) /\ Cardinality(Caller) \in Nat
  <2>1. {queue[i] : i \in 1 .. Len(queue)} \subseteq Caller
    BY <1>1
  <2>2. Cardinality({queue[i] : i \in 1 .. Len(queue)}) = Len(queue)
    BY <1>1, PrefixCount
  <2> QED
    BY <2>1, <2>2, FS_Subset, FS_CardinalityType, QueueAssumption
<1>7. \A n \in 1 .. Len(queue) : n \in 1 .. Cardinality(Caller)
  BY <1>1, <1>6
<1>8. \A n \in DOMAIN Queue!Group :
        Queue!Group[n] = queue[n] /\ queue[n] \in Caller /\ n \in 1 .. Len(queue)
  BY <1>1, <1>2
<1> QED
  BY <1>1, <1>2, <1>5, <1>7, <1>8

\* What the record of a group does to the log and to the order of arrival.
LEMMA RecordKeepsLog ==
  ASSUME CallsTyped, QueueOrder, LogKept, ArrivalKept, Counted,
         NEW t \in Caller, pc[t] = "log", NEW st \in {"ok", "error"}, NEW synced \in BOOLEAN,
         Leaves(t, last, st), UNCHANGED came, err => err',
         log' = Append(log, [ids |-> Queue!Group, synced |-> synced, seq |-> seq + 1]),
         seq' = seq + Cardinality(DOMAIN Queue!Group),
         st = "ok" => synced = (Call[t] = "sync"),
         Call[t] = "sync" /\ ~synced => err'
  PROVE  LogKept' /\ ArrivalKept'
<1> DEFINE G == Queue!Group
           D == DOMAIN G
           new == [ids |-> G, synced |-> synced, seq |-> seq + 1]
           L == Len(log)
<1>1. /\ last \in 1 .. Len(queue) /\ Len(queue) \in Nat /\ queue[1] = t /\ Batch(t)
      /\ D = {i \in 1 .. last : Batch(queue[i])}
      /\ \A n \in D : G[n] = queue[n] /\ queue[n] \in Caller /\ n \in 1 .. Len(queue)
      /\ Cardinality(D) \in Nat
      /\ \A n \in D : n \in 1 .. Cardinality(Caller)
  BY GroupFacts
<1>2. seq \in Nat /\ seq' \in Nat /\ seq' = seq + Cardinality(D)
  BY <1>1 DEF Counted
<1>3. new \in Record
  <2>1. G \in [D -> Caller]
    BY <1>1 DEF Queue!Group
  <2>2. D \in SUBSET (1 .. Cardinality(Caller))
    BY <1>1
  <2>3. G \in UNION {[E -> Caller] : E \in SUBSET (1 .. Cardinality(Caller))}
    BY <2>1, <2>2
  <2> HIDE DEF G
  <2> QED
    BY <1>2, <2>3 DEF Record
<1>4. new.ids = G /\ new.synced = synced /\ new.seq = seq + 1
  OBVIOUS
<1> HIDE DEF G
<1> HIDE DEF new
<1>5. /\ log' \in Seq(Record) /\ Len(log') = L + 1 /\ L \in Nat
      /\ \A i \in 1 .. L : log'[i] = log[i]
      /\ log'[L + 1] = new
      /\ \A i \in 1 .. Len(log') : i \in 1 .. L \/ i = L + 1
  <2>1. log \in Seq(Record) /\ log' = Append(log, new)
    BY DEF LogKept, LogTyped, new, G
  <2> HIDE DEF Record
  <2> QED
    BY <1>3, <2>1
<1>6. ASSUME NEW u \in Caller
      PROVE  /\ status[u] # "none" => status'[u] = status[u]
             /\ pc'[u] # "log"
             /\ pc'[u] # "start" => pc[u] # "start"
  BY DEF QueueOrder, Leaves, Leading
<1>7. \A i \in 1 .. last : status[queue[i]] = "none" /\ status'[queue[i]] = st
  <2>1. \A i \in 1 .. last : i \in 1 .. Len(queue) /\ queue[i] \in Caller
    BY <1>1 DEF CallsTyped
  <2> QED
    BY <2>1 DEF Leaves
<1>8. LogTyped'
  <2>1. ASSUME NEW i \in 1 .. L
        PROVE  /\ log[i].seq \in Nat /\ SizeOf(log[i]) \in Nat
               /\ log[i].seq + SizeOf(log[i]) <= seq + 1
               /\ log[i].seq + SizeOf(log[i]) <= seq' + 1
    <3>1. log[i].seq \in Nat /\ SizeOf(log[i]) \in Nat /\ log[i].seq + SizeOf(log[i]) <= seq + 1
      BY DEF LogKept, LogTyped
    <3>2. seq \in Nat /\ seq' \in Nat /\ seq <= seq'
      <4> HIDE DEF D
      <4> QED
        BY <1>1, <1>2
    <3> QED
      BY <3>1, <3>2
  <2>2. SizeOf(new) = Cardinality(D)
    BY <1>4 DEF SizeOf
  <2>3. ASSUME NEW i \in 1 .. Len(log')
        PROVE  /\ log'[i].seq \in Nat /\ SizeOf(log'[i]) \in Nat
               /\ log'[i].seq + SizeOf(log'[i]) <= seq' + 1
    <3>1. CASE i \in 1 .. L
      <4>1. log'[i] = log[i] /\ SizeOf(log'[i]) = SizeOf(log[i])
        BY <1>5, <3>1
      <4> QED
        BY <2>1, <3>1, <4>1
    <3>2. CASE i = L + 1
      BY <1>1, <1>2, <1>4, <1>5, <2>2, <3>2
    <3> QED
      BY <1>5, <3>1, <3>2
  <2>5. ASSUME NEW i \in 1 .. Len(log'), NEW n \in DOMAIN log'[i].ids
        PROVE  n \in 1 .. Cardinality(Caller) /\ log'[i].ids[n] \in Caller
    <3>1. CASE i \in 1 .. L
      <4>1. log'[i] = log[i] /\ n \in DOMAIN log[i].ids
        BY <1>5, <3>1
      <4> QED
        BY <3>1, <4>1 DEF LogKept, LogTyped
    <3>2. CASE i = L + 1
      BY <1>1, <1>4, <1>5, <3>2
    <3> QED
      BY <1>5, <3>1, <3>2
  <2>4. ASSUME NEW i \in 1 .. Len(log'), NEW j \in 1 .. Len(log'), i < j
        PROVE  log'[i].seq + SizeOf(log'[i]) <= log'[j].seq
    <3>1. i \in 1 .. L
      BY <1>5, <2>4
    <3>2. CASE j \in 1 .. L
      BY <1>5, <2>4, <3>1, <3>2 DEF LogKept, LogTyped
    <3>3. CASE j = L + 1
      BY <1>4, <1>5, <2>1, <3>1, <3>3
    <3> QED
      BY <1>5, <3>2, <3>3
  <2> QED
    BY <1>5, <2>3, <2>4, <2>5 DEF LogTyped
<1>9. LogAnswered'
  <2>1. ASSUME NEW i \in 1 .. Len(log'), NEW n \in DOMAIN log'[i].ids
        PROVE  Batch(log'[i].ids[n]) /\ status'[log'[i].ids[n]] # "none"
    <3>1. CASE i \in 1 .. L
      <4>1. /\ log[i].ids[n] \in Caller /\ Batch(log[i].ids[n])
            /\ status[log[i].ids[n]] # "none" /\ log'[i] = log[i]
        BY <1>5, <3>1 DEF LogKept, LogTyped, LogAnswered
      <4> QED
        BY <1>6, <4>1
    <3>2. CASE i = L + 1
      BY <1>1, <1>4, <1>5, <1>7, <3>2
    <3> QED
      BY <1>5, <3>1, <3>2
  <2>2. ASSUME NEW u \in Caller, Call[u] = "sync", status'[u] = "ok"
        PROVE  \E i \in 1 .. Len(log') :
                 log'[i].synced /\ \E n \in DOMAIN log'[i].ids : log'[i].ids[n] = u
    <3>1. CASE \E i \in 1 .. last : queue[i] = u
      <4>1. PICK n \in 1 .. last : queue[n] = u
        BY <3>1
      <4>2. n \in D /\ G[n] = u
        BY <1>1, <2>2, <4>1 DEF Batch
      <4>3. st = "ok" /\ Call[t] = "sync"
        BY <1>7, <2>2, <4>1 DEF QueueOrder
      <4>4. L + 1 \in 1 .. Len(log')
        BY <1>5
      <4> QED
        BY <1>4, <1>5, <4>2, <4>3, <4>4
    <3>2. CASE ~\E i \in 1 .. last : queue[i] = u
      <4>1. status[u] = "ok"
        BY <2>2, <3>2 DEF Leaves
      <4>2. PICK i \in 1 .. L : log[i].synced /\ \E n \in DOMAIN log[i].ids : log[i].ids[n] = u
        BY <2>2, <4>1 DEF LogKept, LogAnswered
      <4>3. i \in 1 .. Len(log') /\ log'[i] = log[i]
        BY <1>5
      <4> QED
        BY <4>2, <4>3
    <3> QED
      BY <3>1, <3>2
  <2> QED
    BY <2>1, <2>2 DEF LogAnswered
<1>10. LogFailed'
  <2>1. \A i \in 1 .. L : ~(Call[log[i].ids[1]] = "sync" /\ ~log[i].synced)
    BY DEF LogKept, LogFailed
  <2>2. 1 \in D /\ G[1] = t
    BY <1>1
  <2> QED
    BY <1>4, <1>5, <1>6, <2>1, <2>2 DEF LogFailed
<1>11. ArrivalKept'
  <2>1. \A u \in Caller : Batch(u) /\ pc'[u] # "start" => \E a \in 1 .. Len(came) : came[a] = u
    BY <1>6 DEF ArrivalKept
  <2>2. /\ Len(queue') \in Nat
        /\ \A i \in 1 .. Len(queue') :
             i + last \in last + 1 .. Len(queue) /\ i + last \in 1 .. Len(queue)
             /\ queue'[i] = queue[i + last]
        /\ \A i, j \in 1 .. Len(queue') : i < j => i + last < j + last
        /\ \A n \in D : \A i \in 1 .. Len(queue') : n < i + last
    BY <1>1 DEF Leaves
  <2>3. \A i, j \in 1 .. Len(queue) :
          i < j /\ Batch(queue[i]) /\ Batch(queue[j]) => ArrivedBefore(came, queue[i], queue[j])
    BY DEF ArrivalKept
  <2>4. \A i, j \in 1 .. Len(queue') :
          i < j /\ Batch(queue'[i]) /\ Batch(queue'[j]) => ArrivedBefore(came, queue'[i], queue'[j])
    BY <2>2, <2>3
  <2>5. ASSUME NEW i \in 1 .. Len(log'), NEW n \in DOMAIN log'[i].ids,
               NEW j \in 1 .. Len(queue'), Batch(queue'[j])
        PROVE  ArrivedBefore(came, log'[i].ids[n], queue'[j])
    <3>0. j + last \in 1 .. Len(queue) /\ queue'[j] = queue[j + last] /\ Batch(queue[j + last])
      BY <2>2, <2>5
    <3>1. CASE i \in 1 .. L
      <4>1. log'[i] = log[i] /\ n \in DOMAIN log[i].ids
        BY <1>5, <3>1
      <4>2. ArrivedBefore(came, log[i].ids[n], queue[j + last])
        BY <3>0, <3>1, <4>1 DEF ArrivalKept
      <4> QED
        BY <3>0, <4>1, <4>2
    <3>2. CASE i = L + 1
      <4>1. log'[i].ids[n] = queue[n] /\ n \in D
        BY <1>1, <1>4, <1>5, <3>2
      <4>2. n \in 1 .. Len(queue) /\ Batch(queue[n]) /\ n < j + last
        BY <1>1, <2>2, <4>1
      <4> QED
        BY <2>3, <3>0, <4>1, <4>2
    <3> QED
      BY <1>5, <3>1, <3>2
  <2>6. ASSUME NEW i \in 1 .. Len(log'), NEW n \in DOMAIN log'[i].ids,
               NEW j \in 1 .. Len(log'), NEW k \in DOMAIN log'[j].ids,
               i < j \/ (i = j /\ n < k)
        PROVE  /\ log'[i].ids[n] # log'[j].ids[k]
               /\ ArrivedBefore(came, log'[i].ids[n], log'[j].ids[k])
    <3>1. CASE i \in 1 .. L /\ j \in 1 .. L
      <4>1. log'[i] = log[i] /\ log'[j] = log[j]
        BY <1>5, <3>1
      <4> QED
        BY <2>6, <3>1, <4>1 DEF ArrivalKept
    <3>2. CASE i \in 1 .. L /\ j = L + 1
      <4>1. log'[i] = log[i] /\ log'[j].ids[k] = queue[k] /\ k \in D
        BY <1>1, <1>4, <1>5, <3>2
      <4>2. k \in 1 .. Len(queue) /\ k \in 1 .. last /\ Batch(queue[k])
        BY <1>1, <4>1
      <4>3. ArrivedBefore(came, log[i].ids[n], queue[k])
        BY <3>2, <4>1, <4>2 DEF ArrivalKept
      <4>4. status[log[i].ids[n]] # "none" /\ status[queue[k]] = "none"
        BY <1>7, <3>2, <4>1, <4>2 DEF LogKept, LogAnswered
      <4> QED
        BY <4>1, <4>3, <4>4
    <3>3. CASE i = L + 1 /\ j = L + 1
      <4>1. /\ log'[i].ids[n] = queue[n] /\ log'[j].ids[k] = queue[k] /\ n \in D /\ k \in D
        BY <1>1, <1>4, <1>5, <3>3
      <4>2. n \in 1 .. Len(queue) /\ k \in 1 .. Len(queue) /\ Batch(queue[n]) /\ Batch(queue[k])
            /\ n < k
        BY <1>1, <1>5, <2>6, <3>3, <4>1
      <4>3. queue[n] # queue[k]
        BY <4>2 DEF QueueOrder
      <4> QED
        BY <2>3, <4>1, <4>2, <4>3
    <3> QED
      BY <1>5, <2>6, <3>1, <3>2, <3>3
  <2> QED
    BY <2>1, <2>4, <2>5, <2>6 DEF ArrivalKept
<1> QED
  BY <1>8, <1>9, <1>10, <1>11 DEF LogKept

\* The group is in the log and in the memtable, and its members return ok.
LEMMA LogGroupKeeps ==
  ASSUME QueueInv, NEW t \in Caller, Queue!LogGroup(t)
  PROVE  QueueInv'
<1> DEFINE G == Queue!Group
           D == DOMAIN G
<1>1. /\ CallsTyped /\ QueueOrder /\ ArrivalKept /\ LogKept /\ Applied /\ Counted
      /\ BackgroundTyped /\ ManualKept
  BY DEF QueueInv
<1>2. /\ pc[t] = "log"
      /\ log' = Append(log, [ids |-> G, synced |-> Call[t] = "sync", seq |-> seq + 1])
      /\ mem' = mem \union Queue!Range(G)
      /\ seq' = seq + Queue!Cardinality(D)
      /\ Queue!Leave(t, last, "ok", asleep)
      /\ UNCHANGED <<room, imm, stored, l0, seek, err, sched, bg, manual, left, mdone,
                     closing, came>>
  BY DEF Queue!LogGroup
<1>3. /\ last \in 1 .. Len(queue) /\ Len(queue) \in Nat /\ queue[1] = t /\ Batch(t)
      /\ D = {i \in 1 .. last : Batch(queue[i])}
      /\ \A n \in D : G[n] = queue[n] /\ queue[n] \in Caller /\ n \in 1 .. Len(queue)
      /\ Cardinality(D) \in Nat /\ Cardinality(D) <= last
  BY <1>1, <1>2, GroupFacts
<1> HIDE DEF G
<1>4. Leaves(t, last, "ok") /\ asleep' \in [Caller -> BOOLEAN]
  <2>1. asleep \in [Caller -> BOOLEAN]
    BY <1>1 DEF CallsTyped
  <2> QED
    BY <1>1, <1>2, <1>3, <2>1, LeaveStep
<1>5. CallsTyped' /\ QueueOrder'
  BY <1>1, <1>2, <1>4, LeaveKeepsQueue
<1>6. seq \in Nat /\ seq' = seq + Cardinality(D)
  BY <1>1, <1>2, QueueCardinality DEF Counted
<1>7. LogKept' /\ ArrivalKept'
  <2>1. (Call[t] = "sync") \in BOOLEAN
    OBVIOUS
  <2>2. PICK b \in BOOLEAN : b = (Call[t] = "sync")
    BY <2>1
  <2>3. log' = Append(log, [ids |-> Queue!Group, synced |-> b, seq |-> seq + 1])
    BY <1>2, <2>2 DEF G
  <2>4. seq' = seq + Cardinality(DOMAIN Queue!Group)
    BY <1>6 DEF G
  <2> QED
    BY <1>1, <1>2, <1>4, <2>2, <2>3, <2>4, RecordKeepsLog
<1>8. ASSUME NEW u
      PROVE  u \in mem' <=> u \in mem \/ \E n \in D : queue[n] = u
  BY <1>2, <1>3 DEF Queue!Range
<1>9. \A u \in Caller :
        (\E n \in D : queue[n] = u) <=> Batch(u) /\ \E n \in 1 .. last : queue[n] = u
  BY <1>3
<1>10. Applied'
  <2>1. ImmSet' = ImmSet /\ stored' = stored
    BY <1>2 DEF ImmSet
  <2>2. ASSUME NEW n \in D
        PROVE  queue[n] \in Caller /\ queue[n] \notin mem \union stored \union ImmSet
    <3>1. queue[n] \in Caller /\ status[queue[n]] = "none"
      BY <1>3, <1>4 DEF Leaves
    <3> QED
      BY <1>1, <3>1 DEF Applied
  <2>3. mem' \subseteq Caller /\ mem' \cap stored = {} /\ mem' \cap ImmSet = {}
    BY <1>1, <1>8, <2>2 DEF Applied
  <2>4. ASSUME NEW u \in Caller
        PROVE  IF u \in mem' \union stored \union ImmSet
               THEN Batch(u) /\ status'[u] = "ok"
               ELSE Batch(u) => status'[u] # "ok"
    <3>1. CASE \E n \in 1 .. last : queue[n] = u
      <4>1. status'[u] = "ok" /\ status[u] = "none"
        BY <1>4, <3>1 DEF Leaves
      <4>2. u \notin mem \union stored \union ImmSet
        BY <1>1, <4>1 DEF Applied
      <4>3. u \in mem' <=> Batch(u)
        BY <1>8, <1>9, <3>1, <4>2
      <4> QED
        BY <4>1, <4>2, <4>3
    <3>2. CASE ~\E n \in 1 .. last : queue[n] = u
      <4>1. status'[u] = status[u]
        BY <1>4, <3>2 DEF Leaves
      <4>2. u \in mem' <=> u \in mem
        BY <1>8, <1>9, <3>2
      <4> QED
        BY <1>1, <4>1, <4>2 DEF Applied
    <3> QED
      BY <3>1, <3>2
  <2>5. imm' = << >> \/ \E S \in SUBSET Caller : imm' = <<S>>
    BY <1>1, <1>2 DEF Applied
  <2> QED
    BY <1>1, <2>1, <2>3, <2>4, <2>5 DEF Applied
<1>11. Counted'
  <2>1. /\ Cardinality(Answered) \in Nat
        /\ Cardinality(Answered') = Cardinality(Answered) + last
    BY <1>1, <1>4, LeaveCounts
  <2>2. seq' \in Nat /\ seq' <= Cardinality(Answered')
    <3>1. seq <= Cardinality(Answered)
      BY <1>1 DEF Counted
    <3> QED
      BY <1>3, <1>6, <2>1, <3>1
  <2> QED
    BY <1>1, <1>2, <2>2 DEF Counted
<1>12. BackgroundTyped' /\ ManualKept'
  BY <1>1, <1>2, ScheduleKeeps DEF Scheduled, BackgroundTyped
<1> QED
  BY <1>5, <1>7, <1>10, <1>11, <1>12 DEF QueueInv

\* A failed sync: the record may be in the log, nobody is answered ok, and
\* the error stays.
LEMMA SyncFailsKeeps ==
  ASSUME QueueInv, NEW t \in Caller, Queue!SyncFails(t)
  PROVE  QueueInv'
<1> DEFINE G == Queue!Group
           D == DOMAIN G
<1>1. /\ CallsTyped /\ QueueOrder /\ ArrivalKept /\ LogKept /\ Applied /\ Counted
      /\ BackgroundTyped /\ ManualKept
  BY DEF QueueInv
<1>2. /\ pc[t] = "log" /\ Call[t] = "sync" /\ err' = TRUE
      /\ log' = Append(log, [ids |-> G, synced |-> FALSE, seq |-> seq + 1])
      /\ seq' = seq + Queue!Cardinality(D)
      /\ Queue!Leave(t, last, "error", Queue!WakeBg(asleep))
      /\ UNCHANGED <<room, mem, imm, stored, l0, seek, sched, bg, manual, left, mdone,
                     closing, came>>
  BY DEF Queue!SyncFails
<1>3. /\ last \in 1 .. Len(queue) /\ Len(queue) \in Nat /\ last \in Nat
      /\ Cardinality(D) \in Nat /\ Cardinality(D) <= last
  <2>1. /\ last \in 1 .. Len(queue) /\ Len(queue) \in Nat
        /\ Cardinality(D) \in Nat /\ Cardinality(D) <= last
    BY <1>1, <1>2, GroupFacts
  <2> HIDE DEF G
  <2> QED
    BY <2>1
<1> HIDE DEF G
<1>4. Leaves(t, last, "error") /\ asleep' \in [Caller -> BOOLEAN]
  <2>1. Queue!WakeBg(asleep) \in [Caller -> BOOLEAN]
    BY <1>1 DEF Queue!WakeBg, CallsTyped
  <2> QED
    BY <1>1, <1>2, <1>3, <2>1, LeaveStep
<1>5. CallsTyped' /\ QueueOrder'
  BY <1>1, <1>2, <1>4, LeaveKeepsQueue
<1>6. seq \in Nat /\ seq' \in Nat /\ seq' <= seq + last /\ seq' = seq + Cardinality(D)
  BY <1>1, <1>2, <1>3, QueueCardinality DEF Counted
<1>7. LogKept' /\ ArrivalKept'
  <2>1. PICK b \in BOOLEAN : b = FALSE
    OBVIOUS
  <2>2. /\ log' = Append(log, [ids |-> Queue!Group, synced |-> b, seq |-> seq + 1])
        /\ seq' = seq + Cardinality(DOMAIN Queue!Group)
    BY <1>2, <1>6, <2>1 DEF G
  <2> QED
    BY <1>1, <1>2, <1>4, <2>2, RecordKeepsLog
<1>8. Applied' /\ Counted'
  BY <1>1, <1>2, <1>4, <1>6, LeaveKeepsApplied
<1>9. BackgroundTyped' /\ ManualKept'
  BY <1>1, <1>2, ScheduleKeeps DEF Scheduled
<1> QED
  BY <1>5, <1>7, <1>8, <1>9 DEF QueueInv

\* What the background thread and the destructor do to the memtables, when
\* they store no memtable.
LEMMA AppliedKept ==
  ASSUME Applied, Counted, UNCHANGED <<mem, imm, stored, status, seq>>,
         l0' \in Nat, l0' <= l0
  PROVE  Applied' /\ Counted'
<1>1. ImmSet' = ImmSet /\ Answered' = Answered
  BY DEF ImmSet, Answered
<1>2. Cardinality(stored) \in Nat
  <2>1. stored \subseteq Caller
    BY DEF Applied
  <2> QED
    BY <2>1, FS_Subset, FS_CardinalityType, QueueAssumption
<1>3. Applied'
  BY <1>1 DEF Applied
<1>4. Counted'
  <2>1. l0 \in Nat /\ l0 <= Cardinality(stored)
    BY DEF Counted
  <2>2. l0' <= Cardinality(stored)
    BY <1>2, <2>1
  <2> QED
    BY <1>1, <2>2 DEF Counted
<1> QED
  BY <1>3, <1>4

\* imm_ is written to a table.
LEMMA FlushKeepsApplied ==
  ASSUME Applied, Counted, imm # << >>, imm' = << >>, stored' = stored \union imm[1],
         l0' \in {l0, l0 + 1}, imm[1] = {} => l0' = l0, UNCHANGED <<mem, status, seq>>
  PROVE  Applied' /\ Counted'
<1>1. PICK S \in SUBSET Caller : imm = <<S>>
  BY DEF Applied
<1>2. imm[1] = S /\ ImmSet = S /\ ImmSet' = {}
  BY <1>1 DEF ImmSet
<1>3. stored' = stored \union S /\ S \cap stored = {} /\ S \cap mem = {} /\ stored \subseteq Caller
  BY <1>2 DEF Applied
<1>4. Applied'
  <2>1. \A t \in Caller : t \in mem' \union stored' \union ImmSet' <=>
                          t \in mem \union stored \union ImmSet
    BY <1>2, <1>3
  <2>2. \A t \in Caller :
          IF t \in mem' \union stored' \union ImmSet'
          THEN Batch(t) /\ status'[t] = "ok"
          ELSE Batch(t) => status'[t] # "ok"
    BY <2>1 DEF Applied
  <2>3. /\ mem' \subseteq Caller /\ stored' \subseteq Caller
        /\ mem' \cap stored' = {} /\ mem' \cap ImmSet' = {} /\ ImmSet' \cap stored' = {}
    BY <1>1, <1>2, <1>3 DEF Applied
  <2> QED
    BY <2>2, <2>3 DEF Applied
<1>5. Counted'
  <2>1. IsFiniteSet(stored) /\ IsFiniteSet(S)
    BY <1>3, FS_Subset, QueueAssumption
  <2>2. /\ Cardinality(stored) \in Nat /\ Cardinality(S) \in Nat /\ Cardinality({}) = 0
        /\ S # {} => Cardinality(S) # 0
    BY <2>1, FS_CardinalityType, FS_EmptySet
  <2>3. Cardinality(stored \union S) = Cardinality(stored) + Cardinality(S) - 0
    <3>1. Cardinality(stored \union S)
            = Cardinality(stored) + Cardinality(S) - Cardinality(stored \cap S)
      BY <2>1, FS_Union
    <3>2. stored \cap S = {}
      BY <1>3
    <3> QED
      BY <2>2, <3>1, <3>2
  <2>4. l0 \in Nat /\ l0 <= Cardinality(stored)
    BY DEF Counted
  <2>5. l0' \in Nat /\ l0' <= Cardinality(stored')
    <3>1. CASE S = {}
      <4>1. stored' = stored /\ l0' = l0
        BY <1>2, <1>3, <3>1
      <4> QED
        BY <2>4, <4>1
    <3>2. CASE S # {}
      <4>1. Cardinality(S) >= 1
        BY <2>2, <3>2
      <4>2. Cardinality(stored') = Cardinality(stored) + Cardinality(S)
        <5>1. Cardinality(stored') = Cardinality(stored \union S)
          BY <1>3
        <5> QED
          BY <2>2, <2>3, <5>1
      <4>3. l0' = l0 \/ l0' = l0 + 1
        OBVIOUS
      <4> QED
        BY <2>2, <2>4, <4>1, <4>2, <4>3
    <3> QED
      BY <3>1, <3>2
  <2>6. Answered' = Answered
    BY DEF Answered
  <2> QED
    BY <2>5, <2>6 DEF Counted
<1> QED
  BY <1>4, <1>5

LEMMA WakeBgTyped ==
  ASSUME CallsTyped PROVE Queue!WakeBg(asleep) \in [Caller -> BOOLEAN]
BY DEF Queue!WakeBg, CallsTyped

LEMMA BackgroundCallKeeps ==
  ASSUME QueueInv, Queue!BackgroundCall
  PROVE  QueueInv'
<1>1. /\ CallsTyped /\ QueueOrder /\ ArrivalKept /\ LogKept /\ Applied /\ Counted
      /\ BackgroundTyped /\ ManualKept
  BY DEF QueueInv
<1>2. /\ bg = "queued"
      /\ UNCHANGED <<pc, queue, status, room, last, log, seq, mem, imm, stored, l0,
                     seek, err, left, came>>
      /\ asleep' = asleep \/ asleep' = Queue!WakeBg(asleep)
  BY DEF Queue!BackgroundCall, Queue!BgEnds
<1>3. CallsTyped' /\ QueueOrder' /\ LogKept' /\ ArrivalKept'
  <2>1. asleep' \in [Caller -> BOOLEAN]
    BY <1>1, <1>2, WakeBgTyped DEF CallsTyped
  <2> QED
    BY <1>1, <1>2, <2>1, CallsKept
<1>4. Applied' /\ Counted'
  <2>1. l0' \in Nat /\ l0' <= l0
    BY <1>1, <1>2 DEF Counted
  <2> QED
    BY <1>1, <1>2, <2>1, AppliedKept
<1>5. BackgroundTyped' /\ ManualKept'
  <2> USE <1>1, <1>2, QueueAssumption
      DEF BackgroundTyped, ManualKept, Queue!BackgroundCall, Queue!BgEnds
  <2>1. CASE Queue!Shutting \/ err
    BY <2>1
  <2>2. CASE ~(Queue!Shutting \/ err) /\ imm # << >>
    BY <2>2
  <2>3. CASE ~(Queue!Shutting \/ err) /\ ~(imm # << >>) /\ manual # NoCaller
    <3>1. manual \in Caller /\ left[manual] \in 0 .. Pieces /\ ~mdone[manual]
      BY <2>3
    <3>2. CASE left[manual] = 0
      BY <2>3, <3>1, <3>2
    <3>3. CASE left[manual] # 0
      <4>1. left[manual] > 0
        BY <3>1, <3>3
      <4>2. bg' = "manual" /\ UNCHANGED <<sched, asleep, manual, mdone, closing>>
        BY <2>3, <3>3
      <4> QED
        BY <3>1, <4>1, <4>2
    <3> QED
      BY <3>2, <3>3
  <2>4. CASE ~(Queue!Shutting \/ err) /\ ~(imm # << >>) /\ ~(manual # NoCaller)
    BY <2>4
  <2> QED
    BY <2>1, <2>2, <2>3, <2>4
<1> QED
  BY <1>3, <1>4, <1>5 DEF QueueInv

LEMMA FlushesKeep ==
  ASSUME QueueInv, FlushHasWork, Queue!FlushEnds \/ Queue!NestedFlush
  PROVE  QueueInv'
<1>1. /\ CallsTyped /\ QueueOrder /\ ArrivalKept /\ LogKept /\ Applied /\ Counted
      /\ BackgroundTyped /\ ManualKept
  BY DEF QueueInv
<1>2. /\ UNCHANGED <<pc, queue, status, room, last, log, seq, mem, manual, left, mdone,
                     came>>
      /\ asleep' = Queue!WakeBg(asleep)
      /\ imm # << >>
      /\ \/ /\ imm' = << >> /\ stored' = stored \union imm[1]
            /\ l0' \in {l0, l0 + 1} /\ (imm[1] = {} => l0' = l0) /\ err' = err
         \/ err' = TRUE /\ UNCHANGED <<imm, stored, l0>>
      /\ bg = "flush" => sched' = (bg' # "none") /\ bg' \in {"none", "queued"}
      /\ bg # "flush" => UNCHANGED <<sched, bg>>
  BY DEF Queue!FlushEnds, Queue!NestedFlush, Queue!BgEnds, FlushHasWork
<1>3. err' \in BOOLEAN /\ (err => err')
  <2>1. err' = err \/ err' = TRUE
    BY <1>2
  <2> QED
    BY <1>1, <2>1 DEF BackgroundTyped
<1>4. CallsTyped' /\ QueueOrder' /\ LogKept' /\ ArrivalKept'
  <2>1. asleep' \in [Caller -> BOOLEAN]
    BY <1>1, <1>2, WakeBgTyped
  <2> QED
    BY <1>1, <1>2, <1>3, <2>1, CallsKept
<1>5. Applied' /\ Counted'
  <2>1. CASE imm' = << >> /\ stored' = stored \union imm[1] /\ l0' \in {l0, l0 + 1}
             /\ (imm[1] = {} => l0' = l0)
    BY <1>1, <1>2, <2>1, FlushKeepsApplied
  <2>2. CASE UNCHANGED <<imm, stored, l0>>
    <3>1. l0' \in Nat /\ l0' <= l0
      BY <1>1, <2>2 DEF Counted
    <3> QED
      BY <1>1, <1>2, <2>2, <3>1, AppliedKept
  <2> QED
    BY <1>2, <2>1, <2>2
<1>6. BackgroundTyped' /\ ManualKept'
  BY <1>1, <1>2, <1>3 DEF BackgroundTyped, ManualKept
<1> QED
  BY <1>4, <1>5, <1>6 DEF QueueInv

LEMMA CompactionEndsKeeps ==
  ASSUME QueueInv, Queue!CompactionEnds
  PROVE  QueueInv'
<1>1. /\ CallsTyped /\ QueueOrder /\ ArrivalKept /\ LogKept /\ Applied /\ Counted
      /\ BackgroundTyped /\ ManualKept
  BY DEF QueueInv
<1>2. /\ bg \in {"manual", "auto"} /\ (bg = "manual" => manual # NoCaller)
      /\ UNCHANGED <<pc, queue, status, room, last, log, seq, mem, imm, stored, came>>
      /\ asleep' = Queue!WakeBg(asleep)
      /\ manual' = IF bg = "manual" THEN NoCaller ELSE manual
      /\ sched' = (bg' # "none") /\ bg' \in {"none", "queued"}
  BY DEF Queue!CompactionEnds, Queue!BgEnds
<1>3. \/ /\ l0' \in 0 .. l0 /\ err' = err /\ mdone' = mdone
         /\ left' = IF bg = "manual" THEN [left EXCEPT ![manual] = @ - 1] ELSE left
      \/ /\ err' = TRUE /\ UNCHANGED <<l0, left>>
         /\ mdone' = IF bg = "manual" THEN [mdone EXCEPT ![manual] = TRUE] ELSE mdone
  <2>1. l0 \in Nat
    BY <1>1 DEF Counted
  <2> QED
    BY <2>1 DEF Queue!CompactionEnds
<1>4. err' \in BOOLEAN /\ (err => err') /\ l0' \in Nat /\ l0' <= l0
  <2>1. err' = err \/ err' = TRUE
    BY <1>3
  <2>2. err' \in BOOLEAN /\ (err => err')
    BY <1>1, <2>1 DEF BackgroundTyped
  <2>3. l0' \in 0 .. l0 \/ l0' = l0
    BY <1>3
  <2>4. l0' \in Nat /\ l0' <= l0
    BY <1>1, <2>3 DEF Counted
  <2> QED
    BY <2>2, <2>4
<1>5. CallsTyped' /\ QueueOrder' /\ LogKept' /\ ArrivalKept'
  <2>1. asleep' \in [Caller -> BOOLEAN]
    BY <1>1, <1>2, WakeBgTyped
  <2> QED
    BY <1>1, <1>2, <1>4, <2>1, CallsKept
<1>6. Applied' /\ Counted'
  BY <1>1, <1>2, <1>4, AppliedKept
<1>7. BackgroundTyped' /\ ManualKept'
  <2>1. /\ left \in [Caller -> 0 .. Pieces] /\ mdone \in [Caller -> BOOLEAN]
        /\ manual \in Caller \union {NoCaller} /\ Pieces \in Nat
        /\ bg = "manual" => manual \in Caller /\ left[manual] > 0 /\ left[manual] \in 0 .. Pieces
    BY <1>1, <1>2, QueueAssumption DEF BackgroundTyped, ManualKept
  <2>2. left' \in [Caller -> 0 .. Pieces]
    <3>1. left' = left \/ (bg = "manual" /\ left' = [left EXCEPT ![manual] = @ - 1])
      BY <1>3
    <3>2. bg = "manual" => left[manual] - 1 \in 0 .. Pieces
      BY <2>1
    <3> QED
      BY <2>1, <3>1, <3>2
  <2>4. mdone' \in [Caller -> BOOLEAN]
    <3>1. mdone' = mdone \/ (bg = "manual" /\ mdone' = [mdone EXCEPT ![manual] = TRUE])
      BY <1>3
    <3> QED
      BY <2>1, <3>1
  <2>3. manual' # NoCaller => ~mdone'[manual']
    BY <1>1, <1>2, <1>3 DEF ManualKept
  <2> QED
    BY <1>2, <1>4, <2>1, <2>2, <2>3, <2>4 DEF BackgroundTyped, ManualKept
<1> QED
  BY <1>5, <1>6, <1>7 DEF QueueInv

LEMMA EndsKeep ==
  ASSUME QueueInv, Queue!ManualGone \/ Queue!CloseBegins \/ Queue!CloseWaits \/ Queue!Terminated
  PROVE  QueueInv'
<1>1. /\ CallsTyped /\ QueueOrder /\ ArrivalKept /\ LogKept /\ Applied /\ Counted
      /\ BackgroundTyped /\ ManualKept
  BY DEF QueueInv
<1>2. /\ UNCHANGED <<pc, asleep, queue, status, last, log, seq, mem, imm, stored, l0, err,
                     sched, manual, left, mdone, came>>
      /\ bg' = bg \/ (bg = "manual" /\ bg' = "crashed")
  BY DEF Queue!ManualGone, Queue!CloseBegins, Queue!CloseWaits, Queue!Terminated, Queue!vars
<1>3. CallsTyped' /\ QueueOrder' /\ LogKept' /\ ArrivalKept'
  <2>1. asleep' \in [Caller -> BOOLEAN]
    BY <1>1, <1>2 DEF CallsTyped
  <2> QED
    BY <1>1, <1>2, <2>1, CallsKept
<1>4. Applied' /\ Counted'
  <2>1. l0' \in Nat /\ l0' <= l0
    BY <1>1, <1>2 DEF Counted
  <2> QED
    BY <1>1, <1>2, <2>1, AppliedKept
<1>5. BackgroundTyped' /\ ManualKept'
  BY <1>1, <1>2 DEF BackgroundTyped, ManualKept
<1> QED
  BY <1>3, <1>4, <1>5 DEF QueueInv

LEMMA FlushNext ==
  ASSUME FlushHasWork, BackgroundTyped, [Queue!Next]_queueVars
  PROVE  FlushHasWork'
<1>1. CASE \E t \in Caller : Queue!Step(t)
  <2>1. PICK t \in Caller : Queue!Step(t)
    BY <1>1
  <2>2. bg' = "flush" => bg = "flush"
    BY <2>1 DEF Queue!Step, Queue!Enqueue, Queue!Await, Queue!RoomError, Queue!RoomDelay,
         Queue!RoomNapEnds, Queue!RoomEnough, Queue!RoomWait, Queue!RoomSwitch,
         Queue!RoomSwitchFails, Queue!LogGroup, Queue!AddRecordFails, Queue!SyncFails,
         Queue!ImmLoop, Queue!ManualLoop, Queue!GetEnds, Queue!MaybeScheduleCompaction
  <2>3. imm' = imm \/ imm' = <<mem>>
    BY <2>1 DEF Queue!Step, Queue!Enqueue, Queue!Await, Queue!RoomError, Queue!RoomDelay,
         Queue!RoomNapEnds, Queue!RoomEnough, Queue!RoomWait, Queue!RoomSwitch,
         Queue!RoomSwitchFails, Queue!LogGroup, Queue!AddRecordFails, Queue!SyncFails,
         Queue!ImmLoop, Queue!ManualLoop, Queue!GetEnds
  <2> QED
    BY <2>2, <2>3 DEF FlushHasWork
<1>2. CASE Queue!Background
  BY <1>2 DEF Queue!Background, Queue!BackgroundCall, Queue!FlushEnds, Queue!NestedFlush,
       Queue!CompactionEnds, Queue!ManualGone, Queue!BgEnds, FlushHasWork
<1>3. CASE Queue!CloseBegins \/ Queue!CloseWaits \/ Queue!Terminated \/ UNCHANGED queueVars
  BY <1>3 DEF Queue!CloseBegins, Queue!CloseWaits, Queue!Terminated, Queue!vars, queueVars,
       FlushHasWork
<1> QED
  BY <1>1, <1>2, <1>3 DEF Queue!Next

LEMMA QueueNext ==
  ASSUME QueueInv, FlushHasWork, Queue!Next
  PROVE  QueueInv'
<1>1. ASSUME NEW t \in Caller, Queue!Step(t)
      PROVE  QueueInv'
  <2>1. CASE Queue!Enqueue(t)
    BY <2>1, EnqueueKeeps
  <2>2. CASE \/ Queue!Await(t) \/ Queue!RoomDelay(t) \/ Queue!RoomNapEnds(t)
             \/ Queue!RoomWait(t) \/ Queue!ImmLoop(t) \/ Queue!GetEnds(t)
    BY <2>2, MovesKeep
  <2>3. CASE Queue!RoomError(t) \/ Queue!RoomSwitchFails(t)
    BY <2>3, RoomFailsKeep
  <2>4. CASE Queue!RoomEnough(t)
    BY <2>4, RoomEnoughKeeps
  <2>5. CASE Queue!RoomSwitch(t)
    BY <2>5, RoomSwitchKeeps
  <2>6. CASE Queue!LogGroup(t)
    BY <2>6, LogGroupKeeps
  <2>7. CASE Queue!AddRecordFails(t)
    BY <2>7, AddRecordFailsKeeps
  <2>8. CASE Queue!SyncFails(t)
    BY <2>8, SyncFailsKeeps
  <2>9. CASE Queue!ManualLoop(t)
    BY <2>9, ManualLoopKeeps
  <2> QED
    BY <1>1, <2>1, <2>2, <2>3, <2>4, <2>5, <2>6, <2>7, <2>8, <2>9 DEF Queue!Step
<1>2. CASE Queue!Background
  <2>1. CASE Queue!BackgroundCall
    BY <2>1, BackgroundCallKeeps
  <2>2. CASE Queue!FlushEnds \/ Queue!NestedFlush
    BY <2>2, FlushesKeep
  <2>3. CASE Queue!CompactionEnds
    BY <2>3, CompactionEndsKeeps
  <2>4. CASE Queue!ManualGone
    BY <2>4, EndsKeep
  <2> QED
    BY <1>2, <2>1, <2>2, <2>3, <2>4 DEF Queue!Background
<1>3. CASE Queue!CloseBegins \/ Queue!CloseWaits \/ Queue!Terminated
  BY <1>3, EndsKeep
<1> QED
  BY <1>1, <1>2, <1>3 DEF Queue!Next

\* Nothing of the queue depends on variables other than its own.
LEMMA QueueUnchanged ==
  ASSUME QueueInv, UNCHANGED queueVars
  PROVE  QueueInv'
<1>1. UNCHANGED <<pc, asleep, queue, status, last, log, seq, mem, imm, stored, l0, err,
                  sched, bg, manual, left, mdone, came>>
  BY DEF queueVars
<1>2. CallsTyped' /\ BackgroundTyped' /\ QueueOrder' /\ ManualKept'
  BY <1>1 DEF QueueInv, CallsTyped, BackgroundTyped, QueueOrder, ManualKept, InQueue
<1>3. Applied' /\ Counted'
  BY <1>1 DEF QueueInv, Applied, Counted, ImmSet, Answered
<1>4. LogKept' /\ ArrivalKept'
  BY <1>1 DEF QueueInv, LogKept, LogTyped, LogAnswered, LogFailed, ArrivalKept
<1> QED
  BY <1>2, <1>3, <1>4 DEF QueueInv

\* What QueueSound promises, from the invariant.
LEMMA QueueOneLeader ==
  ASSUME QueueInv
  PROVE  Queue!OneLeader /\ Queue!NothingAfterFailedSync
<1>1. Queue!OneLeader
  <2>1. \A t \in Caller : pc[t] \in Leading => Len(queue) > 0 /\ queue[1] = t
    BY DEF QueueInv, QueueOrder
  <2>2. queue \in Seq(Caller)
    BY DEF QueueInv, CallsTyped
  <2>3. Len(queue) > 0 => queue # << >> /\ Head(queue) = queue[1]
    BY <2>2
  <2> QED
    BY <2>1, <2>3 DEF Queue!OneLeader, Leading
<1>2. Queue!NothingAfterFailedSync
  <2>1. log \in Seq(Record) /\ LogFailed
    BY DEF QueueInv, LogKept, LogTyped
  <2> HIDE DEF Record
  <2>2. DOMAIN log = 1 .. Len(log)
    BY <2>1
  <2> QED
    BY <2>1, <2>2 DEF Queue!NothingAfterFailedSync, LogFailed
<1> QED
  BY <1>1, <1>2

LEMMA QueueTyped ==
  ASSUME QueueInv
  PROVE  Queue!QueueTypeOK
<1>1. CallsTyped /\ BackgroundTyped /\ QueueOrder /\ Applied /\ Counted
  BY DEF QueueInv
<1>2. /\ pc \in [Caller -> {"start", "queue", "room", "nap", "log", "imm", "man", "done"}]
      /\ asleep \in [Caller -> BOOLEAN] /\ status \in [Caller -> {"none", "ok", "error"}]
  BY <1>1 DEF CallsTyped, CallStep
<1>3. queue \in Seq(Caller) /\ last \in 0 .. Len(queue)
  BY <1>1 DEF CallsTyped
<1>4. Queue!IsInjective(queue) /\ Queue!ToSet(queue) \subseteq Caller
  <2>1. DOMAIN queue = 1 .. Len(queue) /\ \A i \in 1 .. Len(queue) : queue[i] \in Caller
    BY <1>3
  <2>2. \A i, j \in 1 .. Len(queue) : queue[i] = queue[j] => i = j
    BY <1>1 DEF QueueOrder
  <2> QED
    BY <2>1, <2>2 DEF Queue!IsInjective, Queue!ToSet
<1>5. seq \in 0 .. Queue!Cardinality(Caller) /\ l0 \in 0 .. Queue!Cardinality(Caller)
  <2>1. Answered \subseteq Caller /\ stored \subseteq Caller
    BY <1>1 DEF Answered, Applied
  <2>2. /\ Cardinality(Answered) <= Cardinality(Caller)
        /\ Cardinality(stored) <= Cardinality(Caller)
        /\ Cardinality(Answered) \in Nat /\ Cardinality(stored) \in Nat
        /\ Cardinality(Caller) \in Nat
    BY <2>1, FS_Subset, FS_CardinalityType, QueueAssumption
  <2>3. seq \in Nat /\ seq <= Cardinality(Answered) /\ l0 \in Nat /\ l0 <= Cardinality(stored)
    BY <1>1 DEF Counted
  <2>4. seq \in 0 .. Cardinality(Caller) /\ l0 \in 0 .. Cardinality(Caller)
    BY <2>2, <2>3
  <2> QED
    BY <2>4, QueueCardinality
<1>6. Len(imm) <= 1
  BY <1>1 DEF Applied
<1>7. /\ manual \in Caller \union {NoCaller} /\ left \in [Caller -> 0 .. Pieces]
      /\ bg \in {"none", "queued", "flush", "manual", "auto", "crashed"}
      /\ sched = (bg # "none")
  BY <1>1 DEF BackgroundTyped
<1> QED
  BY <1>2, <1>3, <1>4, <1>5, <1>6, <1>7 DEF Queue!QueueTypeOK

LEMMA QueueApplies ==
  ASSUME QueueInv
  PROVE  Queue!AppliedOnceInOrder
<1>1. log \in Seq(Record) /\ came \in Seq(Caller) /\ Applied /\ ArrivalKept
  BY DEF QueueInv, LogKept, LogTyped, CallsTyped
<1> HIDE DEF Record
<1>2. DOMAIN log = 1 .. Len(log) /\ DOMAIN came = 1 .. Len(came)
  BY <1>1
<1>3. ASSUME NEW p \in Queue!Place, NEW q \in Queue!Place, Queue!Before(p, q)
      PROVE  /\ Queue!IdAt(p) # Queue!IdAt(q)
             /\ \E a, b \in DOMAIN came :
                  a < b /\ came[a] = Queue!IdAt(p) /\ came[b] = Queue!IdAt(q)
  <2>1. /\ p[1] \in 1 .. Len(log) /\ p[2] \in DOMAIN log[p[1]].ids
        /\ q[1] \in 1 .. Len(log) /\ q[2] \in DOMAIN log[q[1]].ids
    BY <1>2 DEF Queue!Place
  <2>2. p[1] < q[1] \/ (p[1] = q[1] /\ p[2] < q[2])
    BY <1>3 DEF Queue!Before
  <2>3. \A i \in 1 .. Len(log) : \A n \in DOMAIN log[i].ids :
          \A j \in 1 .. Len(log) : \A k \in DOMAIN log[j].ids :
            i < j \/ (i = j /\ n < k) =>
              log[i].ids[n] # log[j].ids[k] /\ ArrivedBefore(came, log[i].ids[n], log[j].ids[k])
    BY <1>1 DEF ArrivalKept
  <2>4. /\ log[p[1]].ids[p[2]] # log[q[1]].ids[q[2]]
        /\ ArrivedBefore(came, log[p[1]].ids[p[2]], log[q[1]].ids[q[2]])
    BY <2>1, <2>2, <2>3
  <2> QED
    BY <1>2, <2>4 DEF ArrivedBefore, Queue!IdAt
<1>4. \A t \in Caller : Queue!IsBatch(t) /\ status[t] # "none" =>
        (status[t] = "ok") = (t \in mem \union stored \union (IF imm = << >> THEN {} ELSE imm[1]))
  BY <1>1 DEF Applied, Batch, ImmSet, Queue!IsBatch
<1> QED
  BY <1>3, <1>4 DEF Queue!AppliedOnceInOrder

LEMMA QueueSequences ==
  ASSUME QueueInv
  PROVE  Queue!SequencesDisjoint /\ Queue!SyncHonoured
<1>1. log \in Seq(Record) /\ LogTyped /\ LogAnswered /\ seq \in Nat
  BY DEF QueueInv, LogKept, LogTyped, Counted
<1> HIDE DEF Record
<1>2. DOMAIN log = 1 .. Len(log)
  BY <1>1
<1>3. \A i \in 1 .. Len(log) : Queue!Count(i) = SizeOf(log[i])
  BY QueueCardinality DEF Queue!Count, SizeOf
<1>4. Queue!SequencesDisjoint
  <2>1. ASSUME NEW i \in 1 .. Len(log)
        PROVE  log[i].seq + SizeOf(log[i]) - 1 <= seq
    <3>1. log[i].seq \in Nat /\ SizeOf(log[i]) \in Nat /\ log[i].seq + SizeOf(log[i]) <= seq + 1
      BY <1>1 DEF LogTyped
    <3> QED
      BY <1>1, <3>1
  <2>2. ASSUME NEW i \in 1 .. Len(log), NEW j \in 1 .. Len(log), i < j
        PROVE  log[i].seq + SizeOf(log[i]) <= log[j].seq
    BY <1>1, <2>2 DEF LogTyped
  <2>3. \A i \in 1 .. Len(log) : log[i].seq + Queue!Count(i) - 1 <= seq
    BY <1>3, <2>1
  <2>4. \A i, j \in 1 .. Len(log) : i < j => log[i].seq + Queue!Count(i) <= log[j].seq
    BY <1>3, <2>2
  <2> QED
    BY <1>2, <2>3, <2>4 DEF Queue!SequencesDisjoint
<1>5. Queue!SyncHonoured
  <2>1. ASSUME NEW t \in Caller, Call[t] = "sync", status[t] = "ok"
        PROVE  \E i \in DOMAIN log : t \in Queue!Range(log[i].ids) /\ log[i].synced
    <3>1. PICK i \in 1 .. Len(log) : log[i].synced /\ \E n \in DOMAIN log[i].ids : log[i].ids[n] = t
      BY <1>1, <2>1 DEF LogAnswered
    <3>2. t \in Queue!Range(log[i].ids)
      BY <3>1 DEF Queue!Range
    <3> QED
      BY <1>2, <3>1, <3>2
  <2> QED
    BY <2>1 DEF Queue!SyncHonoured
<1> QED
  BY <1>4, <1>5

\* The write queue: at most one call is past it, a write that returned ok was
\* logged once, in the order of arrival and with sequence numbers of its own,
\* and is in a memtable or a table; a sync write that returned ok was synced,
\* also by another call, and nothing is logged after a failed sync: for any
\* calls, however they interleave and whatever fails.
THEOREM QueueHolds == Spec => []QueueSound
<1> DEFINE Inv == part = "queue" => QueueInv /\ FlushHasWork
<1>1. Init => Inv
  <2>1. Init => Queue!Init
    BY DEF Init, Start
  <2>2. Queue!Init => FlushHasWork
    BY DEF Queue!Init, FlushHasWork
  <2> QED
    BY <2>1, <2>2, QueueInit
<1>2. ASSUME Inv, [Next]_vars
      PROVE  Inv'
  <2> SUFFICES ASSUME part' = "queue"
               PROVE  QueueInv' /\ FlushHasWork'
    OBVIOUS
  <2>1. part = "queue" /\ [Queue!Next]_queueVars
    BY <1>2 DEF Next, vars
  <2>2. QueueInv /\ FlushHasWork
    BY <1>2, <2>1
  <2>3. QueueInv'
    BY <2>1, <2>2, QueueNext, QueueUnchanged
  <2>4. FlushHasWork'
    BY <2>1, <2>2, FlushNext DEF QueueInv
  <2> QED
    BY <2>3, <2>4
<1>3. Inv => QueueSound
  BY QueueTyped, QueueOneLeader, QueueApplies, QueueSequences DEF QueueSound
<1> QED
  BY <1>1, <1>2, <1>3, PTL DEF Spec

=============================================================================

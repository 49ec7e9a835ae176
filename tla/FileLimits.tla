----------------------------- MODULE FileLimits -----------------------------
(***************************************************************************)
(* The table files a process keeps open: Limiter, NewRandomAccessFile,     *)
(* PosixRandomAccessFile and PosixMmapReadableFile (util/env_posix.cc).    *)
(* A file is mapped while mappings are left, else it keeps a descriptor    *)
(* while descriptors are left, else it is opened for every read.  Threads  *)
(* open, read and close files at the same time.                            *)
(***************************************************************************)
EXTENDS Integers, FiniteSets

CONSTANTS Thread, File, MmapLimit, FdLimit

VARIABLES
  allowed,  \* Limiter::allowed_ of mmap_limit_ ("mmap") and fd_limit_ ("fd")
  pc,       \* where a thread is: a step, the limiter it asks, its file
  kind,     \* how each file is open: "closed", "opening", "mmap", "fd", "temp"
  fds,      \* the descriptors open, counted
  maps      \* the mappings there are, counted

vars == <<allowed, pc, kind, fds, maps>>

Idle == [at |-> "idle"]

Init ==
  /\ allowed = [mmap |-> MmapLimit, fd |-> FdLimit]
  /\ pc = [t \in Thread |-> Idle]
  /\ kind = [f \in File |-> "closed"]
  /\ fds = 0 /\ maps = 0

At(t, step) == pc[t].at = step
Goto(t, s, f) == pc' = [pc EXCEPT ![t] = [at |-> s, file |-> f]]
Done(t) == pc' = [pc EXCEPT ![t] = Idle]

(* open(fname, O_RDONLY); the first, unlocked look at the limiter follows. *)
NewRandomAccessFile(t, f) ==
  /\ At(t, "idle") /\ kind[f] = "closed"
  /\ Goto(t, "look_mmap", f)
  /\ kind' = [kind EXCEPT ![f] = "opening"]
  /\ fds' = fds + 1
  /\ UNCHANGED <<allowed, maps>>

(* The steps of the two calls of Acquire. *)
Looks == [mmap |-> "look_mmap", fd |-> "look_fd"]
Takes == [mmap |-> "take_mmap", fd |-> "take_fd"]
After == [mmap |-> "map", fd |-> "keep_fd"]
Refused == [mmap |-> "look_fd", fd |-> "use_temp"]

(* Acquire: GetAllowed() without the lock. *)
Look(t, limit) ==
  /\ At(t, Looks[limit])
  /\ Goto(t, IF allowed[limit] <= 0 THEN Refused[limit] ELSE Takes[limit],
          pc[t].file)
  /\ UNCHANGED <<allowed, kind, fds, maps>>

(* Acquire: again under the lock. *)
Take(t, limit) ==
  /\ At(t, Takes[limit])
  /\ IF allowed[limit] <= 0
     THEN Goto(t, Refused[limit], pc[t].file) /\ UNCHANGED allowed
     ELSE /\ Goto(t, After[limit], pc[t].file)
          /\ allowed' = [allowed EXCEPT ![limit] = @ - 1]
  /\ UNCHANGED <<kind, fds, maps>>

MapLeaks(t) ==
  /\ At(t, "map") /\ Done(t) /\ fds' = fds - 1
  /\ \E ok \in BOOLEAN :
       /\ kind' = [kind EXCEPT ![pc[t].file] = IF ok THEN "mmap" ELSE "closed"]
       /\ maps' = IF ok THEN maps + 1 ELSE maps
  /\ UNCHANGED allowed

(* GetFileSize and mmap, either of which may fail; close; give the place
   back after a failure. *)
Map(t) ==
  /\ At(t, "map") /\ Done(t) /\ fds' = fds - 1
  /\ \E ok \in BOOLEAN :
       /\ kind' = [kind EXCEPT ![pc[t].file] = IF ok THEN "mmap" ELSE "closed"]
       /\ maps' = IF ok THEN maps + 1 ELSE maps
       /\ allowed' = IF ok THEN allowed ELSE [allowed EXCEPT !.mmap = @ + 1]

(* PosixRandomAccessFile: keep the descriptor ... *)
KeepFd(t) ==
  /\ At(t, "keep_fd") /\ Done(t)
  /\ kind' = [kind EXCEPT ![pc[t].file] = "fd"]
  /\ UNCHANGED <<allowed, fds, maps>>

UseTempKeepsFd(t) ==
  /\ At(t, "use_temp") /\ Done(t)
  /\ kind' = [kind EXCEPT ![pc[t].file] = "temp"]
  /\ UNCHANGED <<allowed, maps, fds>>

(* ... or close it and open the file on every access. *)
UseTemp(t) ==
  /\ At(t, "use_temp") /\ Done(t)
  /\ kind' = [kind EXCEPT ![pc[t].file] = "temp"]
  /\ fds' = fds - 1
  /\ UNCHANGED <<allowed, maps>>

(* Read of a file without a descriptor: open, pread, close. *)
ReadOpen(t, f) ==
  /\ At(t, "idle") /\ kind[f] = "temp"
  /\ Goto(t, "reading", f)
  /\ fds' = fds + 1
  /\ UNCHANGED <<allowed, kind, maps>>

ReadClose(t) ==
  /\ At(t, "reading") /\ Done(t) /\ fds' = fds - 1
  /\ UNCHANGED <<allowed, kind, maps>>

(* The destructors; the owner closes a file nobody reads. *)
Close(t, f) ==
  /\ At(t, "idle") /\ kind[f] \in {"mmap", "fd", "temp"}
  /\ \A u \in Thread : At(u, "reading") => pc[u].file # f
  /\ kind' = [kind EXCEPT ![f] = "closed"]
  /\ allowed' = IF kind[f] = "temp" THEN allowed
                ELSE [allowed EXCEPT ![kind[f]] = @ + 1]
  /\ fds' = IF kind[f] = "fd" THEN fds - 1 ELSE fds
  /\ maps' = IF kind[f] = "mmap" THEN maps - 1 ELSE maps
  /\ UNCHANGED pc

Next ==
  \E t \in Thread :
    \/ \E f \in File :
         NewRandomAccessFile(t, f) \/ ReadOpen(t, f) \/ Close(t, f)
    \/ \E limit \in {"mmap", "fd"} : Look(t, limit) \/ Take(t, limit)
    \/ Map(t) \/ KeepFd(t) \/ UseTemp(t) \/ ReadClose(t)

Spec == Init /\ [][Next]_vars

-----------------------------------------------------------------------------
(* Properties *)

Files(k) == Cardinality({f \in File : kind[f] = k})
Between(step) == Cardinality({t \in Thread : At(t, step)})

\* Neither limit leaks nor is overdrawn: the places left and the places in
\* use are always the limit together, also while threads race for the last
\* place and when mmap fails, so that closing all files gives all of them
\* back.
Balanced ==
  /\ allowed.mmap >= 0 /\ allowed.fd >= 0
  /\ allowed.mmap + Files("mmap") + Between("map") = MmapLimit
  /\ allowed.fd + Files("fd") + Between("keep_fd") = FdLimit

\* However many tables are open, the process has no more mappings than
\* mmap_limit_ and no more descriptors than fd_limit_ and one for each
\* thread that opens or reads a file at the moment.
Bounded == maps <= MmapLimit /\ fds \in 0 .. FdLimit + Cardinality(Thread)
=============================================================================

----------------------------- MODULE FileLocks -----------------------------
(***************************************************************************)
(* The lock of a database directory: PosixEnv::LockFile and UnlockFile     *)
(* (util/env_posix.cc).  Threads of several processes open and close one   *)
(* database; each process has its own PosixLockTable and the kernel keeps  *)
(* one record lock per process, which goes when the process closes ANY     *)
(* descriptor of the file (fcntl(2), F_SETLK).                             *)
(***************************************************************************)
EXTENDS Integers, FiniteSets

CONSTANTS Process, Thread, ProcessOf, NoProcess

VARIABLES
  pc,      \* where each thread is in LockFile or UnlockFile; "held" after it
  locks,   \* the processes whose PosixLockTable holds the file
  kernel   \* the process that has the record lock, or NoProcess

vars == <<pc, locks, kernel>>

Init ==
  /\ pc = [t \in Thread |-> "idle"]
  /\ locks = {}
  /\ kernel = NoProcess

Go(t, from, to) == pc[t] = from /\ pc' = [pc EXCEPT ![t] = to]

(* close(fd): the record lock of the process is gone, whoever took it. *)
CloseFd(p) == kernel' = IF kernel = p THEN NoProcess ELSE kernel

(* open(fname, O_RDWR | O_CREAT); a failure changes nothing. *)
LockFile(t) == Go(t, "idle", "opened") /\ UNCHANGED <<locks, kernel>>

Insert(t) ==
  /\ Go(t, "opened", IF ProcessOf[t] \in locks THEN "refused" ELSE "inserted")
  /\ locks' = locks \union {ProcessOf[t]}
  /\ UNCHANGED kernel

(* "already held by process" *)
Refused(t) == Go(t, "refused", "idle") /\ CloseFd(ProcessOf[t]) /\ UNCHANGED locks

LockAnyway(t) ==
  /\ Go(t, "inserted", "held")
  /\ kernel' = IF kernel = NoProcess THEN ProcessOf[t] ELSE kernel
  /\ UNCHANGED locks

LockInverted(t) ==
  /\ Go(t, "inserted", "held")
  /\ CloseFd(ProcessOf[t])
  /\ UNCHANGED locks

(* LockOrUnlock(fd, true), which does not wait. *)
Lock(t) ==
  /\ Go(t, "inserted",
        IF kernel \in {NoProcess, ProcessOf[t]} THEN "held" ELSE "failed")
  /\ kernel' = IF kernel = NoProcess THEN ProcessOf[t] ELSE kernel
  /\ UNCHANGED locks

FailedClose(t) ==
  Go(t, "failed", "remove") /\ CloseFd(ProcessOf[t]) /\ UNCHANGED locks

FailedRemove(t) ==
  /\ Go(t, "remove", "idle")
  /\ locks' = locks \ {ProcessOf[t]}
  /\ UNCHANGED kernel

(* UnlockFile: LockOrUnlock(fd, false), locks_.Remove, close. *)
UnlockFile(t) ==
  Go(t, "held", "unlocked") /\ CloseFd(ProcessOf[t]) /\ UNCHANGED locks

UnlockRemove(t) ==
  /\ Go(t, "unlocked", "removed")
  /\ locks' = locks \ {ProcessOf[t]}
  /\ UNCHANGED kernel

UnlockClose(t) ==
  Go(t, "removed", "idle") /\ CloseFd(ProcessOf[t]) /\ UNCHANGED locks

(* The process ends; the kernel closes its descriptors. *)
Exit(p) ==
  /\ pc' = [t \in Thread |-> IF ProcessOf[t] = p THEN "idle" ELSE pc[t]]
  /\ locks' = locks \ {p}
  /\ CloseFd(p)

Step(t) ==
  \/ LockFile(t) \/ Insert(t) \/ Refused(t) \/ Lock(t)
  \/ FailedClose(t) \/ FailedRemove(t)
  \/ UnlockFile(t) \/ UnlockRemove(t) \/ UnlockClose(t)

Next == (\E t \in Thread : Step(t)) \/ (\E p \in Process : Exit(p))

Spec == Init /\ [][Next]_vars

-----------------------------------------------------------------------------
(* Properties *)

\* Every thread is at a step of the two functions, and a thread past
\* Insert stands for the entry of its process in the table.
LocksTypeOK ==
  /\ pc \in [Thread -> {"idle", "opened", "refused", "inserted", "held",
                        "failed", "remove", "unlocked", "removed"}]
  /\ locks \subseteq Process
  /\ kernel \in Process \union {NoProcess}
  /\ \A t \in Thread :
       pc[t] \in {"inserted", "held", "failed", "remove", "unlocked"}
         => ProcessOf[t] \in locks

Owners == {t \in Thread : pc[t] = "held"}

\* Two threads never hold the database at once, not those of one process
\* and not those of two (include/leveldb/env.h:112-113, "Used to prevent
\* concurrent access to the same db by multiple processes").
Exclusive == Cardinality(Owners) <= 1

\* The lock a thread was given is one the kernel still enforces: no other
\* thread of its process has dropped it.
HeldIsLocked == \A t \in Owners : kernel = ProcessOf[t]
=============================================================================

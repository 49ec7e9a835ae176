----------------------------- MODULE MCProgress -----------------------------
(***************************************************************************)
(* What must come to an end, on small instances: of the app, registrations *)
(* and launches, and the requests behind a tap on the form; of leveldb,    *)
(* the calls that wait for each other in the write queue, the background   *)
(* thread, an iterator, the reader of a log that a crash has cut and       *)
(* RepairDB.  The parts share no state, so that each behaviour runs one of *)
(* them and leaves the others as they were.                                *)
(***************************************************************************)
EXTENDS TLC, Integers, Sequences

CONSTANT Null

VARIABLES
  part,                                            \* the part that runs
  server, puts, applied, online, registered, currentUser, screen, depth,
  segment, calls, fault, launches, chosen, switched, cut, signedOut, \* Accounts
  title, location, formUser, requests, jobs, formFault, taps, signs, \* CreateJobForm
  pc, asleep, queue, status, room, last, log, seq, mem, imm, stored, l0, seek,
  err, sched, bg, manual, left, mdone, closing, came,  \* WriteQueue
  started, bgQueue, thread, item, given, bgOrder, ran,    \* BackgroundQueue
  src, itSeq, snap, m, it, run, want,                          \* DbIterator
  phase, file, boff, cur, written, flipped, offset, rd, out, reports, \* LogFormat
  fixPhase, tables, logs, order, fixSeq, next, desc, lost, owed, fixer,
  budget                                                           \* Repair

(* A user who is not registered yet. *)
Users == INSTANCE Accounts WITH Device <- {"d"}, User <- {"u"},
  UserOrder <- <<"u">>, Known <- [u \in {"u"} |-> Null],
  MaxCalls <- 1, MaxScreens <- 2, MaxLaunches <- 2

(* u has an entry in the users tree, v has none. *)
Form == INSTANCE CreateJobForm WITH User <- {"u", "v"}, Listed <- {"u"},
  Place <- {"Oslo"}, Vague <- {}, NoURL <- {"Ny Alesund"}, Title <- {"Cook"},
  Empty <- "", MaxTaps <- 1, MaxSigns <- 0, currentUser <- formUser,
  fault <- formFault

(* One call of each kind; the memtable is full after a write. *)
Queue == INSTANCE WriteQueue WITH
  Thread <- 1 .. 4, Call <- <<"sync", "flush", "compact", "get">>,
  Size <- <<1, 1, 1, 1>>, Pieces <- 1, Nobody <- 0, WriteBuffer <- 0,
  Trigger <- 1, Slowdown <- 1, Stop <- 2, SmallBatch <- 2, LargeGroup <- 4,
  Faults <- {"sync", "background"}

(* Two databases share the background thread. *)
Background == INSTANCE BackgroundQueue WITH
  Caller <- {"db1", "db2"}, MaxItems <- 2, queue <- bgQueue, order <- bgOrder

(* A memtable and a table with up to two versions of two keys. *)
Iter == INSTANCE DbIterator WITH
  Key <- {1, 2}, N <- 2, Old <- 2, MaxSeq <- 2, seq <- itSeq

(* Records that fill blocks, leave a trailer or need three fragments. *)
Log == INSTANCE LogFormat WITH
  BlockSize <- 7, HeaderSize <- 3, Lengths <- {0, 1, 3, 4, 9},
  MaxRecords <- 2, MaxOffset <- 0, Faults <- {"crash"}

(* One file is damaged, one operation fails, the process ends once. *)
Fix == INSTANCE Repair WITH
  Key <- {"a"}, MaxWrites <- 2, MaxFile <- 6, MaxDamage <- 1,
  MaxFaults <- 1, MaxCrashes <- 1, Flips <- FALSE,
  phase <- fixPhase, seq <- fixSeq

accountVars == <<server, puts, applied, online, registered, currentUser, screen,
                 depth, segment, calls, fault, launches, chosen, switched, cut,
                 signedOut>>
formVars == <<title, location, formUser, requests, jobs, formFault, taps, signs>>
queueVars == <<pc, asleep, queue, status, room, last, log, seq, mem, imm, stored,
               l0, seek, err, sched, bg, manual, left, mdone, closing, came>>
backgroundVars == <<started, bgQueue, thread, item, given, bgOrder, ran>>
iterVars == <<src, itSeq, snap, m, it, run, want>>
logVars == <<phase, file, boff, cur, written, flipped, offset, rd, out, reports>>
fixVars == <<fixPhase, tables, logs, order, fixSeq, next, desc, lost,
             owed, fixer, budget>>
vars == <<part, accountVars, formVars, queueVars, backgroundVars, iterVars,
          logVars, fixVars>>

NoForm ==
  /\ title = "" /\ location = "" /\ formUser = Null /\ requests = {} /\ jobs = {}
  /\ formFault = "none" /\ taps = 0 /\ signs = 0

NoIter ==
  /\ src = 0 /\ itSeq = 0 /\ snap = 0 /\ m = 0 /\ it = 0 /\ run = Iter!Idle /\ want = 0

Init ==
  /\ part \in {"accounts", "form", "queue", "background", "iterator", "log", "repair"}
  /\ Users!Init /\ Queue!Init /\ Background!Init /\ Log!Init /\ Fix!Init
  /\ IF part = "form" THEN Form!Init ELSE NoForm
  /\ IF part = "iterator" THEN Iter!Init ELSE NoIter

Next ==
  \/ /\ part = "accounts" /\ Users!Next
     /\ UNCHANGED <<part, formVars, queueVars, backgroundVars, iterVars,
                     logVars, fixVars>>
  \/ /\ part = "form" /\ Form!Next
     /\ UNCHANGED <<part, accountVars, queueVars, backgroundVars, iterVars,
                     logVars, fixVars>>
  \/ /\ part = "queue" /\ Queue!Next
     /\ UNCHANGED <<part, accountVars, formVars, backgroundVars, iterVars,
                     logVars, fixVars>>
  \/ /\ part = "background" /\ Background!Next
     /\ UNCHANGED <<part, accountVars, formVars, queueVars, iterVars,
                     logVars, fixVars>>
  \/ /\ part = "iterator" /\ Iter!Next
     /\ UNCHANGED <<part, accountVars, formVars, queueVars, backgroundVars,
                     logVars, fixVars>>
  \/ /\ part = "log" /\ Log!Next
     /\ UNCHANGED <<part, accountVars, formVars, queueVars, backgroundVars,
                     iterVars, fixVars>>
  \/ /\ part = "repair" /\ Fix!Next
     /\ UNCHANGED <<part, accountVars, formVars, queueVars, backgroundVars,
                     iterVars, logVars>>

(* The fairness of each part (see its FairSpec): threads keep running, a   *)
(* call that has begun goes on.                                            *)
FairSpec ==
  /\ Init /\ [][Next]_vars
  /\ WF_accountVars(part = "accounts" /\ Users!Transport("d"))
  /\ \A kind \in Users!Kind :
       WF_accountVars(part = "accounts" /\ Users!Progress("d", "u", kind))
  /\ WF_formVars(part = "form" /\ Form!Progress)
  /\ \A t \in 1 .. 4 : WF_queueVars(part = "queue" /\ Queue!Step(t))
  /\ WF_queueVars(part = "queue" /\ Queue!Background)
  /\ WF_queueVars(part = "queue" /\ Queue!CloseBegins)
  /\ WF_queueVars(part = "queue" /\ Queue!CloseWaits)
  /\ WF_backgroundVars(part = "background" /\ Background!Take)
  /\ WF_backgroundVars(part = "background" /\ Background!Return)
  /\ WF_iterVars(part = "iterator" /\ Iter!Loop)
  /\ WF_logVars(part = "log" /\ Log!Reads)
  /\ WF_fixVars(part = "repair" /\ fixPhase = "stopped" /\ Fix!Repairing)

-----------------------------------------------------------------------------
(* Properties *)

\* The entry of an account arrives unless its registration was cut, no launch
\* waits at an empty window for ever, and every tap of the form comes to an
\* end: a job, an alert, or silence.
ScreensEnd == Users!EntryArrives /\ Users!WindowFills /\ Form!TapsEnd

\* Every call on the database returns, whatever fails, and so does the
\* destructor once they have: no wake-up is lost and no two threads wait for
\* each other.
CallsReturn == Queue!CallsReturn /\ Queue!CloseReturns

\* Background items run in the order of Schedule, each once, and each is run:
\* the wake-up sent only for an empty queue is never the one that was needed.
ItemsRun == [](part = "background" => Background!RunsInOrder) /\ Background!ItemsRun

\* Loops end: every call of an iterator returns, over keys of which all
\* entries are hidden or deleted too; the reader of a log comes to its end,
\* and RepairDB does once its process is left alone.
LoopsEnd == Iter!CallsEnd /\ Log!ReadingEnds /\ Fix!RepairEnds
=============================================================================

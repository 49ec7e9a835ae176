-------------------------- MODULE BackgroundQueue --------------------------
(***************************************************************************)
(* PosixEnv::Schedule and PosixEnv::BGThread (util/env_posix.cc): the one  *)
(* background thread that every database of the process shares.  A work    *)
(* item of a database may schedule the next one (DBImpl::BackgroundCall    *)
(* calls MaybeScheduleCompaction).  A section under mu_ is one step;       *)
(* pthread_cond_wait may also return without a signal.                     *)
(***************************************************************************)
EXTENDS Integers, Sequences

CONSTANTS
  Caller,    \* the databases that schedule work
  MaxItems   \* bound: items one database schedules

VARIABLES
  started,  \* started_bgthread_
  queue,    \* queue_
  thread,   \* the background thread: "none", "wait", "ready", "run"
  item,     \* the item it runs
  given,    \* the items each database has scheduled, counted
  order,    \* every item in the order of Schedule
  ran       \* the items in the order they were run

vars == <<started, queue, thread, item, given, order, ran>>

NoItem == <<>>

Init ==
  /\ started = FALSE /\ queue = <<>> /\ thread = "none" /\ item = NoItem
  /\ given = [c \in Caller |-> 0]
  /\ order = <<>> /\ ran = <<>>

Push(c) ==
  /\ given[c] < MaxItems
  /\ given' = [given EXCEPT ![c] = @ + 1]
  /\ queue' = Append(queue, <<c, given[c]>>)
  /\ order' = Append(order, <<c, given[c]>>)
  /\ started' = TRUE
  /\ UNCHANGED <<item, ran>>

ScheduleSignalsLate(c) ==
  /\ Push(c)
  /\ thread' = IF ~started THEN "ready"
               ELSE IF queue # <<>> /\ thread = "wait" THEN "ready" ELSE thread

(* The thread is started by the first call; a wake-up is sent only when the
   queue was empty. *)
Schedule(c) ==
  /\ Push(c)
  /\ thread' = IF ~started THEN "ready"
               ELSE IF queue = <<>> /\ thread = "wait" THEN "ready" ELSE thread

Spurious ==
  /\ thread = "wait" /\ thread' = "ready"
  /\ UNCHANGED <<started, queue, item, given, order, ran>>

TakeNewest ==
  /\ thread = "ready"
  /\ IF queue = <<>>
     THEN thread' = "wait" /\ UNCHANGED <<queue, item, ran>>
     ELSE /\ thread' = "run"
          /\ item' = queue[Len(queue)]
          /\ queue' = SubSeq(queue, 1, Len(queue) - 1)
          /\ ran' = Append(ran, item')
  /\ UNCHANGED <<started, given, order>>

(* Under mu_: wait while the queue is empty, else take its front. *)
Take ==
  /\ thread = "ready"
  /\ IF queue = <<>>
     THEN thread' = "wait" /\ UNCHANGED <<queue, item, ran>>
     ELSE /\ thread' = "run"
          /\ item' = Head(queue)
          /\ queue' = Tail(queue)
          /\ ran' = Append(ran, item')
  /\ UNCHANGED <<started, given, order>>

(* The function returns. *)
Return ==
  /\ thread = "run" /\ thread' = "ready" /\ item' = NoItem
  /\ UNCHANGED <<started, queue, given, order, ran>>

Next == (\E c \in Caller : Schedule(c)) \/ Spurious \/ Take \/ Return

Spec == Init /\ [][Next]_vars

(* The kernel runs the thread; it wakes nobody without a signal. *)
FairSpec == Spec /\ WF_vars(Take) /\ WF_vars(Return)

-----------------------------------------------------------------------------
(* Properties *)

\* Items run in the order in which Schedule was called, whichever database
\* called it, each once: compactions of one database never overtake an
\* older one.
RunsInOrder ==
  /\ Len(ran) <= Len(order)
  /\ ran = SubSeq(order, 1, Len(ran))

\* Every scheduled item is run: the wake-up that Schedule sends only for an
\* empty queue is never the one that was needed.
ItemsRun ==
  \A c \in Caller, n \in 1 .. MaxItems :
    given[c] >= n ~> \E i \in 1 .. Len(ran) : ran[i] = <<c, n - 1>>
=============================================================================

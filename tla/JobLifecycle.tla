---------------------------- MODULE JobLifecycle ----------------------------
(***************************************************************************)
(* What the board promises a reader about one job, without clients,        *)
(* connections and callbacks: its fields become visible one at a time, in  *)
(* the order of CreateJob, none is ever taken back, and the only other     *)
(* thing that can happen to the job is that somebody withdraws it.         *)
(***************************************************************************)
EXTENDS Naturals

CONSTANTS Job, Withdrawn,
    FieldCount      \* how many fields a job has

VARIABLE stage      \* stage[j]: the numbers of the visible fields, or Withdrawn

\* A job is not there yet, or complete since earlier.
LifecycleInit == stage \in [Job -> {{}, 1..FieldCount}]

\* The next field of job j becomes visible.
Advance(j) ==
    \E k \in 1..FieldCount :
        /\ stage[j] = 1..(k - 1)
        /\ stage' = [stage EXCEPT ![j] = 1..k]

Withdraw(j) ==
    /\ stage[j] /= Withdrawn
    /\ stage' = [stage EXCEPT ![j] = Withdrawn]

LifecycleNext == \E j \in Job : Advance(j) \/ Withdraw(j)

LifecycleSpec == LifecycleInit /\ [][LifecycleNext]_stage
=============================================================================

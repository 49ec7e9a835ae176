----------------------------- MODULE MCScreens -----------------------------
(***************************************************************************)
(* The screens of one device, on small instances: registering and signing  *)
(* in on a new board and on one with users of earlier days, and the form   *)
(* that posts a job.  They share no state here (the form starts with       *)
(* somebody signed in), so that each behaviour runs one of them and leaves *)
(* the others as they were.                                                *)
(***************************************************************************)
EXTENDS TLC, Integers, Sequences

CONSTANT Null

VARIABLES
  part,                                            \* the part that runs
  server, puts, applied, online, registered, currentUser, screen, depth,
  segment, calls, fault, launches, chosen, switched, cut, signedOut, \* Accounts
  title, location, formUser, requests, jobs, formFault, taps, signs \* CreateJobForm

(* Nobody is registered yet; snapshots list v before u. *)
New == INSTANCE Accounts WITH Device <- {"d"}, User <- {"u", "v"},
  UserOrder <- <<"v", "u">>, Known <- [w \in {"u", "v"} |-> Null],
  MaxCalls <- 2, MaxScreens <- 2, MaxLaunches <- 2

(* Both users are registered, with different types. *)
Old == INSTANCE Accounts WITH Device <- {"d"}, User <- {"u", "v"},
  UserOrder <- <<"v", "u">>,
  Known <- [w \in {"u", "v"} |-> IF w = "u" THEN "Job Poster" ELSE "Job Searcher"],
  MaxCalls <- 2, MaxScreens <- 3, MaxLaunches <- 1

(* Two places and one that the service knows only vaguely. *)
Form == INSTANCE CreateJobForm WITH User <- {"u", "v"}, Listed <- {"u", "v"},
  Place <- {"Oslo", "Bergen"}, Vague <- {"Norway"}, NoURL <- {},
  Title <- {"Cook"}, Empty <- "", MaxTaps <- 2, MaxSigns <- 1,
  currentUser <- formUser, fault <- formFault

accountVars == <<server, puts, applied, online, registered, currentUser, screen,
                 depth, segment, calls, fault, launches, chosen, switched, cut,
                 signedOut>>
formVars == <<title, location, formUser, requests, jobs, formFault, taps, signs>>
vars == <<part, accountVars, formVars>>

NoForm ==
  /\ title = "" /\ location = "" /\ formUser = Null /\ requests = {} /\ jobs = {}
  /\ formFault = "none" /\ taps = 0 /\ signs = 0

Init ==
  /\ part \in {"new accounts", "old accounts", "form"}
  /\ IF part = "old accounts" THEN Old!Init ELSE New!Init
  /\ IF part = "form" THEN Form!Init ELSE NoForm

Next ==
  \/ /\ \/ part = "new accounts" /\ New!Next
        \/ part = "old accounts" /\ Old!Next
     /\ UNCHANGED <<part, formVars>>
  \/ part = "form" /\ Form!Next /\ UNCHANGED <<part, accountVars>>

Spec == Init /\ [][Next]_vars

-----------------------------------------------------------------------------
(* Properties *)

\* An account without an entry has one on its way, has its callback still to
\* come, or lost it with a process or an answer (AccountHandeler.RegisterUser
\* writes the entry in a callback); an entry holds the account type that was
\* selected when the account's own registration was sent.
EntriesSound == New!AccountsTypeOK /\ New!EntryExplained /\ New!EntryIsChosen

\* A step that brings a home screen brings that of the user's account type,
\* but for the two cases the code leaves open.
HomeMatchesAccount == [][part # "form" => New!HomeMatches]_vars

\* currentUser! of a finished sign-in fails only on a device where somebody
\* has signed out.
NilNeedsSignOut == New!NilNeedsSignOut

\* A job has the title, the place and the poster that were there at its tap
\* of CreateJob, and no empty field, vague coordinates or missing poster,
\* unless just that was changed meanwhile; a tap posts at most one job,
\* although FindUser calls its handler in a loop.
JobsSound ==
  part = "form" => Form!FormTypeOK /\ Form!JobIsWhatWasTyped
                   /\ Form!NothingMissing /\ Form!OneJobPerTap
=============================================================================

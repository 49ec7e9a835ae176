------------------------------ MODULE JobBoard ------------------------------
(***************************************************************************)
(* Posters and searchers of the app sharing the postedJobs tree: every     *)
(* handler of CreateJobVC, PostedJobsVC, EditJobVC, ShowApplicantsVC,      *)
(* ExploreVC, JobListingVC and the job operations of DataHandeler, over    *)
(* the Firebase client of module FirebaseSync.                             *)
(*                                                                         *)
(* A client runs on one main queue: a tap or a callback is one action.     *)
(* Between them are the asynchronous single reads (observeSingleEvent):    *)
(* reads[c] holds the callbacks that wait, in the order of their requests, *)
(* each with the snapshot it will get once the server has answered.  A     *)
(* force cast or an index out of range sets fault[c]; the process then     *)
(* dies (Kill) and loses what it had not sent.                             *)
(*                                                                         *)
(* View controllers are presented on top of each other and never           *)
(* dismissed: stack[c] is that tower, and a callback belongs to the level  *)
(* that asked for it.  An email address is represented by its client.      *)
(***************************************************************************)
EXTENDS Naturals, Sequences, FiniteSets

CONSTANTS
    Poster, Searcher,   \* signed-in copies of the app, by account type
    Job, App,           \* keys (UUIDs) of jobs and of applications
    Title,              \* job titles
    FieldOrder,         \* the children of a job, in the order CreateJob writes
                        \* them: title, latt, longt, literal, salary,
                        \* description, jobPoster, or a part of this list
    Ads,                \* Ads[j]: the ad posted earlier under key j, or Null
    Null,               \* an absent leaf
    Enum(_),            \* the order in which NSDictionary enumerates keys
    RowOrder,           \* RowOrder[n]: that order for the keys 0..n-1 of a list
    MaxPuts,            \* bound: outstanding puts when a client starts a write
    MaxReads,           \* bound: waiting callbacks when a user taps
    MaxVCs,             \* bound: view controllers on top of each other
    MaxLaunches,        \* bound: launches of each client
    MaxDrops            \* bound: broken connections of each client

Client == Poster \cup Searcher

FieldNo == 1..Len(FieldOrder)
Field == {FieldOrder[k] : k \in FieldNo}
Given == "given"        \* the text of a field whose content does not matter

Leaf  == Field \cup App
Path  == Job \X Leaf
Value == Title \cup Client \cup {Given}

IsEnumeration(q, S) ==
    /\ q \in Seq(S)
    /\ \A x \in S : \E i \in DOMAIN q : q[i] = x
    /\ \A i, k \in DOMAIN q : q[i] = q[k] => i = k

ASSUME ClientAssumption ==
    /\ Poster \cap Searcher = {}
    /\ Null \notin Value
    /\ \A S \in SUBSET FieldNo : Null /= S
    /\ \A t \in Title, c \in Poster : Null /= [title |-> t, poster |-> c]
    /\ \A j \in Job, c \in Client : Null /= [job |-> j, by |-> c]
    /\ Field \cap App = {}

ASSUME FieldAssumption ==
    /\ FieldOrder \in Seq(STRING)
    /\ Len(FieldOrder) >= 2
    /\ FieldOrder[1] = "title"
    /\ FieldOrder[Len(FieldOrder)] = "jobPoster"
    /\ \A k, l \in FieldNo : FieldOrder[k] = FieldOrder[l] => k = l

ASSUME EnumAssumption ==
    /\ \A S \in SUBSET Job : IsEnumeration(Enum(S), S)
    /\ \A S \in SUBSET App : IsEnumeration(Enum(S), S)
    /\ \A S \in SUBSET (Job \X App) : IsEnumeration(Enum(S), S)

ASSUME RowAssumption ==
    \A n \in DOMAIN RowOrder : IsEnumeration(RowOrder[n], 1..n)

ASSUME AdsAssumption ==
    Ads \in [Job -> [title : Title, poster : Poster] \cup {Null}]

ASSUME BoundAssumption ==
    /\ MaxPuts \in Nat /\ MaxReads \in Nat /\ MaxVCs \in Nat
    /\ MaxLaunches \in [Client -> Nat] /\ MaxDrops \in [Client -> Nat]

VARIABLES
    server, puts, applied, online,  \* the Firebase clients and their server
    stack,      \* stack[c]: view controllers, the visible one last; <<>>: not running
    popover,    \* popover[c]: the EditJobVC / JobListingVC over the visible one
    reads,      \* reads[c]: callbacks of single reads of postedJobs
    fault,      \* fault[c]: the run-time check that has just failed
    launches, drops,
    posted,     \* ghost: posted[j] is what CreateJob was asked to write
    request,    \* ghost: request[a] is the job and the sender of application a
    removed,    \* ghost: jobs for which a removal was issued
    gone,       \* ghost: complete jobs that the server has deleted
    cut,        \* ghost: jobs whose poster died with puts of them outstanding
    declined    \* ghost: <<sender, title>> pairs that were declined

syncVars == <<server, puts, applied, online>>
appVars == <<stack, popover, reads, fault>>
ghostVars == <<posted, request, removed, gone, cut, declined>>
vars == <<syncVars, appVars, launches, drops, ghostVars>>

Sync == INSTANCE FirebaseSync

-----------------------------------------------------------------------------
(* The writes the app makes.                                               *)

PutField(j, f, v) == [p \in {<<j, f>>} |-> v]
PutApplication(j, a, c) == [p \in {<<j, a>>} |-> c]
RemoveApplicationAt(q) == [p \in {q} |-> Null]
RemoveJobAt(j) == [p \in {j} \X Leaf |-> Null]

\* What CreateJob writes at field f of a job with title t posted by c.
FieldValue(t, c, f) ==
    IF f = "title" THEN t ELSE IF f = "jobPoster" THEN c ELSE Given

\* Mutated: one update writes the whole job.
JobPutsAtOnce(j, t, c) ==
    << [x \in {j} \X Field |-> FieldValue(t, c, x[2])] >>

\* Mutated: the poster is written first.
JobPutsPosterFirst(j, t, c) ==
    [k \in FieldNo |-> LET f == FieldOrder[Len(FieldOrder) + 1 - k]
                        IN  PutField(j, f, FieldValue(t, c, f))]

\* The seven updateChildValues of CreateJob.
JobPuts(j, t, c) ==
    [k \in FieldNo |->
        PutField(j, FieldOrder[k], FieldValue(t, c, FieldOrder[k]))]

JobWrite ==
    {PutField(j, f, v) : j \in Job, f \in Field, v \in Value}
    \cup {PutApplication(j, a, c) : j \in Job, a \in App, c \in Client}
    \cup {RemoveApplicationAt(q) : q \in Job \X App}
    \cup {RemoveJobAt(j) : j \in Job}

-----------------------------------------------------------------------------
(* Snapshots of postedJobs.                                                *)

NoSnap == [p \in {} |-> Null]

\* The keys of the dictionary: a job is there if anything below it is.
Keys(db) == {j \in Job : \E l \in Leaf : db[<<j, l>>] /= Null}

Applicants(db, j) == {a \in App : db[<<j, a>>] /= Null}

Complete(db, j) == \A f \in Field : db[<<j, f>>] /= Null

NoPopover == [row |-> 0, job |-> Null]

\* A callback that waits for a snapshot. row, email, title and keys are what
\* the closure has captured; vc the level of self or of its parent; over:
\* self is the popover that is still on screen; shown (ghost): the job of
\* that popover.
Read(kind, vc) ==
    [kind |-> kind, vc |-> vc, row |-> 0, email |-> Null, title |-> Null,
     keys |-> {}, over |-> FALSE, shown |-> Null, snap |-> NoSnap]

\* Mutated: a new callback waits for the server in any case.
ObserveAlone(pending, new, view) == pending \o new

\* observeSingleEvent: with a view of postedJobs alive (an answered callback
\* still to run) the new one is answered from it at once, else it waits.
Observe(pending, new, view) ==
    pending \o (IF \E i \in DOMAIN pending : pending[i].snap /= NoSnap
                THEN [i \in DOMAIN new |-> [new[i] EXCEPT !.snap = view]]
                ELSE new)

Running(c) == stack[c] /= <<>>
Active(c) == Running(c) /\ fault[c] = "none"
Level(c) == Len(stack[c])
Visible(c) == stack[c][Level(c)]

\* Entry r of Array(list) for a dictionary with the keys 0, 1, ...
RowAt(list, r) == list[RowOrder[Len(list)][r]]

\* The casts of cellForItemAt.
CellFields(screen) ==
    IF screen = "ShowApplicantsVC" THEN {"title"}
    ELSE Field \cap {"title", "literal", "salary"}

Drawable(screen, list) ==
    \A i \in DOMAIN list : \A f \in CellFields(screen) : list[i].data[f] /= Null

Fields(db, j) == [f \in Field |-> db[<<j, f>>]]

JobRow(db, j) == [job |-> j, email |-> Null, data |-> Fields(db, j)]

\* self.view.removeFromSuperview() of the popover that made a request.
Close(c) == popover' = [popover EXCEPT ![c] = NoPopover]
Closed(q) == [i \in DOMAIN q |-> [q[i] EXCEPT !.over = FALSE]]

-----------------------------------------------------------------------------
(* Launching, taps and navigation.                                         *)

\* The tree with the ads that were posted earlier.
Board == [x \in Path |-> IF Ads[x[1]] = Null \/ x[2] \in App THEN Null
                         ELSE FieldValue(Ads[x[1]].title, Ads[x[1]].poster, x[2])]

\* Nothing runs; the server holds the ads of earlier days.
Init ==
    /\ server = Board
    /\ puts = [c \in Client |-> <<>>]
    /\ applied = [c \in Client |-> 0]
    /\ online = [c \in Client |-> FALSE]
    /\ stack = [c \in Client |-> <<>>]
    /\ popover = [c \in Client |-> NoPopover]
    /\ reads = [c \in Client |-> <<>>]
    /\ fault = [c \in Client |-> "none"]
    /\ launches = [c \in Client |-> 0]
    /\ drops = [c \in Client |-> 0]
    /\ posted = Ads
    /\ request = [a \in App |-> Null]
    /\ removed = {} /\ gone = {} /\ cut = {} /\ declined = {}

VC(screen) == [screen |-> screen, list |-> <<>>]

\* The read that viewDidLoad of a screen asks for.
LoadOf(screen, vc) ==
    CASE screen = "ExploreVC"        -> <<Read("SetNewJobs", vc)>>
      [] screen = "PostedJobsVC"     -> <<Read("SetMyPostedJobs", vc)>>
      [] screen = "ShowApplicantsVC" -> <<Read("SetApplicants", vc)>>
      [] screen = "CreateJobVC"      -> <<>>

\* Put a screen on top of the tower of c.
Push(c, screen) ==
    /\ stack' = [stack EXCEPT ![c] = Append(@, VC(screen))]
    /\ reads' = [reads EXCEPT ![c] =
          Observe(@, LoadOf(screen, Level(c) + 1), Sync!View(server, puts[c]))]

\* willConnectTo routes a signed-in user to the screen of the account type.
Launch(c) ==
    /\ ~Running(c)
    /\ launches[c] < MaxLaunches[c]
    /\ Push(c, IF c \in Poster THEN "CreateJobVC" ELSE "ExploreVC")
    /\ launches' = [launches EXCEPT ![c] = @ + 1]
    /\ UNCHANGED <<syncVars, popover, fault, drops, ghostVars>>

\* The navigation bar: PresentCreateJobVC, PresentPostedJobsVC and
\* PresentApplicantsVC; a popover covers the bar.
Present(c, screen) ==
    /\ Active(c)
    /\ c \in Poster
    /\ popover[c] = NoPopover
    /\ Visible(c).screen /= screen
    /\ Level(c) < MaxVCs
    /\ Len(reads[c]) < MaxReads
    /\ Push(c, screen)
    /\ UNCHANGED <<syncVars, popover, fault, launches, drops, ghostVars>>

\* Mutated: the key of a job is not fresh.
CreateJobReusingKey(c, j, t) ==
    /\ Active(c)
    /\ c \in Poster
    /\ Len(puts[c]) + Len(FieldOrder) <= MaxPuts
    /\ posted' = [posted EXCEPT ![j] = [title |-> t, poster |-> c]]
    /\ Sync!Issue(c, JobPuts(j, t, c))
    /\ UNCHANGED <<appVars, launches, drops, request, removed, gone, cut, declined>>

\* CreateJob, the callback of FindUser: all fields were filled in and the
\* place was found; the job gets a fresh UUID and seven separate updates.
CreateJob(c, j, t) ==
    /\ Active(c)
    /\ c \in Poster
    /\ posted[j] = Null
    /\ Len(puts[c]) + Len(FieldOrder) <= MaxPuts
    /\ posted' = [posted EXCEPT ![j] = [title |-> t, poster |-> c]]
    /\ Sync!Issue(c, JobPuts(j, t, c))
    /\ UNCHANGED <<appVars, launches, drops, request, removed, gone, cut, declined>>

\* The casts of didSelectItemAt.
SelectFields(screen) ==
    IF screen = "PostedJobsVC" THEN Field \cap {"description"} ELSE Field \ {"literal"}

\* didSelectItemAt of PostedJobsVC and ExploreVC: the popover gets the data
\* of the row and the number of the row, not the key of the job.
Select(c, r) ==
    /\ Active(c)
    /\ popover[c] = NoPopover
    /\ Visible(c).screen \in {"PostedJobsVC", "ExploreVC"}
    /\ r \in DOMAIN Visible(c).list
    /\ LET row == RowAt(Visible(c).list, r) IN
       IF \A f \in SelectFields(Visible(c).screen) : row.data[f] /= Null
       THEN /\ popover' = [popover EXCEPT ![c] = [row |-> r, job |-> row.job]]
            /\ UNCHANGED fault
       ELSE /\ fault' = [fault EXCEPT ![c] = "cast"]
            /\ UNCHANGED popover
    /\ UNCHANGED <<syncVars, stack, reads, launches, drops, ghostVars>>

\* Dismiss of EditJobVC and JobListingVC: requests made by the popover stay.
Dismiss(c) ==
    /\ Active(c)
    /\ popover[c] /= NoPopover
    /\ Close(c)
    /\ reads' = [reads EXCEPT ![c] = Closed(@)]
    /\ UNCHANGED <<syncVars, stack, fault, launches, drops, ghostVars>>

\* A tap that starts a read on behalf of the popover or of a row.
Tap(c, read) ==
    /\ Active(c)
    /\ Len(reads[c]) < MaxReads
    /\ reads' = [reads EXCEPT ![c] =
          Observe(@, <<read>>, Sync!View(server, puts[c]))]
    /\ UNCHANGED <<syncVars, stack, popover, fault, launches, drops, ghostVars>>

\* Mutated: the row number is off by one.
PopoverReadNextRow(c, kind) ==
    [Read(kind, Level(c)) EXCEPT !.row = popover[c].row + 1, !.over = TRUE,
                                 !.shown = popover[c].job]

\* jobID of JobListingVC and jobIndex of EditJobVC go with the request.
PopoverRead(c, kind) ==
    [Read(kind, Level(c)) EXCEPT !.row = popover[c].row, !.over = TRUE,
                                 !.shown = popover[c].job]

\* ApplyToJob: the button. The bound is on applications: every request that
\* waits will find an unused key.
TapApply(c) ==
    /\ popover[c] /= NoPopover
    /\ Visible(c).screen = "ExploreVC"
    /\ Cardinality({a \in App : request[a] = Null}) >
       Cardinality({w \in Client \X (1..MaxReads) :
                       /\ w[2] \in DOMAIN reads[w[1]]
                       /\ reads[w[1]][w[2]].kind = "ApplyToJob"})
    /\ Tap(c, PopoverRead(c, "ApplyToJob"))

\* RemoveJob: the button.
TapRemove(c) ==
    /\ popover[c] /= NoPopover
    /\ Visible(c).screen = "PostedJobsVC"
    /\ Tap(c, PopoverRead(c, "RemoveJob"))

\* DeclineApplicant: the button of row r, whose tag is r.
TapDecline(c, r) ==
    /\ Active(c)
    /\ Visible(c).screen = "ShowApplicantsVC"
    /\ r \in DOMAIN Visible(c).list
    /\ Tap(c, [Read("DeclineApplicant", Level(c)) EXCEPT !.row = r])

-----------------------------------------------------------------------------
(* The callbacks of the reads. Each runs on the main queue of its client,  *)
(* in the order of the requests, with the snapshot taken when the server's *)
(* answer arrived.                                                         *)

\* onDataUpdate for postedJobs: all waiting callbacks share one view and get
\* its first value, the server's data under the client's own puts.
Deliver(c) ==
    /\ Active(c)
    /\ online[c]
    /\ reads[c] /= <<>>
    /\ Head(reads[c]).snap = NoSnap
    /\ reads' = [reads EXCEPT ![c] =
          [i \in DOMAIN @ |-> [@[i] EXCEPT !.snap = Sync!View(server, puts[c])]]]
    /\ UNCHANGED <<syncVars, stack, popover, fault, launches, drops, ghostVars>>

\* The callback of this kind is the next to run.
Runs(c, kind) ==
    /\ Active(c)
    /\ reads[c] /= <<>>
    /\ Head(reads[c]).kind = kind
    /\ Head(reads[c]).snap /= NoSnap

Done(c) == reads' = [reads EXCEPT ![c] = Tail(@)]

\* A force cast or an index fails in the callback.
Trap(c, kind) ==
    /\ fault' = [fault EXCEPT ![c] = kind]
    /\ Done(c)
    /\ UNCHANGED <<stack, popover>>

\* Rows join the list of the callback's view controller; reloadData draws the
\* cells if it is the visible one.
Load(c, rows) ==
    LET vc   == Head(reads[c]).vc
        list == stack[c][vc].list \o rows
    IN  /\ stack' = [stack EXCEPT ![c][vc].list = list]
        /\ fault' = [fault EXCEPT ![c] =
              IF vc = Level(c) /\ ~Drawable(stack[c][vc].screen, list)
              THEN "cast" ELSE @]
        /\ Done(c)
        /\ UNCHANGED popover

\* SetNewJobs of ExploreVC: all jobs, in reverse order; an empty tree only
\* prints an error.
SetNewJobs(c) ==
    /\ Runs(c, "SetNewJobs")
    /\ LET db  == Head(reads[c]).snap
           ord == Enum(Keys(db))
       IN  Load(c, [i \in DOMAIN ord |-> JobRow(db, ord[Len(ord) + 1 - i])])
    /\ UNCHANGED <<syncVars, launches, drops, ghostVars>>

\* The elements of S in q, in the order of q.
Chosen(q, S) ==
    LET at == {i \in DOMAIN q : q[i] \in S}
    IN  [k \in 1..Cardinality(at) |->
            q[CHOOSE i \in at : Cardinality({h \in at : h <= i}) = k]]

\* SetMyPostedJobs of PostedJobsVC: the cast of jobPoster is made for every
\* job of the tree, the user's jobs are listed.
SetMyPostedJobs(c) ==
    /\ Runs(c, "SetMyPostedJobs")
    /\ LET db  == Head(reads[c]).snap
           ord == Chosen(Enum(Keys(db)), {j \in Job : db[<<j, "jobPoster">>] = c})
       IN  IF \E j \in Keys(db) : db[<<j, "jobPoster">>] = Null
           THEN Trap(c, "cast")
           ELSE Load(c, [i \in DOMAIN ord |-> JobRow(db, ord[i])])
    /\ UNCHANGED <<syncVars, launches, drops, ghostVars>>

\* SetMyPostedJobs of ShowApplicantsVC: a row for each application to a job
\* of the user, with the sender and the title of the job.
SetApplicants(c) ==
    /\ Runs(c, "SetApplicants")
    /\ LET db  == Head(reads[c]).snap
           ord == Chosen(Enum({q \in Job \X App : db[q] /= Null}),
                         {q \in Job \X App : db[<<q[1], "jobPoster">>] = c})
       IN  IF \E j \in Keys(db) : db[<<j, "jobPoster">>] = Null
           THEN Trap(c, "cast")
           ELSE Load(c, [i \in DOMAIN ord |->
                   [JobRow(db, ord[i][1]) EXCEPT !.email = db[ord[i]]]])
    /\ UNCHANGED <<syncVars, launches, drops, ghostVars>>

\* The popover of a callback leaves the screen, if it is still there.
CloseOwn(c) ==
    IF Head(reads[c]).over THEN Close(c) ELSE UNCHANGED popover

\* ApplyToJob of JobListingVC: the row number indexes the jobs of the new
\* snapshot, in the dictionary's order; the application gets a fresh UUID.
ApplyToJob(c) ==
    /\ Runs(c, "ApplyToJob")
    /\ LET r    == Head(reads[c])
           jobs == Enum(Keys(r.snap))
       IN  \/ /\ jobs = <<>>
              /\ Done(c)
              /\ UNCHANGED <<syncVars, popover, fault, request>>
           \/ /\ jobs /= <<>> /\ r.row \notin DOMAIN jobs
              /\ Trap(c, "index")
              /\ UNCHANGED <<syncVars, request>>
           \/ /\ r.row \in DOMAIN jobs
              /\ \E a \in App :
                    /\ request[a] = Null
                    /\ request' = [request EXCEPT ![a] =
                                     [job |-> jobs[r.row], by |-> c]]
                    /\ Sync!Issue(c, <<PutApplication(jobs[r.row], a, c)>>)
              /\ CloseOwn(c)
              /\ reads' = [reads EXCEPT ![c] = IF r.over THEN Closed(Tail(@)) ELSE Tail(@)]
              /\ UNCHANGED fault
    /\ UNCHANGED <<stack, launches, drops, posted, removed, gone, cut, declined>>

\* Mutated: the parent's list is not emptied before it is read again.
RemoveJobKeepsList(c) ==
    /\ Runs(c, "RemoveJob")
    /\ LET r    == Head(reads[c])
           jobs == Enum(Keys(r.snap))
       IN  /\ r.row \in DOMAIN jobs
           /\ Sync!Issue(c, <<RemoveJobAt(jobs[r.row])>>)
           /\ removed' = removed \cup {jobs[r.row]}
           /\ CloseOwn(c)
           /\ reads' = [reads EXCEPT ![c] =
                 Observe(IF r.over THEN Closed(Tail(@)) ELSE Tail(@),
                         <<Read("SetMyPostedJobs", r.vc)>>,
                         Sync!View(server, puts'[c]))]
           /\ UNCHANGED <<stack, fault>>
    /\ UNCHANGED <<launches, drops, posted, request, gone, cut, declined>>

\* RemoveJob of EditJobVC: the row number of the user's list selects among
\* all jobs of the new snapshot; then the parent's list is read again.
RemoveJob(c) ==
    /\ Runs(c, "RemoveJob")
    /\ LET r    == Head(reads[c])
           jobs == Enum(Keys(r.snap))
       IN  \/ /\ jobs = <<>>
              /\ Trap(c, "cast")
              /\ UNCHANGED <<syncVars, removed>>
           \/ /\ jobs /= <<>> /\ r.row \notin DOMAIN jobs
              /\ Done(c)
              /\ UNCHANGED <<syncVars, stack, popover, fault, removed>>
           \/ /\ r.row \in DOMAIN jobs
              /\ Sync!Issue(c, <<RemoveJobAt(jobs[r.row])>>)
              /\ removed' = removed \cup {jobs[r.row]}
              /\ stack' = [stack EXCEPT ![c][r.vc].list = <<>>]
              /\ CloseOwn(c)
              /\ reads' = [reads EXCEPT ![c] =
                    Observe(IF r.over THEN Closed(Tail(@)) ELSE Tail(@),
                            <<Read("SetMyPostedJobs", r.vc)>>,
                            Sync!View(server, puts'[c]))]
              /\ UNCHANGED fault
    /\ UNCHANGED <<launches, drops, posted, request, gone, cut, declined>>

\* DeclineApplicant of ShowApplicantsVC: sender and title of the row are
\* looked for among all jobs of the new snapshot, and RemoveApplication is
\* called for every match.  The list on screen is not read again.
DeclineApplicant(c) ==
    /\ Runs(c, "DeclineApplicant")
    /\ LET r    == Head(reads[c])
           db   == r.snap
           row  == RowAt(stack[c][r.vc].list, r.row)
           jobs == {j \in Job : Applicants(db, j) /= {}}
           hits == {q \in Job \X App : /\ db[q] = row.email
                                       /\ db[<<q[1], "title">>] = row.data["title"]}
       IN  \/ /\ Keys(db) = {}
              /\ Done(c)
              /\ UNCHANGED <<fault, declined>>
           \/ /\ \E j \in jobs : db[<<j, "title">>] = Null
              /\ Trap(c, "cast")
              /\ UNCHANGED declined
           \/ /\ Keys(db) /= {}
              /\ \A j \in jobs : db[<<j, "title">>] /= Null
              /\ reads' = [reads EXCEPT ![c] =
                    Observe(Tail(@),
                            [i \in DOMAIN Enum(hits) |->
                               [Read("RemoveApplication", r.vc) EXCEPT
                                  !.email = row.email, !.title = row.data["title"]]],
                            Sync!View(server, puts[c]))]
              /\ declined' = declined \cup {<<row.email, row.data["title"]>>}
              /\ UNCHANGED fault
    /\ UNCHANGED <<syncVars, stack, popover, launches, drops,
                   posted, request, removed, gone, cut>>

\* RemoveApplication, first callback: the jobs are captured and the tree is
\* read a second time.
RemoveApplication(c) ==
    /\ Runs(c, "RemoveApplication")
    /\ LET r == Head(reads[c])
       IN  reads' = [reads EXCEPT ![c] =
               Observe(Tail(@),
                       <<[Read("RemoveApplication2", r.vc) EXCEPT
                            !.email = r.email, !.title = r.title, !.keys = Keys(r.snap)]>>,
                       Sync!View(server, puts[c]))]
    /\ UNCHANGED <<syncVars, stack, popover, fault, launches, drops, ghostVars>>

\* Mutated: the title is not compared.
MatchesEmailOnly(db, email, title, j) == {a \in App : db[<<j, a>>] = email}

\* The applications of job j that RemoveApplication deletes.
Matches(db, email, title, j) ==
    {a \in App : db[<<j, a>>] = email /\ db[<<j, "title">>] = title}

\* RemoveApplication, second callback: the key of every match is removed
\* below every captured job. The title is cast only where the sender
\* matches; if that fails, the jobs enumerated before are done.
RemoveApplication2(c) ==
    /\ Runs(c, "RemoveApplication2")
    /\ LET r    == Head(reads[c])
           db   == r.snap
           jobs == Enum(Keys(db))
           bad  == {i \in DOMAIN jobs : /\ \E a \in App : db[<<jobs[i], a>>] = r.email
                                        /\ db[<<jobs[i], "title">>] = Null}
           done == {i \in DOMAIN jobs : \A k \in bad : i < k}
           hits == UNION {Matches(db, r.email, r.title, jobs[i]) : i \in done}
           ord  == Enum(r.keys \X hits)
       IN  /\ Sync!Issue(c, [i \in DOMAIN ord |-> RemoveApplicationAt(ord[i])])
           /\ fault' = [fault EXCEPT ![c] =
                          IF jobs = <<>> \/ bad /= {} THEN "cast" ELSE @]
    /\ Done(c)
    /\ UNCHANGED <<stack, popover, launches, drops, ghostVars>>

-----------------------------------------------------------------------------
(* The connection and the process.                                         *)

\* ServerApply, and what it shows: a complete job that is not there any more.
Apply(c) ==
    /\ Sync!ServerApply(c)
    /\ gone' = gone \cup {j \in Job : Complete(server, j) /\ j \notin Keys(server')}
    /\ UNCHANGED <<appVars, launches, drops, posted, request, removed, cut, declined>>

Ack(c) == Sync!AckPut(c) /\ UNCHANGED <<appVars, launches, drops, ghostVars>>

Connect(c) ==
    /\ Running(c)
    /\ Sync!RestoreState(c)
    /\ UNCHANGED <<appVars, launches, drops, ghostVars>>

Disconnect(c) ==
    /\ drops[c] < MaxDrops[c]
    /\ Sync!OnDisconnect(c)
    /\ drops' = [drops EXCEPT ![c] = @ + 1]
    /\ UNCHANGED <<appVars, launches, ghostVars>>

\* Jobs of which a field is among the outstanding puts of c.
InFlight(c) ==
    {j \in Job : \E f \in Field : Sync!Writers(puts[c], <<j, f>>) /= {}}

\* The process ends, by a fault or because iOS or the user ends it.
Kill(c) ==
    /\ Running(c)
    /\ Sync!LosePuts(c)
    /\ cut' = cut \cup InFlight(c)
    /\ stack' = [stack EXCEPT ![c] = <<>>]
    /\ popover' = [popover EXCEPT ![c] = NoPopover]
    /\ reads' = [reads EXCEPT ![c] = <<>>]
    /\ fault' = [fault EXCEPT ![c] = "none"]
    /\ UNCHANGED <<launches, drops, posted, request, removed, gone, declined>>

Callback(c) ==
    \/ SetNewJobs(c) \/ SetMyPostedJobs(c) \/ SetApplicants(c)
    \/ ApplyToJob(c) \/ RemoveJob(c)
    \/ DeclineApplicant(c) \/ RemoveApplication(c) \/ RemoveApplication2(c)

User(c) ==
    \/ Launch(c)
    \/ \E s \in {"CreateJobVC", "PostedJobsVC", "ShowApplicantsVC"} : Present(c, s)
    \/ \E j \in Job, t \in Title : CreateJob(c, j, t)
    \/ Running(c) /\ \E r \in DOMAIN Visible(c).list : Select(c, r) \/ TapDecline(c, r)
    \/ Running(c) /\ (TapApply(c) \/ TapRemove(c))
    \/ Dismiss(c)

Next ==
    \E c \in Client :
        \/ User(c) \/ Deliver(c) \/ Callback(c)
        \/ Apply(c) \/ Ack(c) \/ Connect(c) \/ Disconnect(c)
        \/ Kill(c)

\* The client connects again after every break, the server executes and
\* acknowledges what it receives, and answers reads; the main queue runs.
Fairness ==
    \A c \in Client : /\ WF_vars(Apply(c)) /\ WF_vars(Ack(c)) /\ WF_vars(Connect(c))
                      /\ WF_vars(Deliver(c)) /\ WF_vars(Callback(c))

Spec == Init /\ [][Next]_vars
FairSpec == Spec /\ Fairness

-----------------------------------------------------------------------------
(* Types.                                                                  *)

Screen == {"CreateJobVC", "PostedJobsVC", "ShowApplicantsVC", "ExploreVC"}
Row == [job : Job, email : Client \cup {Null}, data : [Field -> Value \cup {Null}]]
Kind == {"SetNewJobs", "SetMyPostedJobs", "SetApplicants", "ApplyToJob",
         "RemoveJob", "DeclineApplicant", "RemoveApplication", "RemoveApplication2"}

\* The type of the shared tree, the queues and the ghosts.
SharedTypeOK ==
    /\ Sync!SyncTypeOK(JobWrite)
    /\ posted \in [Job -> [title : Title, poster : Poster] \cup {Null}]
    /\ request \in [App -> [job : Job, by : Client] \cup {Null}]
    /\ removed \subseteq Job /\ gone \subseteq Job /\ cut \subseteq Job

ReadOK(c, r) ==
    /\ r.kind \in Kind
    /\ r.vc \in 1..Level(c)
    /\ r.row \in Nat
    /\ r.email \in Client \cup {Null} /\ r.title \in Title \cup {Null}
    /\ r.keys \subseteq Job
    /\ r.over => popover[c] /= NoPopover /\ r.vc = Level(c)
    /\ r.snap \in Sync!DB \cup {NoSnap}

\* The state has its type; a callback's view controller is in the tower and
\* either all callbacks of a client have their snapshot or none has.
BoardTypeOK ==
    /\ SharedTypeOK
    /\ \A c \in Client :
        /\ \A n \in DOMAIN stack[c] :
              /\ stack[c][n].screen \in Screen
              /\ \A i \in DOMAIN stack[c][n].list : stack[c][n].list[i] \in Row
        /\ \A i \in DOMAIN reads[c] :
              /\ ReadOK(c, reads[c][i])
              /\ reads[c][i].snap = NoSnap <=> reads[c][1].snap = NoSnap
        /\ popover[c] /= NoPopover => /\ popover[c].row \in Nat \ {0}
                                      /\ popover[c].job \in Job
        /\ fault[c] \in {"none", "cast", "index"}

-----------------------------------------------------------------------------
(* Safety.                                                                 *)

InOrder(db, j) ==
    \A k, l \in FieldNo :
        k < l /\ db[<<j, FieldOrder[l]>>] /= Null => db[<<j, FieldOrder[k]>>] /= Null

\* The fields of a job that nobody has removed appear in the order in which
\* CreateJob writes them, on the server and in what any client reads: a job
\* with a poster is complete, in spite of seven separate updates, broken
\* connections, resent puts and killed posters.
FieldsInOrder ==
    \A j \in Job \ removed :
        /\ InOrder(server, j)
        /\ \A c \in Client : InOrder(Sync!View(server, puts[c]), j)

\* A field of a posted job is missing on the server only while its put is
\* outstanding, after a removal, or because the poster's process died with
\* puts of this job outstanding.
MissingFieldExplained ==
    \A j \in Job : \A f \in Field :
        posted[j] /= Null /\ server[<<j, f>>] = Null
        => \/ j \in removed \cup cut
           \/ Sync!Writers(puts[posted[j].poster], <<j, f>>) /= {}

\* No job mixes the data of two CreateJobs: whatever field the server or an
\* outstanding put holds is what the one CreateJob of this key was given.
NoTornJob ==
    \A j \in Job : \A f \in Field :
        LET own == IF posted[j] = Null THEN {Null}
                   ELSE {Null, FieldValue(posted[j].title, posted[j].poster, f)}
        IN  /\ server[<<j, f>>] \in own
            /\ \A c \in Client : Sync!View(server, puts[c])[<<j, f>>] \in own

\* Once the server has deleted a complete job, its fields come back only if
\* the connection of its poster has broken, so that puts were sent twice.
RemovalSticks ==
    \A j \in gone : drops[posted[j].poster] = 0 =>
        \A f \in Field : server[<<j, f>>] = Null

\* A poster that is the only one posting, of whose jobs none was removed or
\* cut short, never trips over its own half-written jobs: its reads see all
\* of its own outstanding puts.
LonePosterSafe ==
    \A c \in Poster :
        /\ removed = {} /\ cut = {}
        /\ \A j \in Job : posted[j] /= Null => posted[j].poster = c
        => fault[c] = "none"

\* PostedJobsVC lists no job twice: SetMyPostedJobs empties the list at once
\* and fills it when its read is answered, which is right as long as no
\* second tap on the removal button overlaps the first.
NoRowTwice ==
    \A c \in Client : \A n \in DOMAIN stack[c] :
        LET list == stack[c][n].list IN
        stack[c][n].screen = "PostedJobsVC" =>
            \A i, k \in DOMAIN list : list[i].job = list[k].job => i = k

\* A row number is out of range of the new snapshot only after a removal.
IndexFaultExplained ==
    \A c \in Client : fault[c] = "index" => removed /= {}

\* An application disappears from the server only if its job was removed or
\* its sender was declined for the title of its job.
OnlyDeclinedDisappear ==
    [][\A j \in Job, a \in App :
          server[<<j, a>>] /= Null /\ server'[<<j, a>>] = Null
          => \/ j \in removed
             \/ <<request[a].by, posted[j].title>> \in declined]_vars

\* The fields of job j that the server has, unless it was removed.
Stage(j) == IF j \in removed THEN Null
            ELSE {k \in FieldNo : server[<<j, FieldOrder[k]>>] /= Null}

Lifecycle == INSTANCE JobLifecycle
    WITH FieldCount <- Len(FieldOrder), Withdrawn <- Null, stage <- [j \in Job |-> Stage(j)]

\* The board implements the life cycle of module JobLifecycle: resent puts of
\* a job that nobody removed change nothing for a reader, and no step makes
\* fields of two jobs, or two fields of a job, visible at once.
JobsFollowLifecycle == Lifecycle!LifecycleSpec

-----------------------------------------------------------------------------
(* Liveness.                                                               *)

\* A posted job becomes complete on the server, unless it is removed or its
\* poster dies with puts of it outstanding; every request is answered: a
\* client's callbacks all run, or it dies.
BoardProgress ==
    /\ \A j \in Job : (posted[j] /= Null) ~> (Complete(server, j) \/ j \in removed \cup cut)
    /\ \A c \in Client : []<>(reads[c] = <<>> \/ fault[c] /= "none")

-----------------------------------------------------------------------------
(* What the texts and the checks of the program say, which the code does   *)
(* not keep.                                                               *)

\* EditJobVC removes the job that is on screen: "You can edit/remove the job
\* in your posted jobs section".
RemovesShownJob ==
    [][\A j \in removed' \ removed :
          \E c \in Client : reads[c] /= <<>> /\ Head(reads[c]).shown = j]_vars

=============================================================================

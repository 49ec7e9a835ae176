---------------------------- MODULE CreateJobForm ---------------------------
(***************************************************************************)
(* The form of CreateJobVC, from the tap on "Post Job" to the seven        *)
(* updates (which module JobBoard takes from there).  Three asynchronous   *)
(* steps lie between them: the geocoding request (GetJsonData), the jump   *)
(* from its background queue to the main queue, and the read of the users  *)
(* (FindUser).  The text fields and currentUser are read before and after  *)
(* these steps, while the user can edit, tap again, sign out and sign in   *)
(* as somebody else: CreateJobVC stays alive below the sign-in screen.     *)
(***************************************************************************)
EXTENDS Naturals, FiniteSets

CONSTANTS
    User,       \* accounts that can sign in on this device
    Listed,     \* users with an entry in the users tree
    Place,      \* location texts that the geocoding service knows
    Vague,      \* location texts it answers with ".000" coordinates
    NoURL,      \* location texts of which URL(string:) makes nothing
    Title,      \* texts of the other fields (title, salary, description)
    Empty,      \* an empty text field
    Null,       \* nobody; no coordinates yet
    MaxTaps,    \* bound: taps on the button
    MaxSigns    \* bound: sign-ins

Location == Place \cup Vague \cup NoURL \cup {Empty}

VARIABLES
    title, location,    \* the text fields
    currentUser,
    requests,           \* requests that have not ended
    jobs,               \* jobs that were written, each with its request
    fault,              \* the run-time check that failed and ended the process
    taps, signs

vars == <<title, location, currentUser, requests, jobs, fault, taps, signs>>

\* A request: where is the text sent to the service; at its coordinates,
\* named by the text they belong to; finder the user whose entry is looked
\* up. typed and user (ghosts) are the form and the user at the tap; touched
\* (ghost) says which of title, location and session have changed since.
Request(id) ==
    [id |-> id, state |-> "asked", where |-> location, at |-> Null, finder |-> Null,
     typed |-> title, user |-> currentUser, touched |-> {}]

Init ==
    /\ title = Empty /\ location = Empty
    /\ currentUser \in User
    /\ requests = {} /\ jobs = {}
    /\ fault = "none"
    /\ taps = 0 /\ signs = 0

Touch(what) == requests' = {[r EXCEPT !.touched = @ \cup {what}] : r \in requests}

EditTitle(t) ==
    /\ fault = "none" /\ currentUser /= Null
    /\ t /= title
    /\ title' = t
    /\ Touch("title")
    /\ UNCHANGED <<location, currentUser, jobs, fault, taps, signs>>

EditLocation(l) ==
    /\ fault = "none" /\ currentUser /= Null
    /\ l /= location
    /\ location' = l
    /\ Touch("location")
    /\ UNCHANGED <<title, currentUser, jobs, fault, taps, signs>>

\* CreateJob, the button: the location becomes part of a URL, which is force
\* unwrapped; nothing else is checked and the button stays enabled.
CreateJob ==
    /\ fault = "none" /\ currentUser /= Null
    /\ taps < MaxTaps
    /\ taps' = taps + 1
    /\ IF location \in NoURL
       THEN fault' = "url" /\ UNCHANGED requests
       ELSE requests' = requests \cup {Request(taps + 1)} /\ UNCHANGED fault
    /\ UNCHANGED <<title, location, currentUser, jobs, signs>>

\* Mutated: the answer is kept in the view controller, for all requests.
GetJsonDataShared(r) ==
    /\ fault = "none"
    /\ r \in requests /\ r.state = "asked"
    /\ requests' = {[q EXCEPT !.state = IF q = r THEN "located" ELSE @,
                              !.at = IF r.where = Empty THEN CHOOSE v \in Vague : TRUE
                                     ELSE r.where] : q \in requests}
    /\ UNCHANGED <<title, location, currentUser, jobs, fault, taps, signs>>

\* The completion of GetJsonData, in any order of the requests: coordinates
\* go to the main queue. An answer without them fails the cast; an error of
\* the network or of the parser ends the request without a word.
GetJsonData(r) ==
    /\ fault = "none"
    /\ r \in requests /\ r.state = "asked"
    /\ \/ /\ r.where /= Empty
          /\ requests' = (requests \ {r}) \cup {[r EXCEPT !.state = "located", !.at = r.where]}
          /\ UNCHANGED fault
       \/ /\ fault' = "cast" /\ UNCHANGED requests
       \/ /\ requests' = requests \ {r} /\ UNCHANGED fault
    /\ UNCHANGED <<title, location, currentUser, jobs, taps, signs>>

End(r) == requests' = requests \ {r}

\* Mutated: only the location is checked again.
CheckLocationOnly(r) ==
    /\ fault = "none"
    /\ r \in requests /\ r.state = "located"
    /\ IF location = Empty \/ r.at \in Vague \/ currentUser = Null
       THEN End(r)
       ELSE requests' = (requests \ {r}) \cup
              {[r EXCEPT !.state = "finding", !.finder = currentUser]}
    /\ UNCHANGED <<title, location, currentUser, jobs, fault, taps, signs>>

\* The block on the main queue: all fields are filled in now, the place was
\* found, and the entry of the current user, force unwrapped, is looked up.
Check(r) ==
    /\ fault = "none"
    /\ r \in requests /\ r.state = "located"
    /\ \/ /\ title = Empty \/ location = Empty \/ r.at \in Vague
          /\ End(r) /\ UNCHANGED fault
       \/ /\ title /= Empty /\ location /= Empty /\ r.at \notin Vague
          /\ currentUser = Null
          /\ fault' = "nil" /\ End(r)
       \/ /\ title /= Empty /\ location /= Empty /\ r.at \notin Vague
          /\ currentUser /= Null
          /\ requests' = (requests \ {r}) \cup
                {[r EXCEPT !.state = "finding", !.finder = currentUser]}
          /\ UNCHANGED fault
    /\ UNCHANGED <<title, location, currentUser, jobs, taps, signs>>

\* What the updates write: the fields and the poster as they are now.
Job(r, n) == [id |-> r.id, n |-> n, title |-> title, literal |-> location,
              at |-> r.at, poster |-> currentUser, finder |-> r.finder,
              typed |-> r.typed, user |-> r.user, touched |-> r.touched]

\* Mutated: the handler runs for every user of the list.
FoundAll(r) ==
    /\ fault = "none"
    /\ r \in requests /\ r.state = "finding"
    /\ End(r)
    /\ jobs' = IF currentUser = Null THEN jobs
               ELSE jobs \cup {Job(r, n) : n \in 1..Cardinality(Listed)}
    /\ UNCHANGED <<title, location, currentUser, fault, taps, signs>>

\* Mutated: a user that is not found is looked for again and again.
FoundRetries(r) ==
    /\ fault = "none"
    /\ r \in requests /\ r.state = "finding"
    /\ r.finder \in Listed
    /\ End(r)
    /\ jobs' = IF currentUser = Null THEN jobs ELSE jobs \cup {Job(r, 1)}
    /\ UNCHANGED <<title, location, currentUser, fault, taps, signs>>

\* The handler of FindUser: without an entry nothing happens. Else the text
\* fields are read again; the last update reads currentUser again, and if
\* that is nil the other six may or may not have left the process.
Found(r) ==
    /\ fault = "none"
    /\ r \in requests /\ r.state = "finding"
    /\ End(r)
    /\ IF r.finder \notin Listed THEN UNCHANGED <<jobs, fault>>
       ELSE IF currentUser /= Null
            THEN jobs' = jobs \cup {Job(r, 1)} /\ UNCHANGED fault
            ELSE /\ fault' = "nil"
                 /\ jobs' \in {jobs, jobs \cup {Job(r, 1)}}
    /\ UNCHANGED <<title, location, currentUser, taps, signs>>

SignOut ==
    /\ fault = "none" /\ currentUser /= Null
    /\ currentUser' = Null
    /\ Touch("session")
    /\ UNCHANGED <<title, location, jobs, fault, taps, signs>>

\* Another session starts on top of this view controller.
SignIn(u) ==
    /\ fault = "none" /\ currentUser = Null
    /\ signs < MaxSigns
    /\ currentUser' = u
    /\ signs' = signs + 1
    /\ Touch("session")
    /\ UNCHANGED <<title, location, jobs, fault, taps>>

Progress == \E r \in requests : GetJsonData(r) \/ Check(r) \/ Found(r)

Next ==
    \/ \E t \in Title \cup {Empty} : EditTitle(t)
    \/ \E l \in Location : EditLocation(l)
    \/ CreateJob \/ SignOut
    \/ \E u \in User : SignIn(u)
    \/ Progress

Spec == Init /\ [][Next]_vars

\* URLSession ends every task, the database answers, the main queue runs.
FairSpec == Spec /\ WF_vars(Progress)

-----------------------------------------------------------------------------
\* The state has its type; coordinates are of a place, and a
\* user is looked up exactly while FindUser is under way.
FormTypeOK ==
    /\ title \in Title \cup {Empty} /\ location \in Location
    /\ currentUser \in User \cup {Null}
    /\ \A r \in requests :
        /\ r.id \in 1..taps
        /\ r.state \in {"asked", "located", "finding"}
        /\ r.at \in Place \cup Vague \cup {Null}
        /\ (r.finder /= Null) = (r.state = "finding")
    /\ \A j \in jobs : j.id \in 1..taps
    /\ fault \in {"none", "url", "cast", "nil"}

\* A job has the title, the place and the poster that were there at its tap
\* unless just that was changed while its requests were under way: answers
\* of other requests, whatever their order, never mix into it.
JobIsWhatWasTyped ==
    \A j \in jobs :
        /\ "title" \notin j.touched => j.title = j.typed
        /\ "location" \notin j.touched => j.at = j.literal
        /\ "session" \notin j.touched => j.poster = j.user /\ j.finder = j.user

\* A job is never written with an empty field, with vague coordinates or
\* without a poster, unless the field or the session was changed after the tap.
NothingMissing ==
    \A j \in jobs :
        /\ j.title = Empty => "title" \in j.touched
        /\ j.literal = Empty => "location" \in j.touched
        /\ j.poster = Null => "session" \in j.touched
        /\ j.at \in Place

\* A tap posts at most one job, although FindUser calls its handler in a
\* loop; an impatient second tap posts a second one, under its own key.
OneJobPerTap ==
    \A i, j \in jobs : i.id = j.id => i = j

\* Every tap comes to an end: a job, an alert, or silence.
TapsEnd == \A n \in 1..MaxTaps :
    (\E r \in requests : r.id = n) ~> (fault /= "none" \/ \A r \in requests : r.id /= n)
=============================================================================

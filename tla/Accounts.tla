------------------------------ MODULE Accounts ------------------------------
(***************************************************************************)
(* Registration, sign-in, sign-out and the launch route of the app:        *)
(* AccountHandeler, SignInVC, SignUpVC, SceneDelegate and the user         *)
(* operations of DataHandeler, over the Firebase client of FirebaseSync.   *)
(*                                                                         *)
(* An account lives in two places that no transaction joins: the           *)
(* authentication service (registered) and the users tree of the database, *)
(* where the app itself writes the entry with the account type.  A user    *)
(* stands for the account, its e-mail address and its uid; the entry is    *)
(* one update of five children, hence one leaf.                            *)
(*                                                                         *)
(* calls[d] are the requests of device d that are not finished.  Requests  *)
(* to the authentication service end on a work queue, which sets           *)
(* currentUser, and only then is the callback put on the main queue.       *)
(***************************************************************************)
EXTENDS Naturals, Sequences, FiniteSets

CONSTANTS
    Device,         \* installations of the app
    User,           \* accounts, each with its e-mail address and uid
    UserOrder,      \* the children of users in the order of a snapshot
    Known,          \* Known[u]: the account type of a user of earlier days, or Null
    Null,           \* nobody; no entry
    MaxCalls,       \* bound: unfinished requests when a user taps
    MaxScreens,     \* bound: view controllers on top of each other
    MaxLaunches     \* bound: launches of a device

AccountType == {"Job Searcher", "Job Poster"}
Home == {"ExploreVC", "CreateJobVC"}

VARIABLES
    server, puts, applied, online,  \* users, and the clients of the database
    registered,     \* accounts the authentication service knows
    currentUser,    \* currentUser[d]: kept in the keychain
    screen,         \* screen[d]: the visible view controller, "none" at rest
    depth,          \* depth[d]: how many are presented; names the visible one
    segment,        \* segment[d]: the account type selected in SignUpVC
    calls,          \* calls[d]: unfinished requests
    fault,          \* fault[d]: the run-time check that has just failed
    launches,
    chosen,         \* ghost: the account type that was sent with a registration
    switched,       \* ghost: users whose segment was moved before the answer
    cut,            \* ghost: users whose registration never reached its callback
    signedOut       \* ghost: devices on which somebody has signed out

syncVars == <<server, puts, applied, online>>
uiVars == <<currentUser, screen, depth, segment, calls, fault, launches>>
ghostVars == <<chosen, switched, cut, signedOut>>
vars == <<syncVars, registered, uiVars, ghostVars>>

Sync == INSTANCE FirebaseSync
    WITH Client <- Device, Path <- User, Value <- AccountType

Users(d) == Sync!View(server, puts[d])

\* The home screen of an account type, in SignInVC and SceneDelegate.
HomeOf(type) == IF type = "Job Poster" THEN "CreateJobVC" ELSE "ExploreVC"

Call(kind, u, type, vc, state) ==
    [kind |-> kind, user |-> u, type |-> type, vc |-> vc, state |-> state]

Init ==
    /\ server = Known
    /\ puts = [d \in Device |-> <<>>]
    /\ applied = [d \in Device |-> 0]
    /\ online = [d \in Device |-> FALSE]
    /\ registered = {u \in User : Known[u] /= Null}
    /\ currentUser = [d \in Device |-> Null]
    /\ screen = [d \in Device |-> "none"]
    /\ depth = [d \in Device |-> 0]
    /\ segment = [d \in Device |-> "Job Searcher"]
    /\ calls = [d \in Device |-> {}]
    /\ fault = [d \in Device |-> "none"]
    /\ launches = [d \in Device |-> 0]
    /\ chosen = Known
    /\ switched = {} /\ cut = {} /\ signedOut = {}

Running(d) == depth[d] > 0
Active(d) == Running(d) /\ fault[d] = "none"
Visible(d, vc) == Active(d) /\ screen[d] = vc

-----------------------------------------------------------------------------
(* The process and its launch route.                                       *)

\* scene(_:willConnectTo:): without a user the sign-in screen, else the
\* users are read to find the account type; the window stays empty till then.
Launch(d) ==
    /\ ~Running(d)
    /\ launches[d] < MaxLaunches
    /\ launches' = [launches EXCEPT ![d] = @ + 1]
    /\ depth' = [depth EXCEPT ![d] = 1]
    /\ IF currentUser[d] = Null
       THEN /\ screen' = [screen EXCEPT ![d] = "SignInVC"]
            /\ UNCHANGED calls
       ELSE /\ screen' = [screen EXCEPT ![d] = "empty"]
            /\ calls' = [calls EXCEPT ![d] =
                  {Call("GetUserAccountType", currentUser[d], Null, 1, "waits")}]
    /\ UNCHANGED <<syncVars, registered, currentUser, segment, fault, ghostVars>>

\* Registrations of d that the service has executed or may still execute.
Registering(d) == {k.user : k \in {x \in calls[d] : x.kind = "RegisterUser"}}

\* Mutated: requests survive the process.
KillKeepsCalls(d) ==
    /\ Running(d)
    /\ Sync!LosePuts(d)
    /\ screen' = [screen EXCEPT ![d] = "none"]
    /\ depth' = [depth EXCEPT ![d] = 0]
    /\ segment' = [segment EXCEPT ![d] = "Job Searcher"]
    /\ fault' = [fault EXCEPT ![d] = "none"]
    /\ UNCHANGED <<registered, currentUser, calls, launches, ghostVars>>

\* The process ends: requests, callbacks and puts are gone, the keychain stays.
Kill(d) ==
    /\ Running(d)
    /\ Sync!LosePuts(d)
    /\ cut' = cut \cup Registering(d)
                  \cup {u \in User : Sync!Writers(puts[d], u) /= {}}
    /\ screen' = [screen EXCEPT ![d] = "none"]
    /\ depth' = [depth EXCEPT ![d] = 0]
    /\ segment' = [segment EXCEPT ![d] = "Job Searcher"]
    /\ calls' = [calls EXCEPT ![d] = {}]
    /\ fault' = [fault EXCEPT ![d] = "none"]
    /\ UNCHANGED <<registered, currentUser, launches, chosen, switched, signedOut>>

\* A presents B on top of itself. UIKit refuses when A is not the visible
\* one any more.
PresentFrom(d, vc, new) ==
    IF vc = depth[d]
    THEN /\ screen' = [screen EXCEPT ![d] = new]
         /\ depth' = [depth EXCEPT ![d] = @ + 1]
         /\ segment' = [segment EXCEPT ![d] = "Job Searcher"]
    ELSE UNCHANGED <<screen, depth, segment>>

Trap(d, kind) == fault' = [fault EXCEPT ![d] = kind]

\* Mutated: whoever comes first in the snapshot is the user.
FindUserFirst(db, u) ==
    SelectSeq(UserOrder, LAMBDA x : db[x] /= Null)

\* FindUser: the entries its handler is called with, one after the other:
\* those with the e-mail address, else the first of all users, if any.
FindUser(db, u) ==
    LET all  == SelectSeq(UserOrder, LAMBDA x : db[x] /= Null)
        hits == SelectSeq(all, LAMBDA x : x = u)
    IN  IF hits = <<>> /\ all /= <<>> THEN <<all[1]>> ELSE hits

\* Mutated: without a match the handler is not called.
RouteOnlyFound(d, k) ==
    /\ Active(d) /\ online[d]
    /\ k \in calls[d] /\ k.kind = "GetUserAccountType"
    /\ calls' = [calls EXCEPT ![d] = @ \ {k}]
    /\ IF Users(d)[k.user] = Null
       THEN UNCHANGED screen
       ELSE screen' = [screen EXCEPT ![d] = HomeOf(Users(d)[k.user])]
    /\ UNCHANGED <<syncVars, registered, currentUser, depth, segment, fault, launches,
                   ghostVars>>

\* GetUserAccountType and the route of SceneDelegate: the handler does not
\* look at success, and userSnapshot[0] traps when there are no users.
Route(d, k) ==
    /\ Active(d) /\ online[d]
    /\ k \in calls[d] /\ k.kind = "GetUserAccountType"
    /\ calls' = [calls EXCEPT ![d] = @ \ {k}]
    /\ LET found == FindUser(Users(d), k.user)
       IN  IF found = <<>>
           THEN /\ Trap(d, "index")
                /\ UNCHANGED screen
           ELSE /\ screen' = [screen EXCEPT ![d] = HomeOf(Users(d)[found[1]])]
                /\ UNCHANGED fault
    /\ UNCHANGED <<syncVars, registered, currentUser, depth, segment, launches, ghostVars>>

-----------------------------------------------------------------------------
(* Signing up.                                                             *)

\* PresentSignUpVC: SignUpVC becomes a child of the sign-in screen.
PresentSignUpVC(d) ==
    /\ Visible(d, "SignInVC")
    /\ screen' = [screen EXCEPT ![d] = "SignUpVC"]
    /\ UNCHANGED <<syncVars, registered, currentUser, depth, segment, calls, fault,
                   launches, ghostVars>>

\* Back of SignUpVC presents a new sign-in screen.
Back(d) ==
    /\ Visible(d, "SignUpVC")
    /\ depth[d] < MaxScreens
    /\ PresentFrom(d, depth[d], "SignInVC")
    /\ UNCHANGED <<syncVars, registered, currentUser, calls, fault, launches, ghostVars>>

\* The user moves the segmented control, perhaps while a request waits.
MoveSegment(d) ==
    /\ Visible(d, "SignUpVC")
    /\ segment' = [segment EXCEPT ![d] = CHOOSE t \in AccountType : t /= @]
    /\ switched' = switched \cup Registering(d)
    /\ UNCHANGED <<syncVars, registered, currentUser, screen, depth, calls, fault,
                   launches, chosen, cut, signedOut>>

\* SignUp: all fields are filled in; the account type is that of the segment.
\* The same address may be tried again.
SignUp(d, u) ==
    /\ Visible(d, "SignUpVC")
    /\ Cardinality(calls[d]) < MaxCalls
    /\ calls' = [calls EXCEPT ![d] =
          @ \cup {Call("RegisterUser", u, segment[d], depth[d], "sent")}]
    /\ UNCHANGED <<syncVars, registered, currentUser, screen, depth, segment, fault,
                   launches, ghostVars>>

\* External: the authentication service creates the account.
CreateAccount(d, k) ==
    /\ k \in calls[d] /\ k.kind = "RegisterUser" /\ k.state = "sent"
    /\ k.user \notin registered
    /\ registered' = registered \cup {k.user}
    /\ chosen' = [chosen EXCEPT ![k.user] = k.type]
    /\ calls' = [calls EXCEPT ![d] = (@ \ {k}) \cup {[k EXCEPT !.state = "created"]}]
    /\ UNCHANGED <<syncVars, currentUser, screen, depth, segment, fault, launches,
                   switched, cut, signedOut>>

\* The answer arrives on the work queue: updateCurrentUser saves the user,
\* then the callback is put on the main queue.
AnswerCreated(d, k) ==
    /\ Active(d)
    /\ k \in calls[d] /\ k.kind = "RegisterUser" /\ k.state = "created"
    /\ currentUser' = [currentUser EXCEPT ![d] = k.user]
    /\ calls' = [calls EXCEPT ![d] = (@ \ {k}) \cup {[k EXCEPT !.state = "ok"]}]
    /\ UNCHANGED <<syncVars, registered, screen, depth, segment, fault, launches, ghostVars>>

\* An error is answered: the address is taken, or the network failed, which
\* may be after the account was created. The alert changes nothing.
AnswerError(d, k) ==
    /\ Active(d)
    /\ k \in calls[d] /\ k.state \in {"sent", "created"}
    /\ k.kind \in {"RegisterUser", "LoginUser"}
    /\ calls' = [calls EXCEPT ![d] = @ \ {k}]
    /\ cut' = IF k.state = "created" THEN cut \cup {k.user} ELSE cut
    /\ UNCHANGED <<syncVars, registered, currentUser, screen, depth, segment, fault,
                   launches, chosen, switched, signedOut>>

\* Mutated: the entry is written with the type that is selected now.
RegisterUserLateType(d, k) ==
    /\ Active(d)
    /\ k \in calls[d] /\ k.kind = "RegisterUser" /\ k.state = "ok"
    /\ Sync!Issue(d, <<[x \in {k.user} |-> segment[d]]>>)
    /\ PresentFrom(d, k.vc, HomeOf(segment[d]))
    /\ calls' = [calls EXCEPT ![d] = @ \ {k}]
    /\ UNCHANGED <<registered, currentUser, fault, launches, ghostVars>>

\* Mutated: the callback does not write the entry.
RegisterUserNoEntry(d, k) ==
    /\ Active(d)
    /\ k \in calls[d] /\ k.kind = "RegisterUser" /\ k.state = "ok"
    /\ PresentFrom(d, k.vc, HomeOf(segment[d]))
    /\ calls' = [calls EXCEPT ![d] = @ \ {k}]
    /\ UNCHANGED <<syncVars, registered, currentUser, fault, launches, ghostVars>>

\* The callback of RegisterUser: CreateDBUser writes the entry, and SignUpVC
\* presents the home screen of the segment as it is now.
RegisterUser(d, k) ==
    /\ Active(d)
    /\ k \in calls[d] /\ k.kind = "RegisterUser" /\ k.state = "ok"
    /\ Sync!Issue(d, <<[x \in {k.user} |-> k.type]>>)
    /\ PresentFrom(d, k.vc, HomeOf(segment[d]))
    /\ calls' = [calls EXCEPT ![d] = @ \ {k}]
    /\ UNCHANGED <<registered, currentUser, fault, launches, ghostVars>>

-----------------------------------------------------------------------------
(* Signing in and out.                                                     *)

SignIn(d, u) ==
    /\ Visible(d, "SignInVC")
    /\ Cardinality(calls[d]) < MaxCalls
    /\ depth[d] < MaxScreens
    /\ calls' = [calls EXCEPT ![d] =
          @ \cup {Call("LoginUser", u, Null, depth[d], "sent")}]
    /\ UNCHANGED <<syncVars, registered, currentUser, screen, depth, segment, fault,
                   launches, ghostVars>>

\* Mutated: the callback is queued before the user is saved.
AnswerSignInUnsaved(d, k) ==
    /\ Active(d)
    /\ k \in calls[d] /\ k.kind = "LoginUser" /\ k.state = "sent"
    /\ k.user \in registered
    /\ calls' = [calls EXCEPT ![d] = (@ \ {k}) \cup {[k EXCEPT !.state = "ok"]}]
    /\ UNCHANGED <<syncVars, registered, currentUser, screen, depth, segment, fault,
                   launches, ghostVars>>

\* The service accepts the password; the user is saved, the callback queued.
AnswerSignIn(d, k) ==
    /\ Active(d)
    /\ k \in calls[d] /\ k.kind = "LoginUser" /\ k.state = "sent"
    /\ k.user \in registered
    /\ currentUser' = [currentUser EXCEPT ![d] = k.user]
    /\ calls' = [calls EXCEPT ![d] = (@ \ {k}) \cup {[k EXCEPT !.state = "ok"]}]
    /\ UNCHANGED <<syncVars, registered, screen, depth, segment, fault, launches, ghostVars>>

\* The callback of LoginUser: the account type of the user that is signed in
\* now is read; nil if somebody has signed out since the answer.
LoginUser(d, k) ==
    /\ Active(d)
    /\ k \in calls[d] /\ k.kind = "LoginUser" /\ k.state = "ok"
    /\ IF currentUser[d] = Null
       THEN /\ Trap(d, "nil")
            /\ calls' = [calls EXCEPT ![d] = @ \ {k}]
       ELSE /\ calls' = [calls EXCEPT ![d] = (@ \ {k}) \cup
                  {Call("accountType", currentUser[d], Null, k.vc, "waits")}]
            /\ UNCHANGED fault
    /\ UNCHANGED <<syncVars, registered, currentUser, screen, depth, segment, launches,
                   ghostVars>>

\* The account type arrives; an absent one is no String.
PresentHome(d, k) ==
    /\ Active(d) /\ online[d]
    /\ k \in calls[d] /\ k.kind = "accountType"
    /\ calls' = [calls EXCEPT ![d] = @ \ {k}]
    /\ IF Users(d)[k.user] = Null
       THEN /\ Trap(d, "cast")
            /\ UNCHANGED <<screen, depth, segment>>
       ELSE /\ PresentFrom(d, k.vc, HomeOf(Users(d)[k.user]))
            /\ UNCHANGED fault
    /\ UNCHANGED <<syncVars, registered, currentUser, launches, ghostVars>>

\* SignOut of CreateJobVC and ExploreVC; requests that wait are kept.
SignOut(d) ==
    /\ Active(d) /\ screen[d] \in Home
    /\ depth[d] < MaxScreens
    /\ currentUser' = [currentUser EXCEPT ![d] = Null]
    /\ signedOut' = signedOut \cup {d}
    /\ PresentFrom(d, depth[d], "SignInVC")
    /\ UNCHANGED <<syncVars, registered, calls, fault, launches, chosen, switched, cut>>

-----------------------------------------------------------------------------
Transport(d) ==
    /\ Running(d)
    /\ Sync!ServerApply(d) \/ Sync!AckPut(d) \/ Sync!RestoreState(d)
    /\ UNCHANGED <<registered, uiVars, ghostVars>>

Kind == {"RegisterUser", "LoginUser", "accountType", "GetUserAccountType"}

\* What the service, the database and the main queue do by themselves for
\* the requests of one kind that concern user u.
Progress(d, u, kind) ==
    \E k \in calls[d] :
        /\ k.user = u /\ k.kind = kind
        /\ \/ Route(d, k) \/ PresentHome(d, k)
           \/ AnswerCreated(d, k) \/ AnswerError(d, k) \/ RegisterUser(d, k)
           \/ AnswerSignIn(d, k) \/ LoginUser(d, k)

Tap(d) ==
    \/ PresentSignUpVC(d) \/ Back(d) \/ MoveSegment(d) \/ SignOut(d)
    \/ \E u \in User : SignUp(d, u) \/ SignIn(d, u)

Next ==
    \E d \in Device :
        \/ Launch(d) \/ Kill(d) \/ Tap(d) \/ Transport(d)
        \/ \E u \in User, kind \in Kind : Progress(d, u, kind)
        \/ \E k \in calls[d] : CreateAccount(d, k)

Spec == Init /\ [][Next]_vars

\* Requests are answered and the main queue runs; the client reconnects.
FairSpec ==
    /\ Spec
    /\ \A d \in Device : /\ WF_vars(Transport(d))
                         /\ \A u \in User, kind \in Kind : WF_vars(Progress(d, u, kind))

-----------------------------------------------------------------------------
CallOK(k) ==
    /\ k.kind \in Kind
    /\ k.user \in User /\ k.type \in AccountType \cup {Null}
    /\ k.vc \in Nat /\ k.state \in {"sent", "created", "ok", "waits"}

\* The state has its type; nothing runs or waits on a device at rest.
AccountsTypeOK ==
    /\ Sync!SyncTypeOK({[x \in {u} |-> t] : u \in User, t \in AccountType})
    /\ registered \subseteq User
    /\ \A d \in Device :
        /\ currentUser[d] \in User \cup {Null}
        /\ screen[d] \in Home \cup {"none", "empty", "SignInVC", "SignUpVC"}
        /\ screen[d] = "none" <=> ~Running(d)
        /\ segment[d] \in AccountType
        /\ \A k \in calls[d] : CallOK(k) /\ k.vc <= depth[d]
        /\ fault[d] \in {"none", "nil", "cast", "index"}

\* An account without an entry has one on its way, has its callback still to
\* come, or lost it with a process or an answer: the two halves of
\* RegisterUser are not one transaction, and nothing else separates them.
EntryExplained ==
    \A u \in registered : server[u] = Null =>
        \/ u \in cut
        \/ \E d \in Device : \/ Sync!Writers(puts[d], u) /= {}
                             \/ u \in Registering(d)

\* Whatever the order of taps and answers, an entry holds the account type
\* that was selected when the account's own registration was sent.
EntryIsChosen ==
    \A u \in User : server[u] /= Null => server[u] = chosen[u]

\* A step that brings a home screen brings that of the user's account type,
\* unless the segment was moved under a waiting registration or this
\* device cannot see an entry of the user (FindUser then takes another's).
HomeMatches ==
    \A d \in Device : \A k \in calls[d] :
        /\ screen'[d] \in Home /\ screen'[d] /= screen[d]
        /\ k \notin calls'[d]
        => \/ screen'[d] = HomeOf(chosen[k.user])
           \/ k.user \in switched
           \/ Users(d)[k.user] = Null /\ k.kind = "GetUserAccountType"

HomeMatchesAccount == [][HomeMatches]_vars

\* currentUser! of a finished sign-in fails only on a device where somebody
\* has signed out: the answer saves the user before the callback is queued.
NilNeedsSignOut ==
    \A d \in Device : fault[d] = "nil" => d \in signedOut

\* The entry of an account arrives unless its registration was cut.
EntryArrives ==
    \A u \in User : (u \in registered) ~> (server[u] /= Null \/ u \in cut)

\* No launch waits at an empty window for ever.
WindowFills ==
    \A d \in Device : (screen[d] = "empty") ~> (screen[d] /= "empty" \/ fault[d] /= "none")
=============================================================================

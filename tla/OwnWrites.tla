------------------------------ MODULE OwnWrites -----------------------------
(***************************************************************************)
(* What FirebaseSync promises a client about its own writes, for any       *)
(* program that uses it: a client never sees an older value of a path that *)
(* only it writes, whatever happens to the connection, and what it wrote   *)
(* is on the server once nothing is outstanding any more.                  *)
(*                                                                         *)
(* The clients issue arbitrary batches; Owner says which paths have a      *)
(* single writer.  mine is a ghost: the value the owner wrote last, or,    *)
(* after the owner's process was killed, what had reached the server.      *)
(***************************************************************************)
EXTENDS FirebaseSync

CONSTANTS
    Owner,      \* Owner[p]: the one client that writes p, or Shared
    Shared,     \* not a client: p has several writers
    Write,      \* the writes the clients make
    Batch,      \* sequences of writes issued in one turn of the main queue
    MaxPuts,    \* bound: outstanding puts of a client
    MaxDrops,   \* bound: broken connections
    MaxKills    \* bound: killed processes

ASSUME OwnWritesAssumption ==
    /\ Owner \in [Path -> Client \cup {Shared}]
    /\ Shared \notin Client
    /\ AreWrites(Write)
    /\ Batch \subseteq Seq(Write)
    /\ MaxPuts \in Nat /\ MaxDrops \in Nat /\ MaxKills \in Nat

VARIABLES
    mine,       \* ghost: mine[p] is the last value the owner of p wrote
    drops,      \* how many connections have broken
    kills       \* how many processes were killed

ownVars == <<syncVars, mine, drops, kills>>

Owned(c) == {p \in Path : Owner[p] = c}

\* Client c writes only its own and shared paths.
Allowed(c, ws) ==
    \A i \in DOMAIN ws : \A p \in DOMAIN ws[i] : Owner[p] \in {c, Shared}

OwnInit ==
    /\ SyncInit
    /\ mine = [p \in Path |-> Null]
    /\ drops = 0
    /\ kills = 0

OwnIssue(c, ws) ==
    /\ Allowed(c, ws)
    /\ Len(puts[c]) + Len(ws) <= MaxPuts
    /\ Issue(c, ws)
    /\ mine' = [p \in Path |-> IF Owner[p] = c THEN View(mine, ws)[p] ELSE mine[p]]
    /\ UNCHANGED <<drops, kills>>

OwnDisconnect(c) ==
    /\ drops < MaxDrops
    /\ OnDisconnect(c)
    /\ drops' = drops + 1
    /\ UNCHANGED <<mine, kills>>

\* The writes that had not reached the server are lost with the process.
OwnKill(c) ==
    /\ kills < MaxKills
    /\ LosePuts(c)
    /\ mine' = [p \in Path |-> IF Owner[p] = c THEN server[p] ELSE mine[p]]
    /\ kills' = kills + 1
    /\ UNCHANGED drops

Transport(c) ==
    /\ ServerApply(c) \/ AckPut(c) \/ RestoreState(c)
    /\ UNCHANGED <<mine, drops, kills>>

OwnNext ==
    \E c \in Client :
        \/ \E ws \in Batch : OwnIssue(c, ws)
        \/ Transport(c)
        \/ OwnDisconnect(c)
        \/ OwnKill(c)

\* The client keeps trying to connect (tryScheduleReconnect), a connected
\* client's puts are executed and their acknowledgements arrive.
OwnSpec ==
    /\ OwnInit
    /\ [][OwnNext]_ownVars
    /\ \A c \in Client : WF_ownVars(Transport(c))

-----------------------------------------------------------------------------

\* The queues hold writes, and no more of them are marked executed than
\* there are.
OwnTypeOK ==
    /\ SyncTypeOK(Write)
    /\ mine \in DB
    /\ drops \in Nat
    /\ kills \in Nat

\* A client sees the last value it wrote on each path it alone writes: no
\* broken connection, resent put or late acknowledgement takes it back
\* (calculateCompleteEventCacheAtPath over outstandingPuts).
ReadYourWrites ==
    \A c \in Client : \A p \in Owned(c) : View(server, puts[c])[p] = mine[p]

\* Of the puts the server has executed on this connection, the newest one on
\* an owned path is what the server holds: a resent put may undo a newer
\* one for others to see, but only until that one is resent as well.
ExecutedPrefix ==
    \A c \in Client : \A p \in Owned(c) :
        \A i \in 1..applied[c] :
            (/\ p \in DOMAIN puts[c][i]
             /\ \A k \in i+1..applied[c] : p \notin DOMAIN puts[c][k])
            => server[p] = puts[c][i][p]

\* What a process that is not killed has written reaches the server, in
\* spite of broken connections (sendPut after restoreState).
WritesArrive ==
    \A c \in Client : \A p \in Owned(c) : \A v \in Value :
        (mine[p] = v) ~> (server[p] = v \/ mine[p] /= v)
=============================================================================

---------------------------- MODULE FirebaseSync ----------------------------
(***************************************************************************)
(* The write path of the Firebase Realtime Database client the app links.  *)
(*                                                                         *)
(* Every updateChildValues / removeValue of a client becomes a put: it is  *)
(* appended to the FIFO outstandingPuts, overlaid at once on what this     *)
(* client reads (latency compensation), sent whenever there is a           *)
(* connection, and dropped when its acknowledgement arrives.  A lost       *)
(* connection loses acknowledgements, so restoreState sends every put      *)
(* that is still outstanding again, in order: delivery is at least once.   *)
(* Disk persistence is off, so a killed process forgets its puts.          *)
(*                                                                         *)
(* A database is a function from paths (leaves of the JSON tree) to values *)
(* or Null; a write is a function on the paths it sets, so that removing a *)
(* subtree is a write of Null to all its leaves.                           *)
(***************************************************************************)
EXTENDS Naturals, Sequences, FiniteSetsExt

CONSTANTS
    Client,     \* running copies of the app, each with its own connection
    Path,       \* the leaves of the database
    Value,      \* what a leaf may hold
    Null        \* an absent leaf

ASSUME NullAssumption == Null \notin Value

VARIABLES
    server,     \* the database as the server has it
    puts,       \* puts[c]: outstandingPuts of client c, oldest first
    applied,    \* applied[c]: how many of puts[c] the server has executed
                \* on the current connection
    online      \* online[c]: the connection of c is established

syncVars == <<server, puts, applied, online>>

DB == [Path -> Value \cup {Null}]

ApplyWrite(db, w) ==
    [p \in Path |-> IF p \in DOMAIN w THEN w[p] ELSE db[p]]

\* The puts of queue q that write p.
Writers(q, p) == {i \in DOMAIN q : p \in DOMAIN q[i]}

\* Mutated: a client sees its writes only when the server has them.
ServerOnlyView(db, q) == db

\* Mutated: the oldest pending put of a path wins, not the newest.
OldestPutView(db, q) ==
    [p \in Path |-> IF Writers(q, p) = {} THEN db[p]
                    ELSE q[Min(Writers(q, p))][p]]

\* What a client with outstanding puts q reads of the database: at every
\* path its newest own put wins over the server's data.
View(db, q) ==
    [p \in Path |-> IF Writers(q, p) = {} THEN db[p]
                    ELSE q[Max(Writers(q, p))][p]]

\* A set W of writes: each sets some paths, to a value or to Null.
AreWrites(W) ==
    \A w \in W : /\ DOMAIN w \subseteq Path
                 /\ \A p \in DOMAIN w : w[p] \in Value \cup {Null}

\* The type of the state when the clients make only writes of W.
SyncTypeOK(W) ==
    /\ server \in DB
    /\ puts \in [Client -> Seq(W)]
    /\ applied \in [Client -> Nat]
    /\ \A c \in Client : applied[c] <= Len(puts[c])
    /\ online \in [Client -> BOOLEAN]

-----------------------------------------------------------------------------

SyncInit ==
    /\ server = [p \in Path |-> Null]
    /\ puts = [c \in Client |-> <<>>]
    /\ applied = [c \in Client |-> 0]
    /\ online = [c \in Client |-> FALSE]

\* FRepo update / set and putInternal: the writes join the queue in the
\* order the app made them; a connected client also sends them.
Issue(c, ws) ==
    /\ puts' = [puts EXCEPT ![c] = @ \o ws]
    /\ UNCHANGED <<server, applied, online>>

\* Mutated: puts overtake each other on their way to the server.
ServerApplyAnyPut(c) ==
    /\ online[c]
    /\ applied[c] < Len(puts[c])
    /\ \E i \in applied[c] + 1 .. Len(puts[c]) :
          server' = ApplyWrite(server, puts[c][i])
    /\ applied' = [applied EXCEPT ![c] = @ + 1]
    /\ UNCHANGED <<puts, online>>

\* Mutated: a put may be executed a second time on the same connection.
ServerApplyTwice(c) ==
    /\ online[c]
    /\ applied[c] < Len(puts[c])
    /\ server' = ApplyWrite(server, puts[c][applied[c] + 1])
    /\ \/ applied' = [applied EXCEPT ![c] = @ + 1]
       \/ UNCHANGED applied
    /\ UNCHANGED <<puts, online>>

\* External: the server executes the next put that it received from c. Puts
\* are sent in queue order over one connection.
ServerApply(c) ==
    /\ online[c]
    /\ applied[c] < Len(puts[c])
    /\ server' = ApplyWrite(server, puts[c][applied[c] + 1])
    /\ applied' = [applied EXCEPT ![c] = @ + 1]
    /\ UNCHANGED <<puts, online>>

\* Mutated: an acknowledged put still counts as executed.
AckKeepsCount(c) ==
    /\ online[c]
    /\ applied[c] > 0
    /\ puts' = [puts EXCEPT ![c] = Tail(@)]
    /\ UNCHANGED <<server, applied, online>>

\* The callback of sendPut: the acknowledgement of the oldest executed put
\* arrives and the put is forgotten (ackWrite ends its overlay).
AckPut(c) ==
    /\ online[c]
    /\ applied[c] > 0
    /\ puts' = [puts EXCEPT ![c] = Tail(@)]
    /\ applied' = [applied EXCEPT ![c] = @ - 1]
    /\ UNCHANGED <<server, online>>

\* Mutated: the puts sent on a broken connection are given up.
DropSentPuts(c) ==
    /\ online[c]
    /\ online' = [online EXCEPT ![c] = FALSE]
    /\ puts' = [puts EXCEPT ![c] = <<>>]
    /\ applied' = [applied EXCEPT ![c] = 0]
    /\ UNCHANGED server

\* onDisconnect: whatever was executed but not acknowledged will be sent
\* again, because requestCBHash is emptied and the puts stay outstanding.
OnDisconnect(c) ==
    /\ online[c]
    /\ online' = [online EXCEPT ![c] = FALSE]
    /\ applied' = [applied EXCEPT ![c] = 0]
    /\ UNCHANGED <<server, puts>>

\* Mutated: a broken connection is never established again.
NeverRestore(c) == FALSE /\ UNCHANGED syncVars

\* A connection is established and restoreState sends all outstanding puts,
\* sorted by their index; nothing of it is executed yet.
RestoreState(c) ==
    /\ ~online[c]
    /\ online' = [online EXCEPT ![c] = TRUE]
    /\ UNCHANGED <<server, puts, applied>>

\* External: the process ends; outstanding puts are only in its memory.
LosePuts(c) ==
    /\ puts' = [puts EXCEPT ![c] = <<>>]
    /\ applied' = [applied EXCEPT ![c] = 0]
    /\ online' = [online EXCEPT ![c] = FALSE]
    /\ UNCHANGED server
=============================================================================

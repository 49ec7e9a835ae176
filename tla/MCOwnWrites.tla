----------------------------- MODULE MCOwnWrites ----------------------------
(* Two clients, a path of each and a path both write.                      *)
EXTENDS OwnWrites, SequencesExt

CONSTANTS a, b, pa, pb, ps, x, y

MCOwner == [p \in {pa, pb, ps} |->
              CASE p = pa -> a [] p = pb -> b [] p = ps -> Shared]

Set(p, v) == [q \in {p} |-> v]

\* Single updates, updates of two leaves, a removal.
MCWrite == {Set(pa, x), Set(pa, y), Set(ps, Null),
            [q \in {pa, ps} |-> x], [q \in {pb, ps} |-> IF q = ps THEN y ELSE x]}

MCBatch == {<<Set(pa, x), Set(pa, y)>>, <<Set(ps, Null)>>,
            <<[q \in {pa, ps} |-> x]>>, <<[q \in {pb, ps} |-> IF q = ps THEN y ELSE x]>>}

\* What a client reads is the server's database after all of its outstanding
\* puts, one after the other: the overlay of FWriteTree (layerTreeFromWrites)
\* against replaying the queue.
ViewIsReplay ==
    \A c \in Client : View(server, puts[c]) = FoldLeft(ApplyWrite, server, puts[c])
=============================================================================

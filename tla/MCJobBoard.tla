----------------------------- MODULE MCJobBoard -----------------------------
(* Small boards for TLC.                                                   *)
EXTENDS JobBoard, SequencesExt

CONSTANTS p, q, s, j1, j2, j3, a1, a2, t1, t2

\* An order of keys in which j2 comes before j1 and a2 before a1.
Rank(k) == CASE k = j2 -> 1 [] k = j1 -> 2 [] k = a2 -> 3 [] k = a1 -> 4 [] k = j3 -> 5

MCEnum(S) ==
    SetToSortSeq(S, LAMBDA x, y :
        IF x \in Job \X App
        THEN \/ Rank(x[1]) < Rank(y[1])
             \/ x[1] = y[1] /\ Rank(x[2]) < Rank(y[2])
        ELSE Rank(x) < Rank(y))

\* A list of two entries is shown in reverse order, longer ones as they are.
MCRowOrder == [n \in 0..4 |-> IF n = 2 THEN <<2, 1>> ELSE [i \in 1..n |-> i]]

\* The first, a middle and the last of the fields of CreateJobVC.
ThreeFields == <<"title", "salary", "jobPoster">>

\* Bounds by client.
Once == [c \in Client |-> 1]
Never == [c \in Client |-> 0]
PosterOnce == [c \in Client |-> IF c = p THEN 1 ELSE 0]
PosterTwice == [c \in Client |-> IF c = p THEN 2 ELSE 1]

\* An empty board.
NoAds == [j \in Job |-> Null]

\* A board with the job j1 of p.
PAds == [j \in Job |-> IF j = j1 THEN [title |-> t1, poster |-> p] ELSE Null]

\* A board with every job of Job: j1 is by p with title t1, the others are by
\* q if it is a poster, with title t2 if that is one.
FullBoard == [j \in Job |->
                IF j = j1 THEN [title |-> t1, poster |-> p]
                ELSE [title |-> IF t2 \in Title THEN t2 ELSE t1,
                      poster |-> IF q \in Poster THEN q ELSE p]]
=============================================================================

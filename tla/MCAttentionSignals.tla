------------------------- MODULE MCAttentionSignals -------------------------
(***************************************************************************)
(* Instances of AttentionSignals for TLC: events of one student, runs of   *)
(* one student, and the code of three.                                     *)
(***************************************************************************)
EXTENDS AttentionSignals

CONSTANTS w1, w2

\* Two events of the student, and the one that ends the session.
TwoEvents == [s \in Sessions |-> 2]

EventsRunsLines ==
    {[sessions |-> {1}, events |-> TRUE, snaps |-> 0, runs |-> 0],
     [sessions |-> {1}, events |-> FALSE, snaps |-> 1, runs |-> 3],
     [sessions |-> {1}, events |-> FALSE, snaps |-> 2, runs |-> 2],
     [sessions |-> {1, 2, 3}, events |-> FALSE, snaps |-> 1, runs |-> 0]}

\* Schedulers are interchangeable.
SchedulerSymmetry == Permutations(Schedulers)
=============================================================================

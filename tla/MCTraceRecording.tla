-------------------------- MODULE MCTraceRecording -------------------------
(***************************************************************************)
(* Instances of TraceRecording for TLC.                                    *)
(***************************************************************************)
EXTENDS TraceRecording, TLC

CONSTANTS l1, l2

\* Lives are interchangeable.
LifeSymmetry == Permutations(Lives)

\* Bounds: the student submits or ends in one opening at a time, and nobody waits for two
\* batches at most; in a browser that is not orderly for one, and for none while the student
\* submits or ends.
Asking == {l \in Lives : rec[l].ask # "none"}
FewLoose == Cardinality(late) <= IF orderly THEN 2 ELSE IF Asking = {} THEN 1 ELSE 0
Bounds == Cardinality(Asking) <= 1 /\ FewLoose

BoundedSpec == Init /\ [][Next /\ Bounds']_vars
=============================================================================

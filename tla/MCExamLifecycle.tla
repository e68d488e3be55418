-------------------------- MODULE MCExamLifecycle --------------------------
(***************************************************************************)
(* Instances of ExamLifecycle for TLC.                                     *)
(***************************************************************************)
EXTENDS ExamLifecycle, TLC

CONSTANTS a, b, q1, c1, i1, i2, r1, r2

\* Requests and session ids are interchangeable.
RequestSymmetry == Permutations({r1, r2}) \union Permutations({i1, i2})

\* The owner's edits are written before the exam is published; in exam_ends they may
\* come as late as they like.
EditsInTime == Init /\ [][Next /\ (edit' = NoEdit \/ exam' = "DRAFT")]_vars
=============================================================================

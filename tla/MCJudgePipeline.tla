-------------------------- MODULE MCJudgePipeline --------------------------
(***************************************************************************)
(* Instances of JudgePipeline for TLC.                                     *)
(***************************************************************************)
EXTENDS JudgePipeline, TLC

CONSTANTS r1, s1, s2, s3, s4, s5, q1, q2, p1, w1, w2

\* s1 and s2 answer two problems of one exam participation.
ExamPairProblems       == [j \in {s1, s2} |-> IF j = s1 THEN q1 ELSE q2]
ExamPairParticipations == [j \in {s1, s2} |-> p1]

\* Three submissions of one exam participation, two of them to one problem, and two
\* practice submissions of one problem.
PoolSubmissions    == {s1, s2, s3, s4, s5}
PoolProblems       == [j \in PoolSubmissions |-> IF j = s3 THEN q2 ELSE q1]
PoolParticipations == [j \in PoolSubmissions |-> IF j \in {s4, s5} THEN Practice ELSE p1]

\* The workers are interchangeable, and so are submissions alike.
PoolSymmetry == Permutations({w1, w2}) \union Permutations({s1, s2}) \union Permutations({s4, s5})

\* The exam's submissions or the practice submissions are made, not both: they meet
\* nowhere but in the queue.
PoolSpec ==
    Init /\ [][Next /\ \E S \in {ExamJobs, PracticeJobs} :
                         \A j \in Jobs : row'[j] # NoRow => j \in S]_vars
=============================================================================

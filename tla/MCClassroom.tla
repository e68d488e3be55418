----------------------------- MODULE MCClassroom ----------------------------
(***************************************************************************)
(* Instances of Classroom for TLC: three scenes.  SetUp is the teacher     *)
(* preparing an exam, InClass the class and its student before and after a *)
(* publish, Graded the judge in an exam that is under way.                 *)
(***************************************************************************)
EXTENDS Classroom, TLC

OneCase == [order |-> 1, weight |-> 1, text |-> "t"]

\* An exam as publish_exam leaves it, of a problem of any visibility.
Published(v) == [NewDb EXCEPT !.status = "SCHEDULED", !.attached = TRUE, !.assigned = TRUE,
                              !.cases = {OneCase}, !.vis = v]

SetUp == [ops |-> {"createCase", "updateCase", "deleteCase", "deleteProblem", "attach", "detach",
                   "assign", "unassign", "publishExam"},
          grading |-> FALSE, db |-> NewDb]

InClass == {[ops |-> {"enroll", "join", "remove", "rotateCode", "updateClass", "publishToClass",
                      "unpublish", "updateProblem", "deleteProblem", "startPractice", "joinExam"},
             grading |-> FALSE, db |-> start] : start \in {NewDb} \cup {Published(v) : v \in Visibility}}

\* Test cases numbered from 1, of every choice of weights.
Graded == {[ops |-> {}, grading |-> TRUE,
            db |-> [Published("PRIVATE") EXCEPT !.status = "ONGOING", !.clock = "during", !.cases =
                      {[order |-> i, weight |-> f[i], text |-> "t"] : i \in DOMAIN f}]] :
               f \in UNION {[1 .. n -> Weights] : n \in 1 .. 3}}

AllScenes == {SetUp} \cup InClass \cup Graded

Symmetry == Permutations(Requests)
=============================================================================

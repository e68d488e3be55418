------------------------------ MODULE Classroom ------------------------------
(***************************************************************************)
(* Around an exam: a teacher edits a problem, its test cases, the class    *)
(* and the exam, a student joins, practises and sits it, and the worker    *)
(* judges with the test cases it finds.  A request reads and checks what   *)
(* it needs, and writes and commits later without looking again.           *)
(*                                                                         *)
(* One class, one student, one problem, one exam, all of one teacher, so   *)
(* the tests of ownership always succeed and are left out.  The life of    *)
(* the exam itself is in ExamLifecycle, of which this module keeps what    *)
(* freezes the problem: publish, start and end.                            *)
(***************************************************************************)
EXTENDS Grader, TLC

CONSTANTS
    Requests,   (* places for requests under way, each used again and again  *)
    Orders,     (* bound: order_index of the test cases                      *)
    Weights,    (* bound: score_weight                                       *)
    Texts,      (* bound: input and expected output of a test case           *)
    Scenes      (* bound: which operations are asked for together, and where *)
                (* they start: records with ops, grading and db              *)

ASSUME ClassroomAssumption == Orders \subseteq Nat /\ Weights \subseteq Nat

AnyCase == [order : Nat, weight : Nat, text : Texts]
Case == [order : Orders, weight : Weights, text : Texts]
Visibility == {"PRIVATE", "CLASS", "PUBLIC"}
Statuses == {"DRAFT", "SCHEDULED", "ONGOING", "ENDED", "CANCELLED"}

Rows == [open : BOOLEAN, code : {"old", "new"}, member : {"none", "active", "removed"},
         vis : Visibility, deleted : BOOLEAN, cases : SUBSET AnyCase, published : BOOLEAN,
         attempts : Nat, status : Statuses, clock : {"before", "during", "after"},
         attached : BOOLEAN, assigned : BOOLEAN,
         participation : {"none", "IN_PROGRESS", "over"}]

\* What publish_exam asks of an exam that students will take.
Ready(d) == d.assigned /\ d.attached /\ d.cases # {}

\* Scenes start from rows that the program can have.
ASSUME ScenesAssumption ==
    \A s \in Scenes : /\ s.db \in Rows
                      /\ IsFiniteSet(s.db.cases)
                      /\ s.db.status \in {"SCHEDULED", "ONGOING"} => Ready(s.db)

VARIABLES
    db,       (* the rows, as committed                                      *)
    req,      (* per place, the request that passed its checks and has not   *)
              (* committed                                                   *)
    scene,    (* bound: the scene chosen at the start                        *)
    graded,   (* history: the test cases used before the exam was ended      *)
    raced     (* history: a request changed rows its checks would now refuse *)

vars == <<db, req, scene, graded, raced, job>>

\* A class without members, a problem without test cases and an exam to come.
NewClass == [open |-> TRUE, code |-> "old", member |-> "none"]
NewProblem == [vis |-> "PRIVATE", deleted |-> FALSE, cases |-> {}, published |-> FALSE, attempts |-> 0]
NewExam == [status |-> "DRAFT", clock |-> "before", attached |-> FALSE, assigned |-> FALSE,
            participation |-> "none"]
NewDb == NewClass @@ NewProblem @@ NewExam

NoCase == [order |-> 0, weight |-> 0, text |-> ""]
Idle == [op |-> "none", arg |-> "", row |-> NoCase]

UsedOrders == {c.order : c \in db.cases}
OrdersReferred == {req[x].row.order : x \in {y \in Requests : req[y].op \in {"updateCase", "deleteCase"}}}

\* Mutant of Frozen: an exam that has started no longer freezes its problems.
FrozenUntilStart == db.attached /\ db.status = "SCHEDULED"

Frozen == db.attached /\ db.status \in {"SCHEDULED", "ONGOING"}

Mutable == ~db.deleted /\ ~Frozen

\* Mutant of Editable: a published exam can be edited until it starts.
NotStarted == db.status \in {"DRAFT", "SCHEDULED"}

Editable == db.status = "DRAFT"

Enrolled == db.member = "active"

Publishable ==
    /\ db.status = "DRAFT"
    /\ db.clock = "before"
    /\ Ready(db)

ExamOpen == db.status \in {"SCHEDULED", "ONGOING"} /\ db.clock = "during"

ParticipationActive ==
    /\ db.participation = "IN_PROGRESS"
    /\ db.clock = "during"
    /\ db.status # "CANCELLED"

----------------------------------------------------------------------------
\* Three places decide which problems a student may practise on.

\* get_problem
Viewable ==
    /\ ~db.deleted
    /\ \/ db.vis = "PUBLIC" /\ Enrolled
       \/ db.vis = "CLASS" /\ Enrolled /\ db.published

\* Mutant of Listed: what is published to the class is listed, whatever became of it.
ListedOncePublished == ~db.deleted /\ Enrolled /\ (db.vis = "PUBLIC" \/ db.published)

\* get_practice_problems_for_student
Listed ==
    /\ Enrolled
    /\ ~db.deleted
    /\ db.vis = "PUBLIC" \/ (db.vis = "CLASS" /\ db.published)

\* start_practice_session
Practisable ==
    /\ ~db.deleted
    /\ db.vis # "PRIVATE"
    /\ db.vis = "PUBLIC" => Enrolled
    /\ db.vis = "CLASS" => Enrolled /\ db.published

----------------------------------------------------------------------------
Init ==
    \E s \in Scenes :
        /\ scene = [ops |-> s.ops, grading |-> s.grading]
        /\ db = s.db
        /\ req = [x \in Requests |-> Idle]
        /\ graded = {}
        /\ raced = FALSE
        /\ job = NoJob

\* publish_exam holds the exam row FOR UPDATE to its commit.
ExamLocked == \E x \in Requests : req[x].op = "publishExam"

\* An operation has three definitions: May.. is what the code checks on the rows it reads,
\* Ask.. a request that passes these checks, and the third writes and commits.

Passes(x, op, arg, row) ==
    /\ op \in scene.ops
    /\ req' = [req EXCEPT ![x] = [op |-> op, arg |-> arg, row |-> row]]
    /\ UNCHANGED <<db, scene, graded, raced, job>>

\* A row that is gone, or one that a unique constraint refuses, makes the request fail and
\* changes nothing: rows is db then.
Commits(x, op, allowed, rows) ==
    /\ req[x].op = op
    /\ db' = rows
    /\ raced' = (raced \/ (rows # db /\ ~allowed))
    /\ req' = [req EXCEPT ![x] = Idle]
    /\ UNCHANGED <<scene, graded, job>>

----------------------------------------------------------------------------
(* Test cases.  order_index is unique in the problem and names the row here: bound, a new   *)
(* case takes no order_index that a request under way refers to.                            *)

MayCreateCase(c) == Mutable /\ c.order \notin UsedOrders
AskCreateCase(x) ==
    \E c \in Case : /\ c.order \notin OrdersReferred
                    /\ MayCreateCase(c)
                    /\ Passes(x, "createCase", "", c)
CreateCase(x) ==
    LET c == req[x].row
    IN  Commits(x, "createCase", MayCreateCase(c),
                IF c.order \in UsedOrders THEN db ELSE [db EXCEPT !.cases = @ \cup {c}])

\* An update that changes nothing is never written.
MayUpdateCase(c) == Mutable /\ c.order \in UsedOrders
AskUpdateCase(x) ==
    \E c \in Case \ db.cases : MayUpdateCase(c) /\ Passes(x, "updateCase", "", c)
UpdateCase(x) ==
    LET new == req[x].row
    IN  Commits(x, "updateCase", MayUpdateCase(new),
                [db EXCEPT !.cases = {IF c.order = new.order THEN new ELSE c : c \in @}])

MayDeleteCase(n) == Mutable /\ n \in UsedOrders
AskDeleteCase(x) ==
    \E n \in Orders : MayDeleteCase(n) /\ Passes(x, "deleteCase", "", [NoCase EXCEPT !.order = n])
DeleteCase(x) ==
    LET n == req[x].row.order
    IN  Commits(x, "deleteCase", MayDeleteCase(n), [db EXCEPT !.cases = {c \in @ : c.order # n}])

----------------------------------------------------------------------------
(* The problem                                                              *)

AskUpdateProblem(x) ==
    \E v \in Visibility \ {db.vis} : Mutable /\ Passes(x, "updateProblem", v, NoCase)
UpdateProblem(x) == Commits(x, "updateProblem", Mutable, [db EXCEPT !.vis = req[x].arg])

AskDeleteProblem(x) == Mutable /\ Passes(x, "deleteProblem", "", NoCase)
DeleteProblem(x) == Commits(x, "deleteProblem", Mutable, [db EXCEPT !.deleted = TRUE])

MayPublishToClass == ~db.deleted /\ ~db.published /\ db.vis # "PRIVATE"
AskPublishToClass(x) == MayPublishToClass /\ Passes(x, "publishToClass", "", NoCase)
PublishToClass(x) ==
    Commits(x, "publishToClass", MayPublishToClass, [db EXCEPT !.published = TRUE])

MayUnpublish == db.published
AskUnpublish(x) == MayUnpublish /\ Passes(x, "unpublish", "", NoCase)
Unpublish(x) == Commits(x, "unpublish", MayUnpublish, [db EXCEPT !.published = FALSE])

----------------------------------------------------------------------------
(* The exam.  The foreign key of a new exam_problems or exam_assignments row waits for the  *)
(* lock of publish_exam.                                                                    *)

MayAttach == Editable /\ ~db.deleted /\ ~db.attached
AskAttach(x) == MayAttach /\ Passes(x, "attach", "", NoCase)
Attach(x) == ~ExamLocked /\ Commits(x, "attach", MayAttach, [db EXCEPT !.attached = TRUE])

MayDetach == Editable /\ db.attached
AskDetach(x) == MayDetach /\ Passes(x, "detach", "", NoCase)
Detach(x) == Commits(x, "detach", MayDetach, [db EXCEPT !.attached = FALSE])

MayAssign == Editable /\ ~db.assigned
AskAssign(x) == MayAssign /\ Passes(x, "assign", "", NoCase)
Assign(x) == ~ExamLocked /\ Commits(x, "assign", MayAssign, [db EXCEPT !.assigned = TRUE])

MayUnassign == Editable /\ db.assigned
AskUnassign(x) == MayUnassign /\ Passes(x, "unassign", "", NoCase)
Unassign(x) == Commits(x, "unassign", MayUnassign, [db EXCEPT !.assigned = FALSE])

AskPublishExam(x) == Publishable /\ ~ExamLocked /\ Passes(x, "publishExam", "", NoCase)
PublishExam(x) == Commits(x, "publishExam", Publishable, [db EXCEPT !.status = "SCHEDULED"])

----------------------------------------------------------------------------
(* The class                                                                *)

MayEnrollStudent == ~Enrolled
AskEnrollStudent(x) == MayEnrollStudent /\ Passes(x, "enroll", "", NoCase)
EnrollStudent(x) == Commits(x, "enroll", MayEnrollStudent, [db EXCEPT !.member = "active"])

MayJoinClass(code) == code = db.code /\ db.open /\ ~Enrolled
AskJoinClass(x) == \E code \in {"old", "new"} : MayJoinClass(code) /\ Passes(x, "join", code, NoCase)
JoinClass(x) == Commits(x, "join", MayJoinClass(req[x].arg), [db EXCEPT !.member = "active"])

MayRemoveStudent == Enrolled
AskRemoveStudent(x) == MayRemoveStudent /\ Passes(x, "remove", "", NoCase)
RemoveStudent(x) == Commits(x, "remove", MayRemoveStudent, [db EXCEPT !.member = "removed"])

\* The only field of a class that matters here: whether it takes students.
AskUpdateClass(x) ==
    \E a \in {"open", "closed"} : /\ (a = "open") # db.open
                                  /\ Passes(x, "updateClass", a, NoCase)
UpdateClass(x) ==
    LET open == req[x].arg = "open"
    IN  Commits(x, "updateClass", open # db.open, [db EXCEPT !.open = open])

\* Bound: the code is changed once.
AskRotateCode(x) == db.code = "old" /\ Passes(x, "rotateCode", "", NoCase)
RotateCode(x) == Commits(x, "rotateCode", db.code = "old", [db EXCEPT !.code = "new"])

----------------------------------------------------------------------------
(* The student                                                              *)

MayJoinExam == ExamOpen /\ Enrolled /\ db.assigned /\ db.participation = "none"
AskJoinExam(x) == MayJoinExam /\ Passes(x, "joinExam", "", NoCase)
JoinExam(x) ==
    Commits(x, "joinExam", MayJoinExam,
            IF db.participation = "none" THEN [db EXCEPT !.participation = "IN_PROGRESS"] ELSE db)

\* practice_attempts has no unique constraint: "first" found no attempt and will insert one,
\* so that two requests that found none insert two.
MayStartPractice(found) ==
    ~ParticipationActive /\ Practisable /\ (found = "first") = (db.attempts = 0)
AskStartPractice(x) ==
    \E found \in {"first", "again"} : /\ MayStartPractice(found)
                                      /\ Passes(x, "startPractice", found, NoCase)
StartPractice(x) ==
    Commits(x, "startPractice", MayStartPractice(req[x].arg),
            [db EXCEPT !.attempts = IF req[x].arg = "first" THEN @ + 1 ELSE @])

----------------------------------------------------------------------------
(* The clock, the scheduler and the worker                                  *)

ClockTick ==
    /\ db.clock # "after"
    /\ db' = [db EXCEPT !.clock = IF @ = "before" THEN "during" ELSE "after"]
    /\ UNCHANGED <<req, scene, graded, raced, job>>

SchedulerStarts ==
    /\ db.status = "SCHEDULED"
    /\ db.clock # "before"
    /\ ~ExamLocked
    /\ db' = [db EXCEPT !.status = "ONGOING"]
    /\ UNCHANGED <<req, scene, graded, raced, job>>

SchedulerEnds ==
    /\ db.status = "ONGOING"
    /\ db.clock = "after"
    /\ db' = [db EXCEPT !.status = "ENDED",
                        !.participation = IF @ = "IN_PROGRESS" THEN "over" ELSE @]
    /\ UNCHANGED <<req, scene, graded, raced, job>>

\* The test cases by order_index, which is unique in the problem.
Ordered(C) == {s \in [1 .. Cardinality(C) -> C] :
                 \A i, j \in DOMAIN s : i < j => s[i].order < s[j].order}

\* The worker never looks at the exam: a submission, which there can be from the start time
\* on, is judged whenever its job arrives, with the test cases found then; without any, or
\* with the problem detached, it fails.  Bounds: outside the scene that looks into the grading
\* only the cases count, and at most two sets of them.
LoadCases ==
    /\ db.status \in {"SCHEDULED", "ONGOING", "ENDED"}
    /\ db.clock # "before"
    /\ db.attached
    /\ db.cases # {}
    /\ Cardinality(graded) < 2
    /\ graded' = IF db.status = "ENDED" THEN graded ELSE graded \cup {db.cases}
    /\ IF scene.grading
       THEN /\ job.pc = "idle"
            /\ \E s \in Ordered(db.cases), lang \in Languages, base \in Bases :
                 StartJob(s, lang, base)
       ELSE UNCHANGED job
    /\ UNCHANGED <<db, req, scene, raced>>

Judge == (RunCase \/ FinishJob) /\ UNCHANGED <<db, req, scene, graded, raced>>

\* Bound: after a stale write nothing new is asked for.
Ask(x) ==
    /\ req[x] = Idle
    /\ ~raced
    /\ \/ AskCreateCase(x) \/ AskUpdateCase(x) \/ AskDeleteCase(x)
       \/ AskUpdateProblem(x) \/ AskDeleteProblem(x) \/ AskPublishToClass(x) \/ AskUnpublish(x)
       \/ AskAttach(x) \/ AskDetach(x) \/ AskAssign(x) \/ AskUnassign(x) \/ AskPublishExam(x)
       \/ AskEnrollStudent(x) \/ AskJoinClass(x) \/ AskRemoveStudent(x)
       \/ AskUpdateClass(x) \/ AskRotateCode(x) \/ AskJoinExam(x) \/ AskStartPractice(x)

Write(x) ==
    \/ CreateCase(x) \/ UpdateCase(x) \/ DeleteCase(x)
    \/ UpdateProblem(x) \/ DeleteProblem(x) \/ PublishToClass(x) \/ Unpublish(x)
    \/ Attach(x) \/ Detach(x) \/ Assign(x) \/ Unassign(x) \/ PublishExam(x)
    \/ EnrollStudent(x) \/ JoinClass(x) \/ RemoveStudent(x) \/ UpdateClass(x) \/ RotateCode(x)
    \/ JoinExam(x) \/ StartPractice(x)

Next ==
    \/ \E x \in Requests : Ask(x) \/ Write(x)
    \/ ClockTick
    \/ SchedulerStarts
    \/ SchedulerEnds
    \/ LoadCases
    \/ Judge

Spec == Init /\ [][Next]_vars

----------------------------------------------------------------------------
\* As long as no request wrote on a stale check, an exam that students can take keeps what
\* publish_exam asked of it: a class, a problem, and test cases to judge with.  Three guards
\* in three services hold this together: exam edits, problem edits and publish_exam.
ExamStaysReady ==
    ~raced /\ db.status \in {"SCHEDULED", "ONGOING"} => Ready(db)

\* As long as no request wrote on a stale check, all submissions judged before the exam is
\* ended are judged with the same test cases (problem_guard, docs/38 D4).  Those judged later
\* are excepted: an ended exam freezes nothing, and what the timeout submits, or waits in the
\* queue, is judged with the test cases of that moment.
GradedAlike == ~raced => Cardinality(graded) <= 1

\* The list of practice problems, the page of a problem and the start of a practice session
\* give a student the same answer, whatever became of membership, visibility and publication.
PracticeAgrees == (Listed <=> Viewable) /\ (Viewable <=> Practisable)
=============================================================================

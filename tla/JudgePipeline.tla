--------------------------- MODULE JudgePipeline ---------------------------
(***************************************************************************)
(* The judge pipeline: the API records a run or a submission as PENDING    *)
(* and pushes its id on the Redis list; judge workers pop ids, claim the   *)
(* row by compare-and-swap on its execution generation, grade, and write   *)
(* the result fenced by that generation; the reconciler finds rows that    *)
(* were not updated for too long, bumps their generation and pushes them   *)
(* again.  Each action is one database statement or one queue operation,   *)
(* so the transactions of two workers and of the reconciler interleave as  *)
(* READ COMMITTED lets them.                                               *)
(***************************************************************************)
EXTENDS Naturals, Sequences

CONSTANTS
    Runs,            (* ids of run jobs                                    *)
    Submissions,     (* ids of submission jobs                             *)
    Workers,         (* judge worker processes                             *)
    Problems,
    Participations,  (* exam participations                                *)
    Practice,        (* not a participation: a practice submission         *)
    ProblemOf,       (* the problem of a submission                        *)
    ParticipationOf, (* the participation of a submission, or Practice     *)
    MaxScore,        (* the score base grading works from                  *)
    NoScore,         (* a NULL score                                       *)
    NoJob,
    MaxFaults        (* bound: crashes, lost messages and false alarms     *)

Jobs == Runs \union Submissions

ASSUME JobsAssumption ==
    /\ Runs \intersect Submissions = {}
    /\ NoJob \notin Jobs
    /\ Practice \notin Participations
    /\ ProblemOf \in [Submissions -> Problems]
    /\ ParticipationOf \in [Submissions -> Participations \union {Practice}]

ASSUME NumbersAssumption ==
    /\ MaxScore \in Nat
    /\ NoScore \notin Nat
    /\ MaxFaults \in Nat

PracticeJobs == {j \in Submissions : ParticipationOf[j] = Practice}
ExamJobs     == Submissions \ PracticeJobs

Open     == {"PENDING", "RUNNING"}
Terminal == {"COMPLETED", "FAILED_INTERNAL"}
Verdicts == {"ACCEPTED", "REJECTED", "INTERNAL_ERROR"}
Scores   == 0 .. MaxScore

VARIABLES
    row,      (* row[j]: the committed row of job j                        *)
    aged,     (* jobs whose updated_at is older than the stale threshold   *)
    total,    (* total[p][q]: what problem q adds to p's total_score       *)
    ledger,   (* submissions with a practice point transaction             *)
    unsent,   (* jobs committed by the API that it has yet to push         *)
    queue,    (* the Redis list judge_queue                                *)
    worker,   (* worker[w]: what worker process w is doing                 *)
    sweep,    (* the reconciler's pass over the stale rows                 *)
    faults    (* faults so far                                             *)

vars == <<row, aged, total, ledger, unsent, queue, worker, sweep, faults>>

NoRow == [status |-> "NONE", gen |-> 0, verdict |-> "NONE", score |-> NoScore]

Row == [status : {"NONE"} \union Open \union Terminal,
        gen : Nat, verdict : {"NONE"} \union Verdicts, score : Scores \union {NoScore}]

-----------------------------------------------------------------------------
(* What executing or grading a job can return.                             *)

Result == [status : Terminal, verdict : Verdicts, score : Scores \union {NoScore}]

FailResult == [status |-> "FAILED_INTERNAL", verdict |-> "INTERNAL_ERROR", score |-> NoScore]

\* Mutant: the score is not capped by the base.
GradeResultsOverBase ==
    {[status |-> "COMPLETED", verdict |-> "ACCEPTED", score |-> MaxScore + 1], FailResult}

\* An accepted submission gets the whole base; an internal error leaves no score.
GradeResults ==
    {[status |-> "COMPLETED", verdict |-> "ACCEPTED", score |-> MaxScore], FailResult}
      \union {[status |-> "COMPLETED", verdict |-> "REJECTED", score |-> s] : s \in Scores}

\* A run keeps the verdict the sandbox reports, INTERNAL_ERROR included, and has no score.
RunResults ==
    {[status |-> "COMPLETED", verdict |-> v, score |-> NoScore] : v \in Verdicts}

IdleWorker == [pc |-> "idle", job |-> NoJob, gen |-> 0, result |-> FailResult, sum |-> [q \in Problems |-> 0]]

WorkerState == [pc : {"idle", "get", "cas", "refresh", "judge", "sum", "lock", "commit"},
                job : Jobs \union {NoJob}, gen : Nat, result : Result, sum : [Problems -> Scores]]

IdleSweep == [pc |-> "idle", kind |-> "run", todo |-> {}, job |-> NoJob,
              seen |-> [j \in Jobs |-> 0], expired |-> FALSE]

SweepState == [pc : {"idle", "next", "cas", "push"}, kind : {"run", "submission"},
               todo : SUBSET Jobs, job : Jobs \union {NoJob},
               seen : [Jobs -> Nat], expired : BOOLEAN]

Init ==
    /\ row = [j \in Jobs |-> NoRow]
    /\ aged = {}
    /\ total = [p \in Participations |-> [q \in Problems |-> 0]]
    /\ ledger = {}
    /\ unsent = {}
    /\ queue = <<>>
    /\ worker = [w \in Workers |-> IdleWorker]
    /\ sweep = IdleSweep
    /\ faults = 0

Fault == faults < MaxFaults /\ faults' = faults + 1

\* The UPDATE of a result is uncommitted while its worker recomputes the exam
\* total or awards points: the row stays locked until the commit.
InTransaction(w) == worker[w].pc \in {"sum", "lock", "commit"}
Locked(j) == \E w \in Workers : InTransaction(w) /\ worker[w].job = j

\* A participation row read FOR UPDATE stays locked until the worker's commit.
ParticipationLocked(p) ==
    \E w \in Workers : /\ worker[w].pc = "commit" /\ worker[w].job \in ExamJobs
                       /\ ParticipationOf[worker[w].job] = p

-----------------------------------------------------------------------------
(* The API: the row is committed first, the push follows.                  *)

Create(j) ==
    /\ row[j].status = "NONE"
    /\ row' = [row EXCEPT ![j].status = "PENDING"]
    /\ unsent' = unsent \union {j}
    /\ UNCHANGED <<aged, total, ledger, queue, worker, sweep, faults>>

Enqueue(j) ==
    /\ j \in unsent
    /\ unsent' = unsent \ {j}
    /\ queue' = Append(queue, j)
    /\ UNCHANGED <<row, aged, total, ledger, worker, sweep, faults>>

\* Redis is down, or the API process dies after its commit.
LoseEnqueue(j) ==
    /\ Fault
    /\ j \in unsent
    /\ unsent' = unsent \ {j}
    /\ UNCHANGED <<row, aged, total, ledger, queue, worker, sweep>>

\* Redis restarts and forgets the list.
QueueLoss ==
    /\ Fault
    /\ queue # <<>>
    /\ queue' = <<>>
    /\ UNCHANGED <<row, aged, total, ledger, unsent, worker, sweep>>

-----------------------------------------------------------------------------
(* A judge worker.                                                         *)

Pop(w) ==
    /\ worker[w].pc = "idle"
    /\ queue # <<>>
    /\ worker' = [worker EXCEPT ![w].pc = "get", ![w].job = Head(queue)]
    /\ queue' = Tail(queue)
    /\ UNCHANGED <<row, aged, total, ledger, unsent, sweep, faults>>

\* The SELECT that precedes the claim.
ReadForClaim(w) ==
    LET j == worker[w].job IN
    /\ worker[w].pc = "get"
    /\ worker' = IF row[j].status = "PENDING"
                   THEN [worker EXCEPT ![w].pc = "cas", ![w].gen = row[j].gen]
                   ELSE [worker EXCEPT ![w] = IdleWorker]
    /\ UNCHANGED <<row, aged, total, ledger, unsent, queue, sweep, faults>>

\* PENDING -> RUNNING with a generation bump, committed on its own.
Claim(w) ==
    LET j == worker[w].job IN
    /\ worker[w].pc = "cas"
    /\ ~Locked(j)
    /\ IF row[j].status = "PENDING" /\ row[j].gen = worker[w].gen
         THEN /\ row' = [row EXCEPT ![j].status = "RUNNING", ![j].gen = @ + 1]
              /\ aged' = aged \ {j}
              /\ worker' = [worker EXCEPT ![w].pc = "refresh"]
         ELSE /\ worker' = [worker EXCEPT ![w] = IdleWorker]
              /\ UNCHANGED <<row, aged>>
    /\ UNCHANGED <<total, ledger, unsent, queue, sweep, faults>>

\* After the commit the row is read again, and with it the generation the
\* worker will present with its result.
Refresh(w) ==
    LET j == worker[w].job IN
    /\ worker[w].pc = "refresh"
    /\ worker' = [worker EXCEPT ![w].pc = "judge", ![w].gen = row[j].gen]
    /\ UNCHANGED <<row, aged, total, ledger, unsent, queue, sweep, faults>>

\* Mutants: a result is fenced by the status alone, or by the generation alone.
FenceOnStatus(w) == row[worker[w].job].status = "RUNNING"
FenceOnGeneration(w) == row[worker[w].job].gen = worker[w].gen

\* Which row a result may be written over.  A run checks only the generation.
Fence(w) ==
    LET j == worker[w].job IN
    /\ row[j].gen = worker[w].gen
    /\ j \in Submissions => row[j].status = "RUNNING"

WithResult(R, j, r) ==
    [R EXCEPT ![j].status = r.status, ![j].verdict = r.verdict, ![j].score = r.score]

\* A run's result, and the failure of a submission that could not be graded
\* (snapshot, language, tests or exam problem missing, or an exception), are
\* written and committed at once.
WriteAndCommit(w) ==
    LET j == worker[w].job IN
    /\ worker[w].pc = "judge"
    /\ ~Locked(j)
    /\ IF Fence(w)
         THEN /\ \E r \in IF j \in Runs THEN RunResults \union {FailResult} ELSE {FailResult} :
                   row' = WithResult(row, j, r)
              /\ aged' = aged \ {j}
         ELSE UNCHANGED <<row, aged>>
    /\ worker' = [worker EXCEPT ![w] = IdleWorker]
    /\ UNCHANGED <<total, ledger, unsent, queue, sweep, faults>>

\* A graded submission: the fenced UPDATE opens the transaction that will also
\* recompute the exam total, or award the practice points.
WriteGraded(w) ==
    LET j == worker[w].job IN
    /\ worker[w].pc = "judge"
    /\ j \in Submissions
    /\ ~Locked(j)
    /\ Fence(w)
    /\ \E r \in GradeResults :
         worker' = [worker EXCEPT ![w].result = r,
                                  ![w].pc = IF j \in ExamJobs THEN "sum" ELSE "commit"]
    /\ UNCHANGED <<row, aged, total, ledger, unsent, queue, sweep, faults>>

\* The best judged score of problem q, 0 when none was judged: one term of the
\* SUM of MAXes that recompute_exam_total selects.
Judged(R, p, q) ==
    {j \in Submissions : /\ ParticipationOf[j] = p /\ ProblemOf[j] = q
                         /\ R[j].status = "COMPLETED" /\ R[j].score # NoScore}

BestScore(R, p, q) ==
    LET scores == {0} \union {R[j].score : j \in Judged(R, p, q)}
    IN  CHOOSE m \in scores : \A s \in scores : s <= m

ExamTotal(R, p) == [q \in Problems |-> BestScore(R, p, q)]

\* Mutant: the total is selected without the result this worker is writing.
SumScoresOfOthers(w) ==
    /\ worker[w].pc = "sum"
    /\ worker' = [worker EXCEPT ![w].pc = "lock",
                                ![w].sum = ExamTotal(row, ParticipationOf[worker[w].job])]
    /\ UNCHANGED <<row, aged, total, ledger, unsent, queue, sweep, faults>>

\* recompute_exam_total reads the committed rows and its own uncommitted one ...
SumScores(w) ==
    LET j == worker[w].job
        seen == WithResult(row, j, worker[w].result)
    IN
    /\ worker[w].pc = "sum"
    /\ worker' = [worker EXCEPT ![w].pc = "lock",
                                ![w].sum = ExamTotal(seen, ParticipationOf[j])]
    /\ UNCHANGED <<row, aged, total, ledger, unsent, queue, sweep, faults>>

\* Mutant: the total is committed on its own, ahead of the result.
LockAndCommitTotal(w) ==
    /\ worker[w].pc = "lock"
    /\ ~ParticipationLocked(ParticipationOf[worker[w].job])
    /\ worker' = [worker EXCEPT ![w].pc = "commit"]
    /\ total' = [total EXCEPT ![ParticipationOf[worker[w].job]] = worker[w].sum]
    /\ UNCHANGED <<row, aged, ledger, unsent, queue, sweep, faults>>

\* ... and only then takes the participation FOR UPDATE.
LockParticipation(w) ==
    /\ worker[w].pc = "lock"
    /\ ~ParticipationLocked(ParticipationOf[worker[w].job])
    /\ worker' = [worker EXCEPT ![w].pc = "commit"]
    /\ UNCHANGED <<row, aged, total, ledger, unsent, queue, sweep, faults>>

\* Mutant: every ACCEPTED awards, without the unique index.
AwardAgain(j, r) == IF r.verdict = "ACCEPTED" THEN ledger \union {j} ELSE ledger

\* ON CONFLICT DO NOTHING on (student, problem): one point transaction each.
Award(j, r) ==
    IF r.verdict = "ACCEPTED" /\ \A k \in ledger : ProblemOf[k] # ProblemOf[j]
      THEN ledger \union {j} ELSE ledger

\* Result, total and points become visible together.
Commit(w) ==
    LET j == worker[w].job IN
    /\ worker[w].pc = "commit"
    /\ row' = WithResult(row, j, worker[w].result)
    /\ aged' = aged \ {j}
    /\ IF j \in ExamJobs
         THEN /\ total' = [total EXCEPT ![ParticipationOf[j]] = worker[w].sum]
              /\ UNCHANGED ledger
         ELSE /\ ledger' = Award(j, worker[w].result)
              /\ UNCHANGED total
    /\ worker' = [worker EXCEPT ![w] = IdleWorker]
    /\ UNCHANGED <<unsent, queue, sweep, faults>>

\* The process dies, or loses its database connection: the popped message is
\* gone, an open transaction rolls back, a claimed row stays RUNNING.
WorkerCrash(w) ==
    /\ Fault
    /\ worker[w].pc # "idle"
    /\ worker' = [worker EXCEPT ![w] = IdleWorker]
    /\ UNCHANGED <<row, aged, total, ledger, unsent, queue, sweep>>

-----------------------------------------------------------------------------
(* Time and the reconciler.                                                *)

\* Nobody will touch job j again unless the reconciler does.
Abandoned(j) ==
    /\ j \notin unsent
    /\ \A i \in 1 .. Len(queue) : queue[i] # j
    /\ \A w \in Workers : worker[w].job # j
    /\ ~(sweep.pc = "push" /\ sweep.job = j)

\* An open row outlives the stale threshold: because it was abandoned, or, as a
\* fault, because its queue or its worker is slow.
Age(j) ==
    /\ row[j].status \in Open
    /\ j \notin aged
    /\ IF Abandoned(j) THEN UNCHANGED faults ELSE Fault
    /\ aged' = aged \union {j}
    /\ UNCHANGED <<row, total, ledger, unsent, queue, worker, sweep>>

\* Mutant: the sweep looks at RUNNING rows only.
StaleRunning(J) == {j \in J : row[j].status = "RUNNING" /\ j \in aged}

Stale(J) == {j \in J : row[j].status \in Open /\ j \in aged}

JobsOfKind(k) == IF k = "run" THEN Runs ELSE Submissions

\* One SELECT lists the stale rows of a kind; the session caches what it read.
Listing(k) ==
    [pc |-> "next", kind |-> k, todo |-> Stale(JobsOfKind(k)), job |-> NoJob,
     seen |-> [j \in Jobs |-> IF j \in Stale(JobsOfKind(k)) THEN row[j].gen ELSE 0],
     expired |-> FALSE]

ListStaleRuns ==
    /\ sweep.pc = "idle"
    /\ sweep' = Listing("run")
    /\ UNCHANGED <<row, aged, total, ledger, unsent, queue, worker, faults>>

ListStaleSubmissions ==
    /\ sweep.pc = "next" /\ sweep.kind = "run" /\ sweep.todo = {}
    /\ sweep' = Listing("submission")
    /\ UNCHANGED <<row, aged, total, ledger, unsent, queue, worker, faults>>

EndSweep ==
    /\ sweep.pc = "next" /\ sweep.kind = "submission" /\ sweep.todo = {}
    /\ sweep' = IdleSweep
    /\ UNCHANGED <<row, aged, total, ledger, unsent, queue, worker, faults>>

\* Touching the next listed object: a commit or rollback of this pass has expired
\* it, and then its generation (but not the listing's test of its status) is read anew.
NextStale(j) ==
    /\ sweep.pc = "next"
    /\ j \in sweep.todo
    /\ sweep' = [sweep EXCEPT !.pc = "cas", !.job = j, !.todo = @ \ {j},
                              !.seen[j] = IF sweep.expired THEN row[j].gen ELSE @]
    /\ UNCHANGED <<row, aged, total, ledger, unsent, queue, worker, faults>>

\* Mutant: for a submission too only the generation is compared.
RecoverableOnGeneration(j) == row[j].gen = sweep.seen[j]

\* Which row the sweep may reset.  For a run only the generation is compared.
Recoverable(j) ==
    /\ row[j].gen = sweep.seen[j]
    /\ j \in Submissions => row[j].status \in Open

Recover ==
    LET j == sweep.job IN
    /\ sweep.pc = "cas"
    /\ ~Locked(j)
    /\ Recoverable(j)
    /\ row' = [row EXCEPT ![j].status = "PENDING", ![j].gen = @ + 1]
    /\ aged' = aged \ {j}
    /\ sweep' = [sweep EXCEPT !.pc = "push", !.expired = TRUE]
    /\ UNCHANGED <<total, ledger, unsent, queue, worker, faults>>

\* A lost race: for a submission the session rolls back, which expires it.
RecoverLost ==
    LET j == sweep.job IN
    /\ sweep.pc = "cas"
    /\ ~Locked(j)
    /\ ~Recoverable(j)
    /\ sweep' = [sweep EXCEPT !.pc = "next", !.job = NoJob,
                              !.expired = @ \/ j \in Submissions]
    /\ UNCHANGED <<row, aged, total, ledger, unsent, queue, worker, faults>>

PushRecovered ==
    /\ sweep.pc = "push"
    /\ \/ queue' = Append(queue, sweep.job) /\ UNCHANGED faults
       \/ UNCHANGED queue /\ Fault
    /\ sweep' = [sweep EXCEPT !.pc = "next", !.job = NoJob]
    /\ UNCHANGED <<row, aged, total, ledger, unsent, worker>>

ReconcilerCrash ==
    /\ Fault
    /\ sweep.pc # "idle"
    /\ sweep' = IdleSweep
    /\ UNCHANGED <<row, aged, total, ledger, unsent, queue, worker>>

-----------------------------------------------------------------------------
WorkerStep(w) ==
    \/ Pop(w) \/ ReadForClaim(w) \/ Claim(w) \/ Refresh(w)
    \/ WriteAndCommit(w) \/ WriteGraded(w)
    \/ SumScores(w) \/ LockParticipation(w) \/ Commit(w)

ReconcilerStep ==
    \/ ListStaleRuns \/ ListStaleSubmissions \/ EndSweep
    \/ \E j \in Jobs : NextStale(j)
    \/ Recover \/ RecoverLost \/ PushRecovered

Next ==
    \/ \E j \in Jobs : Create(j) \/ Enqueue(j) \/ LoseEnqueue(j) \/ Age(j)
    \/ \E w \in Workers : WorkerStep(w) \/ WorkerCrash(w)
    \/ QueueLoss
    \/ ReconcilerStep
    \/ ReconcilerCrash

Spec == Init /\ [][Next]_vars

\* Workers and the reconciler loop forever, the API pushes what it committed,
\* and the clock passes the threshold of a row nobody updates.
Fairness ==
    /\ \A w \in Workers : WF_vars(WorkerStep(w))
    /\ WF_vars(ReconcilerStep)
    /\ \A j \in Jobs : WF_vars(Enqueue(j)) /\ WF_vars(Abandoned(j) /\ Age(j))

FairSpec == Spec /\ Fairness

-----------------------------------------------------------------------------
TypeOK ==
    /\ row \in [Jobs -> Row]
    /\ aged \subseteq Jobs
    /\ total \in [Participations -> [Problems -> Scores]]
    /\ ledger \subseteq PracticeJobs
    /\ unsent \subseteq Jobs
    /\ queue \in Seq(Jobs)
    /\ worker \in [Workers -> WorkerState]
    /\ sweep \in SweepState
    /\ faults \in 0 .. MaxFaults

\* A result write checks the fence when it updates the row, and commits later.
\* While its transaction is open the row still is the RUNNING row of the
\* generation it presented, and no other worker has an open write of the row.
OpenWriteOwnsRow ==
    \A w \in Workers : InTransaction(w) =>
        /\ worker[w].job \in Submissions
        /\ row[worker[w].job].status = "RUNNING"
        /\ row[worker[w].job].gen = worker[w].gen
        /\ \A v \in Workers \ {w} : ~(InTransaction(v) /\ worker[v].job = worker[w].job)

\* Once a submission is judged, nothing changes its row any more: neither a
\* worker of an older claim, nor a duplicate message, nor the reconciler.
SubmissionResultFinal ==
    [][\A j \in Submissions : row[j].status \in Terminal => row'[j] = row[j]]_vars

\* The exam total never counts more for a problem than its best judged score,
\* whatever order concurrent results commit in.
TotalNeverInflated ==
    \A p \in Participations, q \in Problems : total[p][q] <= BestScore(row, p, q)

\* The exam total counts, for every problem, the best judged score.
TotalIsBestScores ==
    \A p \in Participations : total[p] = ExamTotal(row, p)

\* A problem has earned points exactly when a practice submission of it was
\* accepted, and then from one submission only: no crash separates them.
PointsFollowVerdicts ==
    /\ \A j \in PracticeJobs : row[j].verdict = "ACCEPTED" =>
         \E k \in ledger : ProblemOf[k] = ProblemOf[j]
    /\ \A j \in ledger : row[j].verdict = "ACCEPTED"
    /\ \A j, k \in ledger : ProblemOf[j] = ProblemOf[k] => j = k

\* A completed run keeps the result the student saw.
RunResultFinal ==
    [][\A j \in Runs : row[j].status \in Terminal => row'[j] = row[j]]_vars

\* Every job that was recorded gets a result, whatever messages and workers
\* are lost on the way.
EveryJobSettles ==
    \A j \in Jobs : row[j].status \in Open ~> row[j].status \in Terminal

-----------------------------------------------------------------------------
(* Seen from the submissions alone, the pipeline judges each of them once. *)

Published(j) ==
    IF row[j].status \in Terminal
      THEN {[status |-> row[j].status, verdict |-> row[j].verdict, score |-> row[j].score]}
      ELSE {}

Once == INSTANCE JudgedOnce
          WITH Practice <- PracticeJobs, Results <- GradeResults,
               result <- [j \in Submissions |-> Published(j)]

ImplementsJudgedOnce == Once!Spec
=============================================================================

------------------------ MODULE JudgePipelineProofs ------------------------
(***************************************************************************)
(* Proofs about JudgePipeline for every set of jobs, workers, problems and *)
(* participations and every bound on the faults.                           *)
(***************************************************************************)
EXTENDS JudgePipeline, WellFoundedInduction, TLAPS

-----------------------------------------------------------------------------
(* The best score is a maximum, and a bounded set of numbers has one.      *)

\* A non-empty set of numbers up to n has a largest element.
LEMMA BoundedHasMax ==
  ASSUME NEW n \in Nat, NEW S \in SUBSET (0 .. n), S # {}
  PROVE  \E m \in S : \A s \in S : s <= m
<1> DEFINE T == {n - s : s \in S}
<1>1. T \subseteq Nat /\ T # {}
  <2>1. \A s \in S : n - s \in Nat
    OBVIOUS
  <2>2. PICK s \in S : TRUE
    OBVIOUS
  <2>3. n - s \in T
    OBVIOUS
  <2> QED BY <2>1, <2>3
<1>2. IsWellFoundedOn(OpToRel(<, Nat), Nat)
  BY NatLessThanWellFounded
<1>3. PICK x \in T : \A y \in T : ~ (<<y, x>> \in OpToRel(<, Nat))
  <2> HIDE DEF T
  <2> QED BY <1>1, <1>2, WFMin
<1>4. \A y \in T : ~ (y < x)
  BY <1>1, <1>3 DEF OpToRel
<1>5. PICK m \in S : x = n - m
  OBVIOUS
<1>6. \A s \in S : s <= m
  <2> TAKE s \in S
  <2>1. n - s \in T
    OBVIOUS
  <2>2. ~ (n - s < n - m)
    BY <1>4, <1>5, <2>1
  <2> QED BY <2>2
<1> QED BY <1>6

\* BestScore is attained, and no judged score of the problem is above it.
LEMMA BestScoreIsMax ==
  ASSUME NEW R \in [Jobs -> Row], NEW p, NEW q
  PROVE  /\ BestScore(R, p, q) \in Scores
         /\ \A j \in Judged(R, p, q) : R[j].score <= BestScore(R, p, q)
         /\ \/ BestScore(R, p, q) = 0
            \/ \E j \in Judged(R, p, q) : BestScore(R, p, q) = R[j].score
<1> DEFINE S == {0} \union {R[j].score : j \in Judged(R, p, q)}
<1>1. \A j \in Judged(R, p, q) : R[j].score \in Scores
  BY DEF Judged, Row, Jobs
<1>2. S \in SUBSET (0 .. MaxScore) /\ 0 \in S
  BY <1>1, NumbersAssumption DEF Scores
<1>3. \E m \in S : \A s \in S : s <= m
  <2> HIDE DEF S
  <2> QED BY <1>2, BoundedHasMax, NumbersAssumption
<1>4. BestScore(R, p, q) \in S /\ \A s \in S : s <= BestScore(R, p, q)
  <2>1. BestScore(R, p, q) = CHOOSE m \in S : \A s \in S : s <= m
    BY DEF BestScore
  <2> HIDE DEF S
  <2> QED BY <1>3, <2>1
<1> QED BY <1>2, <1>4 DEF Scores

LEMMA ExamTotalType ==
  ASSUME NEW R \in [Jobs -> Row], NEW p
  PROVE  ExamTotal(R, p) \in [Problems -> Scores]
BY BestScoreIsMax DEF ExamTotal

-----------------------------------------------------------------------------
(* The inductive invariant: types, what a program counter says of the job  *)
(* at hand, and that an open write owns its row.                           *)

HoldsJob ==
    /\ \A w \in Workers : /\ worker[w].pc # "idle" => worker[w].job \in Jobs
                          /\ worker[w].pc \in {"sum", "lock"} => worker[w].job \in ExamJobs
                          /\ InTransaction(w) => /\ worker[w].job \in Submissions
                                                 /\ worker[w].result \in GradeResults
    /\ sweep.pc \in {"cas", "push"} => sweep.job \in Jobs

IInv == TypeOK /\ HoldsJob /\ OpenWriteOwnsRow

LEMMA ResultTypes ==
  /\ FailResult \in Result
  /\ GradeResults \subseteq Result
  /\ RunResults \subseteq Result
  /\ IdleWorker \in WorkerState
  /\ IdleSweep \in SweepState
BY NumbersAssumption
   DEF FailResult, GradeResults, RunResults, Result, Terminal, Verdicts, Scores,
       IdleWorker, WorkerState, IdleSweep, SweepState

\* A result and a reset keep the shape of a row.
LEMMA RowShape ==
  ASSUME NEW x \in Row
  PROVE  /\ x.gen \in Nat
         /\ \A r \in Result :
              [x EXCEPT !.status = r.status, !.verdict = r.verdict, !.score = r.score] \in Row
         /\ [x EXCEPT !.status = "PENDING", !.gen = @ + 1] \in Row
<1> DEFINE Status == {"NONE"} \union Open \union Terminal
           Verdict == {"NONE"} \union Verdicts
           Score == Scores \union {NoScore}
<1>1. "PENDING" \in Status /\ Terminal \subseteq Status /\ Verdicts \subseteq Verdict
  BY DEF Open
<1>2. Row = [status : Status, gen : Nat, verdict : Verdict, score : Score]
  BY DEF Row
<1>3. Result = [status : Terminal, verdict : Verdicts, score : Score]
  BY DEF Result
<1> HIDE DEF Status, Verdict, Score
<1>4. x.gen \in Nat /\ x.gen + 1 \in Nat
  BY <1>2
<1>5. ASSUME NEW r \in Result
      PROVE  [x EXCEPT !.status = r.status, !.verdict = r.verdict, !.score = r.score] \in Row
  <2>1. r.status \in Status /\ r.verdict \in Verdict /\ r.score \in Score
    BY <1>1, <1>3
  <2> QED BY <1>2, <2>1
<1>6. [x EXCEPT !.status = "PENDING", !.gen = @ + 1] \in Row
  BY <1>1, <1>2, <1>4
<1> QED BY <1>4, <1>5, <1>6

LEMMA WithResultType ==
  ASSUME NEW R \in [Jobs -> Row], NEW j \in Jobs, NEW r \in Result
  PROVE  WithResult(R, j, r) \in [Jobs -> Row]
<1> DEFINE new == [R[j] EXCEPT !.status = r.status, !.verdict = r.verdict, !.score = r.score]
<1>1. new \in Row
  BY RowShape
<1>2. WithResult(R, j, r) = [R EXCEPT ![j] = new]
  BY DEF WithResult
<1> HIDE DEF new
<1> QED BY <1>1, <1>2

LEMMA ResetType ==
  ASSUME NEW R \in [Jobs -> Row], NEW k \in Jobs
  PROVE  [R EXCEPT ![k].status = "PENDING", ![k].gen = @ + 1] \in [Jobs -> Row]
<1> DEFINE new == [R[k] EXCEPT !.status = "PENDING", !.gen = @ + 1]
<1>1. new \in Row
  BY RowShape
<1>2. [R EXCEPT ![k].status = "PENDING", ![k].gen = @ + 1] = [R EXCEPT ![k] = new]
  OBVIOUS
<1> HIDE DEF new
<1> QED BY <1>1, <1>2

LEMMA FaultType ==
  ASSUME TypeOK, Fault
  PROVE  faults' \in 0 .. MaxFaults
<1>1. MaxFaults \in Nat /\ faults \in 0 .. MaxFaults
  BY NumbersAssumption DEF TypeOK
<1> QED BY <1>1 DEF Fault

LEMMA InitIInv == Init => IInv
<1> SUFFICES ASSUME Init PROVE IInv
  OBVIOUS
<1>1. TypeOK
  BY ResultTypes, NumbersAssumption DEF Init, TypeOK, NoRow, Row, Scores
<1>2. HoldsJob /\ OpenWriteOwnsRow
  BY DEF Init, HoldsJob, OpenWriteOwnsRow, InTransaction, IdleWorker, IdleSweep
<1> QED BY <1>1, <1>2 DEF IInv

-----------------------------------------------------------------------------
(* Every step preserves the types and HoldsJob.                            *)

LEMMA ApiSteps ==
  ASSUME IInv, NEW j \in Jobs, Create(j) \/ Enqueue(j) \/ LoseEnqueue(j) \/ Age(j)
  PROVE  TypeOK' /\ HoldsJob'
<1> USE DEF IInv
<1>1. CASE Create(j)
  BY <1>1 DEF Create, TypeOK, HoldsJob, InTransaction, Row, Open
<1>2. CASE Enqueue(j)
  BY <1>2 DEF Enqueue, TypeOK, HoldsJob, InTransaction
<1>3. CASE LoseEnqueue(j)
  BY <1>3, NumbersAssumption DEF LoseEnqueue, Fault, TypeOK, HoldsJob, InTransaction
<1>4. CASE Age(j)
  BY <1>4, NumbersAssumption DEF Age, Fault, TypeOK, HoldsJob, InTransaction
<1> QED BY <1>1, <1>2, <1>3, <1>4

LEMMA WorkerTypeSteps ==
  ASSUME IInv, NEW w \in Workers, WorkerStep(w)
  PROVE  TypeOK' /\ HoldsJob'
<1> DEFINE j == worker[w].job
<1> USE DEF IInv
<1>w. worker[w] \in WorkerState
  BY DEF TypeOK
<1>1. CASE Pop(w)
  <2>1. Head(queue) \in Jobs /\ Tail(queue) \in Seq(Jobs)
    BY <1>1 DEF Pop, TypeOK
  <2> QED BY <1>1, <2>1, <1>w DEF Pop, TypeOK, HoldsJob, InTransaction, WorkerState
<1>2. CASE ReadForClaim(w)
  <2>1. j \in Jobs /\ row[j].gen \in Nat
    BY <1>2 DEF ReadForClaim, HoldsJob, TypeOK, Row
  <2> QED BY <1>2, <2>1, <1>w, ResultTypes
          DEF ReadForClaim, TypeOK, HoldsJob, InTransaction, WorkerState, IdleWorker
<1>3. CASE Claim(w)
  <2>1. j \in Jobs /\ row[j] \in Row
    BY <1>3 DEF Claim, HoldsJob, TypeOK
  <2>2. row' \in [Jobs -> Row] /\ aged' \subseteq Jobs
    BY <1>3, <2>1 DEF Claim, TypeOK, Row, Open
  <2>3. PICK x \in WorkerState : /\ worker' = [worker EXCEPT ![w] = x]
                                 /\ x.pc \in {"idle", "refresh"}
                                 /\ x.pc # "idle" => x.job = j
    <3>1. CASE row[j].status = "PENDING" /\ row[j].gen = worker[w].gen
      <4> DEFINE x == [worker[w] EXCEPT !.pc = "refresh"]
      <4>1. worker' = [worker EXCEPT ![w] = x]
        BY <1>3, <3>1 DEF Claim, TypeOK
      <4>2. x \in WorkerState /\ x.pc = "refresh" /\ x.job = j
        BY <1>w DEF WorkerState
      <4> QED BY <4>1, <4>2
    <3>2. CASE ~(row[j].status = "PENDING" /\ row[j].gen = worker[w].gen)
      BY <1>3, <3>2, ResultTypes DEF Claim, IdleWorker
    <3> QED BY <3>1, <3>2
  <2>4. TypeOK'
    BY <1>3, <2>2, <2>3 DEF Claim, TypeOK
  <2>5. HoldsJob'
    BY <1>3, <2>1, <2>3 DEF Claim, TypeOK, HoldsJob, InTransaction
  <2> QED BY <2>4, <2>5
<1>4. CASE Refresh(w)
  <2>1. j \in Jobs /\ row[j].gen \in Nat
    BY <1>4 DEF Refresh, HoldsJob, TypeOK, Row
  <2> QED BY <1>4, <2>1, <1>w DEF Refresh, TypeOK, HoldsJob, InTransaction, WorkerState
<1>5. CASE WriteAndCommit(w)
  <2>1. j \in Jobs
    BY <1>5 DEF WriteAndCommit, HoldsJob
  <2>2. row' \in [Jobs -> Row] /\ aged' \subseteq Jobs
    BY <1>5, <2>1, ResultTypes, WithResultType DEF WriteAndCommit, TypeOK
  <2> QED BY <1>5, <2>2, ResultTypes
          DEF WriteAndCommit, TypeOK, HoldsJob, InTransaction, IdleWorker
<1>6. CASE WriteGraded(w)
  <2>1. j \in Submissions
    BY <1>6 DEF WriteGraded
  <2> QED BY <1>6, <2>1, <1>w, ResultTypes
          DEF WriteGraded, TypeOK, HoldsJob, InTransaction, WorkerState, Jobs, ExamJobs
<1>7. CASE SumScores(w)
  <2>1. j \in ExamJobs /\ j \in Jobs
    BY <1>7 DEF SumScores, HoldsJob, ExamJobs, Jobs
  <2>2. ExamTotal(WithResult(row, j, worker[w].result), ParticipationOf[j]) \in [Problems -> Scores]
    BY <2>1, <1>w, WithResultType, ExamTotalType DEF TypeOK, WorkerState
  <2>3. \A s \in [Problems -> Scores] :
          [worker EXCEPT ![w].pc = "lock", ![w].sum = s] \in [Workers -> WorkerState]
    BY <1>w DEF TypeOK, WorkerState
  <2>4. TypeOK'
    BY <1>7, <2>2, <2>3 DEF SumScores, TypeOK
  <2>5. HoldsJob'
    BY <1>7, <2>1 DEF SumScores, TypeOK, HoldsJob, InTransaction
  <2> QED BY <2>4, <2>5
<1>8. CASE LockParticipation(w)
  BY <1>8, <1>w DEF LockParticipation, TypeOK, HoldsJob, InTransaction, WorkerState
<1>9. CASE Commit(w)
  <2>1. j \in Submissions /\ j \in Jobs
    BY <1>9 DEF Commit, HoldsJob, InTransaction, Jobs
  <2>2. row' \in [Jobs -> Row] /\ aged' \subseteq Jobs
    BY <1>9, <1>w, <2>1, WithResultType DEF Commit, TypeOK, WorkerState
  <2>3. total' \in [Participations -> [Problems -> Scores]]
    BY <1>9, <1>w DEF Commit, TypeOK, WorkerState
  <2>4. ledger' \subseteq PracticeJobs
    BY <1>9, <2>1 DEF Commit, TypeOK, Award, ExamJobs
  <2>5. TypeOK'
    BY <1>9, <2>2, <2>3, <2>4, ResultTypes DEF Commit, TypeOK
  <2>6. HoldsJob'
    BY <1>9 DEF Commit, TypeOK, HoldsJob, InTransaction, IdleWorker
  <2> QED BY <2>5, <2>6
<1> QED BY <1>1, <1>2, <1>3, <1>4, <1>5, <1>6, <1>7, <1>8, <1>9 DEF WorkerStep

\* A crash, of a worker, of Redis or of the reconciler.
LEMMA CrashTypeSteps ==
  ASSUME IInv, QueueLoss \/ ReconcilerCrash \/ \E w \in Workers : WorkerCrash(w)
  PROVE  TypeOK' /\ HoldsJob'
<1> USE DEF IInv
<1>1. CASE QueueLoss
  BY <1>1, NumbersAssumption DEF QueueLoss, Fault, TypeOK, HoldsJob, InTransaction
<1>2. CASE ReconcilerCrash
  BY <1>2, NumbersAssumption, ResultTypes
     DEF ReconcilerCrash, Fault, TypeOK, HoldsJob, InTransaction, IdleSweep
<1>3. CASE \E w \in Workers : WorkerCrash(w)
  <2> PICK w \in Workers : WorkerCrash(w)
    BY <1>3
  <2>1. TypeOK'
    BY NumbersAssumption, ResultTypes DEF WorkerCrash, Fault, TypeOK
  <2>2. HoldsJob'
    BY DEF WorkerCrash, TypeOK, HoldsJob, InTransaction, IdleWorker
  <2> QED BY <2>1, <2>2
<1> QED BY <1>1, <1>2, <1>3

\* A listing holds jobs and generations.
LEMMA ListingType ==
  ASSUME TypeOK, NEW k \in {"run", "submission"}
  PROVE  Listing(k) \in SweepState /\ Listing(k).pc = "next"
<1>1. Stale(JobsOfKind(k)) \subseteq Jobs
  BY DEF Stale, JobsOfKind, Jobs
<1>2. \A i \in Jobs : row[i].gen \in Nat
  BY DEF TypeOK, Row
<1> QED BY <1>1, <1>2 DEF Listing, SweepState

LEMMA ReconcilerTypeSteps ==
  ASSUME IInv, ReconcilerStep
  PROVE  TypeOK' /\ HoldsJob'
<1> USE DEF IInv
<1>1. CASE ListStaleRuns
  BY <1>1, ListingType DEF ListStaleRuns, TypeOK, HoldsJob, InTransaction
<1>2. CASE ListStaleSubmissions
  BY <1>2, ListingType DEF ListStaleSubmissions, TypeOK, HoldsJob, InTransaction
<1>3. CASE EndSweep
  BY <1>3, ResultTypes DEF EndSweep, TypeOK, HoldsJob, InTransaction, IdleSweep
<1>4. CASE \E j \in Jobs : NextStale(j)
  <2> PICK j \in Jobs : NextStale(j)
    BY <1>4
  <2>1. row[j].gen \in Nat
    BY DEF TypeOK, Row
  <2>2. sweep' \in SweepState /\ sweep'.job = j
    BY <2>1 DEF NextStale, TypeOK, SweepState
  <2> QED BY <2>2 DEF NextStale, TypeOK, HoldsJob, InTransaction
<1>5. CASE Recover
  <2>1. sweep.job \in Jobs
    BY <1>5 DEF Recover, HoldsJob
  <2>2. row' \in [Jobs -> Row] /\ aged' \subseteq Jobs
    <3>1. row \in [Jobs -> Row] /\ aged \subseteq Jobs
      BY DEF TypeOK
    <3>2. [row EXCEPT ![sweep.job].status = "PENDING", ![sweep.job].gen = @ + 1] \in [Jobs -> Row]
      BY <2>1, <3>1, ResetType
    <3> QED BY <1>5, <3>1, <3>2 DEF Recover
  <2>3. sweep' \in SweepState /\ sweep'.job = sweep.job
    BY <1>5 DEF Recover, TypeOK, SweepState
  <2> QED BY <1>5, <2>1, <2>2, <2>3 DEF Recover, TypeOK, HoldsJob, InTransaction
<1>6. CASE RecoverLost
  BY <1>6 DEF RecoverLost, TypeOK, HoldsJob, InTransaction, SweepState
<1>7. CASE PushRecovered
  <2>1. sweep.job \in Jobs
    BY <1>7 DEF PushRecovered, HoldsJob
  <2>2. queue' \in Seq(Jobs)
    <3>1. queue \in Seq(Jobs) /\ Append(queue, sweep.job) \in Seq(Jobs)
      BY <2>1 DEF TypeOK
    <3> QED BY <1>7, <3>1 DEF PushRecovered
  <2>3. faults' \in 0 .. MaxFaults
    BY <1>7, FaultType DEF PushRecovered, TypeOK
  <2> QED BY <1>7, <2>2, <2>3 DEF PushRecovered, TypeOK, HoldsJob, InTransaction, SweepState
<1> QED BY <1>1, <1>2, <1>3, <1>4, <1>5, <1>6, <1>7 DEF ReconcilerStep

LEMMA TypeSteps ==
  ASSUME IInv, [Next]_vars
  PROVE  TypeOK' /\ HoldsJob'
<1>1. CASE UNCHANGED vars
  BY <1>1 DEF IInv, vars, TypeOK, HoldsJob, InTransaction
<1> QED BY <1>1, ApiSteps, WorkerTypeSteps, CrashTypeSteps, ReconcilerTypeSteps DEF Next

-----------------------------------------------------------------------------
(* An open write owns its row.                                             *)

\* Transactions that stay open keep their job, their generation and their row.
KeepsOpenWrites ==
    \A w \in Workers : InTransaction(w)' =>
        /\ InTransaction(w)
        /\ worker'[w].job = worker[w].job
        /\ worker'[w].gen = worker[w].gen
        /\ row'[worker[w].job] = row[worker[w].job]

LEMMA OwnsRowFrame ==
  ASSUME OpenWriteOwnsRow, KeepsOpenWrites
  PROVE  OpenWriteOwnsRow'
BY DEF OpenWriteOwnsRow, KeepsOpenWrites, InTransaction

\* A step that leaves the workers alone and changes at most an unlocked row.
LEMMA UnlockedRowFrame ==
  ASSUME IInv, NEW j, ~Locked(j), UNCHANGED worker,
         \A k \in Jobs \ {j} : row'[k] = row[k]
  PROVE  OpenWriteOwnsRow'
<1>1. \A w \in Workers : InTransaction(w) => worker[w].job \in Jobs \ {j}
  BY DEF IInv, HoldsJob, Locked, Jobs
<1>2. KeepsOpenWrites
  BY <1>1 DEF KeepsOpenWrites, InTransaction
<1> QED BY <1>2, OwnsRowFrame DEF IInv

\* A step of worker w that leaves w without an open write, and changes at most
\* the row of its job, which no other worker has locked.
LEMMA WorkerFrame ==
  ASSUME IInv, NEW w \in Workers,
         ~InTransaction(w)',
         \A v \in Workers \ {w} : worker'[v] = worker[v],
         \/ UNCHANGED row
         \/ /\ \A k \in Jobs \ {worker[w].job} : row'[k] = row[k]
            /\ ~Locked(worker[w].job) \/ InTransaction(w)
  PROVE  OpenWriteOwnsRow'
<1>1. ASSUME NEW v \in Workers \ {w}, InTransaction(v)'
      PROVE  /\ InTransaction(v)
             /\ worker'[v] = worker[v]
             /\ row'[worker[v].job] = row[worker[v].job]
  <2>1. InTransaction(v) /\ worker'[v] = worker[v]
    BY <1>1 DEF InTransaction
  <2>2. worker[v].job \in Jobs
    BY <2>1 DEF IInv, HoldsJob, Jobs
  <2>3. InTransaction(w) \/ ~Locked(worker[w].job) => worker[v].job # worker[w].job
    BY <2>1 DEF IInv, OpenWriteOwnsRow, Locked
  <2> QED BY <2>1, <2>2, <2>3
<1>2. KeepsOpenWrites
  BY <1>1 DEF KeepsOpenWrites
<1> QED BY <1>2, OwnsRowFrame DEF IInv

LEMMA WorkerOwnsRow ==
  ASSUME IInv, NEW w \in Workers, WorkerStep(w) \/ WorkerCrash(w)
  PROVE  OpenWriteOwnsRow'
<1> DEFINE j == worker[w].job
<1>w. worker \in [Workers -> WorkerState] /\ row \in [Jobs -> Row]
  BY DEF IInv, TypeOK
<1>1. CASE Pop(w) \/ ReadForClaim(w) \/ Refresh(w) \/ WorkerCrash(w)
  <2>1. \A v \in Workers \ {w} : worker'[v] = worker[v]
    BY <1>1, <1>w DEF Pop, ReadForClaim, Refresh, WorkerCrash
  <2>2. worker'[w].pc \in {"idle", "get", "cas", "judge"}
    <3>1. CASE Pop(w) \/ Refresh(w)
      BY <3>1, <1>w DEF Pop, Refresh, WorkerState
    <3>2. CASE ReadForClaim(w) \/ WorkerCrash(w)
      BY <3>2, <1>w DEF ReadForClaim, WorkerCrash, WorkerState, IdleWorker
    <3> QED BY <1>1, <3>1, <3>2
  <2>3. ~InTransaction(w)' /\ UNCHANGED row
    BY <1>1, <2>2 DEF Pop, ReadForClaim, Refresh, WorkerCrash, InTransaction
  <2> QED BY <2>1, <2>3, WorkerFrame
<1>2. CASE Claim(w)
  <2>1. ~InTransaction(w)' /\ ~Locked(j)
    <3>1. worker'[w].pc \in {"idle", "refresh"}
      BY <1>2, <1>w DEF Claim, WorkerState, IdleWorker
    <3> QED BY <1>2, <3>1 DEF Claim, InTransaction
  <2>2. \A v \in Workers \ {w} : worker'[v] = worker[v]
    BY <1>2, <1>w DEF Claim
  <2>3. \A k \in Jobs \ {j} : row'[k] = row[k]
    BY <1>2, <1>w DEF Claim
  <2> QED BY <2>1, <2>2, <2>3, WorkerFrame
<1>3. CASE WriteAndCommit(w)
  <2>1. ~InTransaction(w)' /\ ~Locked(j)
    BY <1>3, <1>w DEF WriteAndCommit, InTransaction, IdleWorker
  <2>2. \A v \in Workers \ {w} : worker'[v] = worker[v]
    BY <1>3, <1>w DEF WriteAndCommit
  <2>3. \A k \in Jobs \ {j} : row'[k] = row[k]
    BY <1>3, <1>w DEF WriteAndCommit, WithResult
  <2> QED BY <2>1, <2>2, <2>3, WorkerFrame
<1>4. CASE WriteGraded(w)
  <2>1. /\ ~InTransaction(w)
        /\ j \in Submissions
        /\ row[j].status = "RUNNING" /\ row[j].gen = worker[w].gen
        /\ \A v \in Workers : InTransaction(v) => worker[v].job # j
        /\ UNCHANGED row
    BY <1>4 DEF WriteGraded, InTransaction, Fence, Locked
  <2>2. /\ \A v \in Workers \ {w} : worker'[v] = worker[v]
        /\ worker'[w].job = j /\ worker'[w].gen = worker[w].gen
    BY <1>4, <1>w DEF WriteGraded, WorkerState
  <2> QED BY <2>1, <2>2 DEF IInv, OpenWriteOwnsRow, InTransaction
<1>5. CASE SumScores(w) \/ LockParticipation(w)
  <2>1. InTransaction(w) /\ UNCHANGED row
    BY <1>5 DEF SumScores, LockParticipation, InTransaction
  <2>2. /\ \A v \in Workers \ {w} : worker'[v] = worker[v]
        /\ worker'[w].job = j /\ worker'[w].gen = worker[w].gen
    BY <1>5, <1>w DEF SumScores, LockParticipation, WorkerState
  <2>3. KeepsOpenWrites
    BY <2>1, <2>2 DEF KeepsOpenWrites, InTransaction
  <2> QED BY <2>3, OwnsRowFrame DEF IInv
<1>6. CASE Commit(w)
  <2>1. InTransaction(w) /\ ~InTransaction(w)'
    BY <1>6, <1>w DEF Commit, InTransaction, IdleWorker
  <2>2. \A v \in Workers \ {w} : worker'[v] = worker[v]
    BY <1>6, <1>w DEF Commit
  <2>3. \A k \in Jobs \ {j} : row'[k] = row[k]
    BY <1>6, <1>w DEF Commit, WithResult
  <2> QED BY <2>1, <2>2, <2>3, WorkerFrame
<1> QED BY <1>1, <1>2, <1>3, <1>4, <1>5, <1>6 DEF WorkerStep

LEMMA OwnsRowSteps ==
  ASSUME IInv, [Next]_vars
  PROVE  OpenWriteOwnsRow'
<1>t. row \in [Jobs -> Row] /\ OpenWriteOwnsRow
  BY DEF IInv, TypeOK
<1>1. CASE UNCHANGED <<row, worker>>
  BY <1>1, <1>t DEF OpenWriteOwnsRow, InTransaction
<1>2. ASSUME NEW j \in Jobs, Create(j)
      PROVE  OpenWriteOwnsRow'
  <2>1. ~Locked(j)
    BY <1>2, <1>t DEF Create, Locked, OpenWriteOwnsRow
  <2>2. UNCHANGED worker /\ \A k \in Jobs \ {j} : row'[k] = row[k]
    BY <1>2, <1>t DEF Create
  <2> QED BY <2>1, <2>2, UnlockedRowFrame
<1>3. CASE Recover
  <2>1. ~Locked(sweep.job) /\ UNCHANGED worker
    BY <1>3 DEF Recover
  <2>2. \A k \in Jobs \ {sweep.job} : row'[k] = row[k]
    BY <1>3, <1>t DEF Recover
  <2> QED BY <2>1, <2>2, UnlockedRowFrame
<1>4. \/ UNCHANGED <<row, worker>>
      \/ \E j \in Jobs : Create(j)
      \/ Recover
      \/ \E w \in Workers : WorkerStep(w) \/ WorkerCrash(w)
  BY DEF vars, Next, Enqueue, LoseEnqueue, Age, QueueLoss, ReconcilerStep, ReconcilerCrash,
         ListStaleRuns, ListStaleSubmissions, EndSweep, NextStale, RecoverLost, PushRecovered
<1> QED BY <1>1, <1>2, <1>3, <1>4, WorkerOwnsRow

\* IInv is inductive.
LEMMA StepIInv == IInv /\ [Next]_vars => IInv'
BY TypeSteps, OwnsRowSteps DEF IInv

\* Every variable keeps its type: in particular no score, total or point
\* leaves its range, and the ledger holds practice submissions only.
THEOREM TypeCorrect == Spec => []TypeOK
<1>1. IInv => TypeOK
  BY DEF IInv
<1> QED BY <1>1, InitIInv, StepIInv, PTL DEF Spec

\* An uncommitted result never loses the row it was fenced for.
THEOREM OpenWriteSafe == Spec => []OpenWriteOwnsRow
<1>1. IInv => OpenWriteOwnsRow
  BY DEF IInv
<1> QED BY <1>1, InitIInv, StepIInv, PTL DEF Spec

-----------------------------------------------------------------------------
(* What a step does to the rows of submissions.                            *)

\* A judged submission keeps its row.
KeepsJudged ==
    \A j \in Submissions : row[j].status \in Terminal => row'[j] = row[j]

\* The step judges submission i with result r, its row being open before.
Judges(i, r) ==
    /\ row[i].status = "RUNNING"
    /\ row' = WithResult(row, i, r)

\* A step that judges no submission may create, claim or recover one.
JudgesNothing ==
    /\ \A j \in Submissions :
          \/ row'[j] = row[j]
          \/ /\ row[j].status \notin Terminal /\ row'[j].status \in Open
             /\ row'[j].verdict = row[j].verdict /\ row'[j].score = row[j].score
    /\ UNCHANGED <<total, ledger>>

\* Every step judges nothing, fails a submission outright, or commits one.
LEMMA StepJudges ==
  ASSUME IInv, [Next]_vars
  PROVE  \/ JudgesNothing
         \/ /\ \E j \in Submissions : Judges(j, FailResult)
            /\ UNCHANGED <<total, ledger>>
         \/ \E w \in Workers : /\ Commit(w)
                               /\ worker[w].job \in Submissions
                               /\ Judges(worker[w].job, worker[w].result)
<1>t. row \in [Jobs -> Row] /\ Submissions \subseteq Jobs
  BY DEF IInv, TypeOK, Jobs
<1>1. CASE UNCHANGED <<row, total, ledger>>
  BY <1>1 DEF JudgesNothing
<1>2. ASSUME NEW j \in Jobs, Create(j)
      PROVE  JudgesNothing
  BY <1>2, <1>t DEF Create, JudgesNothing, Terminal, Open, Row
<1>3. CASE Recover
  BY <1>3, <1>t DEF Recover, Recoverable, JudgesNothing, Terminal, Open, Row
<1>4. ASSUME NEW w \in Workers, Claim(w)
      PROVE  JudgesNothing
  <2>1. worker[w].job \in Jobs
    BY <1>4 DEF Claim, IInv, HoldsJob
  <2> QED BY <1>4, <1>t, <2>1 DEF Claim, JudgesNothing, Terminal, Open, Row
<1>5. ASSUME NEW w \in Workers, WriteAndCommit(w)
      PROVE  \/ JudgesNothing
             \/ /\ \E j \in Submissions : Judges(j, FailResult)
                /\ UNCHANGED <<total, ledger>>
  <2> DEFINE j == worker[w].job
  <2>1. j \in Jobs /\ UNCHANGED <<total, ledger>>
    BY <1>5 DEF WriteAndCommit, IInv, HoldsJob
  <2>2. CASE ~Fence(w)
    BY <1>5, <2>1, <2>2 DEF WriteAndCommit, JudgesNothing
  <2>3. CASE Fence(w) /\ j \in Submissions
    <3>1. j \notin Runs
      BY <2>3, JobsAssumption
    <3> QED BY <1>5, <2>1, <2>3, <3>1 DEF WriteAndCommit, Fence, Judges
  <2>4. CASE Fence(w) /\ j \notin Submissions
    <3>1. \E r : row' = WithResult(row, j, r)
      BY <1>5, <2>4 DEF WriteAndCommit
    <3>2. \A i \in Submissions : row'[i] = row[i]
      BY <3>1, <2>4, <1>t DEF WithResult
    <3> QED BY <2>1, <3>2 DEF JudgesNothing
  <2> QED BY <2>2, <2>3, <2>4
<1>6. ASSUME NEW w \in Workers, Commit(w)
      PROVE  /\ worker[w].job \in Submissions
             /\ Judges(worker[w].job, worker[w].result)
  BY <1>6 DEF Commit, Judges, IInv, OpenWriteOwnsRow, InTransaction
<1>7. \/ UNCHANGED <<row, total, ledger>>
      \/ \E j \in Jobs : Create(j)
      \/ Recover
      \/ \E w \in Workers : Claim(w) \/ WriteAndCommit(w) \/ Commit(w)
  BY DEF vars, Next, Enqueue, LoseEnqueue, Age, QueueLoss, ReconcilerStep, ReconcilerCrash,
         ListStaleRuns, ListStaleSubmissions, EndSweep, NextStale, RecoverLost, PushRecovered,
         WorkerStep, WorkerCrash, Pop, ReadForClaim, Refresh, WriteGraded, SumScores,
         LockParticipation
<1> QED BY <1>1, <1>2, <1>3, <1>4, <1>5, <1>6, <1>7

LEMMA StepKeepsJudged ==
  ASSUME IInv, [Next]_vars
  PROVE  KeepsJudged
<1>t. row \in [Jobs -> Row] /\ Submissions \subseteq Jobs
  BY DEF IInv, TypeOK, Jobs
<1>1. CASE JudgesNothing
  BY <1>1 DEF JudgesNothing, KeepsJudged
<1>2. ASSUME NEW i \in Submissions, NEW r, Judges(i, r)
      PROVE  KeepsJudged
  BY <1>2, <1>t DEF Judges, KeepsJudged, WithResult, Terminal
<1> QED BY <1>1, <1>2, StepJudges

\* No interleaving of late workers, duplicate messages and recoveries changes
\* the row of a judged submission: the fences and the recovery test suffice.
THEOREM ResultFinal == Spec => SubmissionResultFinal
<1>1. IInv /\ [Next]_vars =>
        [\A j \in Submissions : row[j].status \in Terminal => row'[j] = row[j]]_vars
  BY StepKeepsJudged DEF KeepsJudged
<1> QED BY <1>1, InitIInv, StepIInv, PTL DEF Spec, SubmissionResultFinal

-----------------------------------------------------------------------------
(* Practice points.  For induction: only judged rows carry a verdict.      *)

VerdictMeansJudged ==
    \A j \in Submissions : row[j].verdict # "NONE" => row[j].status \in Terminal

PointsInv == VerdictMeansJudged /\ PointsFollowVerdicts

LEMMA InitPoints == Init => PointsInv
BY DEF Init, NoRow, PointsInv, VerdictMeansJudged, PointsFollowVerdicts, PracticeJobs, Jobs

LEMMA StepPoints ==
  ASSUME IInv, PointsInv, [Next]_vars
  PROVE  PointsInv'
<1>t. /\ row \in [Jobs -> Row] /\ Submissions \subseteq Jobs
      /\ PracticeJobs \subseteq Submissions /\ ledger \subseteq PracticeJobs
  BY DEF IInv, TypeOK, Jobs, PracticeJobs
<1>1. CASE JudgesNothing
  <2>1. \A j \in Submissions : row'[j].verdict = row[j].verdict
    BY <1>1 DEF JudgesNothing
  <2>2. VerdictMeansJudged'
    BY <1>1 DEF JudgesNothing, PointsInv, VerdictMeansJudged
  <2>3. PointsFollowVerdicts'
    BY <1>1, <1>t, <2>1 DEF JudgesNothing, PointsInv, PointsFollowVerdicts
  <2> QED BY <2>2, <2>3 DEF PointsInv
<1>2. ASSUME NEW i \in Submissions, NEW r \in Result, Judges(i, r)
      PROVE  /\ VerdictMeansJudged'
             /\ row[i].verdict = "NONE" /\ i \notin ledger
             /\ row'[i].verdict = r.verdict
             /\ \A j \in Submissions \ {i} : row'[j] = row[j]
  <2>1. row[i].verdict = "NONE"
    BY <1>2 DEF Judges, PointsInv, VerdictMeansJudged, Terminal
  <2>2. i \notin ledger
    BY <2>1 DEF PointsInv, PointsFollowVerdicts
  <2>3. /\ row'[i].verdict = r.verdict /\ row'[i].status \in Terminal
        /\ \A j \in Submissions \ {i} : row'[j] = row[j]
    BY <1>2, <1>t DEF Judges, WithResult, Row, Result
  <2>4. VerdictMeansJudged'
    BY <2>3 DEF PointsInv, VerdictMeansJudged
  <2> QED BY <2>1, <2>2, <2>3, <2>4
<1>3. CASE (\E i \in Submissions : Judges(i, FailResult)) /\ UNCHANGED <<total, ledger>>
  <2> PICK i \in Submissions : Judges(i, FailResult)
    BY <1>3
  <2>1. FailResult \in Result /\ FailResult.verdict = "INTERNAL_ERROR"
    BY ResultTypes DEF FailResult
  <2>2. PointsFollowVerdicts'
    BY <1>2, <1>3, <1>t, <2>1 DEF PointsInv, PointsFollowVerdicts
  <2> QED BY <1>2, <2>1, <2>2 DEF PointsInv
<1>4. ASSUME NEW w \in Workers, Commit(w), worker[w].job \in Submissions,
             Judges(worker[w].job, worker[w].result)
      PROVE  PointsInv'
  <2> DEFINE j == worker[w].job
             r == worker[w].result
  <2>1. r \in Result
    BY DEF IInv, TypeOK, WorkerState
  <2>2. CASE j \in ExamJobs
    <3>1. ledger' = ledger /\ j \notin PracticeJobs
      BY <1>4, <2>2 DEF Commit, ExamJobs
    <3>2. PointsFollowVerdicts'
      BY <1>2, <1>4, <1>t, <2>1, <3>1 DEF PointsInv, PointsFollowVerdicts
    <3> QED BY <1>2, <1>4, <2>1, <3>2 DEF PointsInv
  <2>3. CASE j \notin ExamJobs
    <3>1. ledger' = Award(j, r) /\ j \in PracticeJobs
      BY <1>4, <2>3 DEF Commit, ExamJobs
    <3>2. \A k \in PracticeJobs : row'[k].verdict = "ACCEPTED" =>
            \E l \in ledger' : ProblemOf[l] = ProblemOf[k]
      BY <1>2, <1>4, <1>t, <2>1, <3>1 DEF PointsInv, PointsFollowVerdicts, Award
    <3>3. \A k \in ledger' : row'[k].verdict = "ACCEPTED"
      BY <1>2, <1>4, <1>t, <2>1, <3>1 DEF PointsInv, PointsFollowVerdicts, Award
    <3>4. \A k, l \in ledger' : ProblemOf[k] = ProblemOf[l] => k = l
      BY <3>1 DEF PointsInv, PointsFollowVerdicts, Award
    <3> QED BY <1>2, <1>4, <2>1, <3>2, <3>3, <3>4 DEF PointsInv, PointsFollowVerdicts
  <2> QED BY <2>2, <2>3
<1> QED BY <1>1, <1>3, <1>4, StepJudges

\* Practice points and verdicts agree at every moment, crashes included.
THEOREM PointsCorrect == Spec => []PointsFollowVerdicts
<1>1. IInv /\ PointsInv /\ [Next]_vars => IInv' /\ PointsInv'
  BY StepIInv, StepPoints
<1>2. PointsInv => PointsFollowVerdicts
  BY DEF PointsInv
<1> QED BY <1>1, <1>2, InitIInv, InitPoints, PTL DEF Spec

-----------------------------------------------------------------------------
(* Exam totals.  For induction: a sum a worker holds is no more than what  *)
(* the rows and its own uncommitted result give.                           *)

HeldSumBounded ==
    \A w \in Workers : (worker[w].pc \in {"lock", "commit"} /\ worker[w].job \in ExamJobs) =>
      \A q \in Problems :
        worker[w].sum[q] <= BestScore(WithResult(row, worker[w].job, worker[w].result),
                                      ParticipationOf[worker[w].job], q)

TotalInv == HeldSumBounded /\ TotalNeverInflated

\* The best score does not fall when judged rows keep status and score.
LEMMA BestScoreMonotone ==
  ASSUME NEW R \in [Jobs -> Row], NEW S \in [Jobs -> Row], NEW p, NEW q,
         \A j \in Submissions : R[j].status = "COMPLETED" =>
            S[j].status = R[j].status /\ S[j].score = R[j].score
  PROVE  BestScore(R, p, q) <= BestScore(S, p, q)
<1>1. Judged(R, p, q) \subseteq Judged(S, p, q)
  BY DEF Judged
<1>2. BestScore(R, p, q) \in Nat /\ BestScore(S, p, q) \in Nat
  BY BestScoreIsMax, NumbersAssumption DEF Scores
<1>3. CASE BestScore(R, p, q) = 0
  BY <1>2, <1>3
<1>4. ASSUME NEW j \in Judged(R, p, q), BestScore(R, p, q) = R[j].score
      PROVE  BestScore(R, p, q) <= BestScore(S, p, q)
  <2>1. j \in Judged(S, p, q) /\ S[j].score = R[j].score
    BY <1>1 DEF Judged
  <2> QED BY <1>4, <2>1, BestScoreIsMax
<1> QED BY <1>3, <1>4, BestScoreIsMax

LEMMA InitTotal == Init => TotalInv
<1> SUFFICES ASSUME Init PROVE TotalInv
  OBVIOUS
<1>1. TypeOK
  BY InitIInv DEF IInv
<1>2. \A p, q : BestScore(row, p, q) \in Nat
  BY <1>1, BestScoreIsMax, NumbersAssumption DEF TypeOK, Scores
<1>3. TotalNeverInflated
  BY <1>2 DEF Init, TotalNeverInflated
<1>4. HeldSumBounded
  BY DEF Init, HeldSumBounded, IdleWorker
<1> QED BY <1>3, <1>4 DEF TotalInv

\* A sum a worker holds after a step was held before, or has just been selected.
LEMMA HeldSumOrigin ==
  ASSUME IInv, [Next]_vars, NEW v \in Workers,
         worker'[v].pc \in {"lock", "commit"}, worker'[v].job \in ExamJobs
  PROVE  \/ /\ worker[v].pc \in {"lock", "commit"}
            /\ worker'[v].job = worker[v].job
            /\ worker'[v].result = worker[v].result
            /\ worker'[v].sum = worker[v].sum
         \/ SumScores(v) /\ worker'[v].job = worker[v].job
                         /\ worker'[v].result = worker[v].result
<1>t. worker \in [Workers -> WorkerState]
  BY DEF IInv, TypeOK
<1>1. CASE worker'[v] = worker[v]
  BY <1>1
<1>2. ASSUME NEW w \in Workers, WorkerStep(w) \/ WorkerCrash(w), w # v
      PROVE  worker'[v] = worker[v]
  BY <1>2, <1>t
     DEF WorkerStep, WorkerCrash, Pop, ReadForClaim, Claim, Refresh, WriteAndCommit,
         WriteGraded, SumScores, LockParticipation, Commit
<1>3. CASE Pop(v) \/ Refresh(v)
  BY <1>3, <1>t DEF Pop, Refresh, WorkerState
<1>4. CASE ReadForClaim(v) \/ Claim(v) \/ WriteAndCommit(v) \/ Commit(v) \/ WorkerCrash(v)
  BY <1>4, <1>t
     DEF ReadForClaim, Claim, WriteAndCommit, Commit, WorkerCrash, WorkerState, IdleWorker
<1>5. CASE WriteGraded(v)
  BY <1>5, <1>t DEF WriteGraded, WorkerState
<1>6. CASE SumScores(v) \/ LockParticipation(v)
  BY <1>6, <1>t DEF SumScores, LockParticipation, WorkerState
<1>7. \/ UNCHANGED worker
      \/ \E w \in Workers : WorkerStep(w) \/ WorkerCrash(w)
  BY DEF vars, Next, Create, Enqueue, LoseEnqueue, Age, QueueLoss, ReconcilerStep,
         ReconcilerCrash, ListStaleRuns, ListStaleSubmissions, EndSweep, NextStale,
         Recover, RecoverLost, PushRecovered
<1> QED BY <1>1, <1>2, <1>3, <1>4, <1>5, <1>6, <1>7 DEF WorkerStep

LEMMA StepTotal ==
  ASSUME IInv, TotalInv, [Next]_vars
  PROVE  TotalInv'
<1>t. /\ row \in [Jobs -> Row] /\ row' \in [Jobs -> Row]
      /\ Submissions \subseteq Jobs /\ ExamJobs \subseteq Jobs
      /\ total \in [Participations -> [Problems -> Scores]]
      /\ worker \in [Workers -> WorkerState]
  BY TypeSteps DEF IInv, TypeOK, Jobs, ExamJobs
<1>n. Scores \subseteq Nat
  BY NumbersAssumption DEF Scores
<1>k. KeepsJudged
  BY StepKeepsJudged
<1>1. \A p, q : BestScore(row, p, q) <= BestScore(row', p, q)
  <2>1. \A j \in Submissions : row[j].status = "COMPLETED" => row'[j] = row[j]
    BY <1>k DEF KeepsJudged, Terminal
  <2> QED BY <1>t, <2>1, BestScoreMonotone
<1>2. ASSUME NEW j \in ExamJobs, NEW r \in Result, NEW p, NEW q
      PROVE  BestScore(WithResult(row, j, r), p, q) <= BestScore(WithResult(row', j, r), p, q)
  <2>1. /\ WithResult(row, j, r) \in [Jobs -> Row]
        /\ WithResult(row', j, r) \in [Jobs -> Row]
    BY <1>t, WithResultType
  <2>2. \A i \in Submissions : WithResult(row, j, r)[i].status = "COMPLETED" =>
          /\ WithResult(row', j, r)[i].status = WithResult(row, j, r)[i].status
          /\ WithResult(row', j, r)[i].score = WithResult(row, j, r)[i].score
    BY <1>t, <1>k DEF WithResult, KeepsJudged, Terminal, Row
  <2> QED BY <2>1, <2>2, BestScoreMonotone
<1>3. HeldSumBounded'
  <2> SUFFICES ASSUME NEW v \in Workers, NEW q \in Problems,
                      worker'[v].pc \in {"lock", "commit"}, worker'[v].job \in ExamJobs
               PROVE  worker'[v].sum[q] <= BestScore(WithResult(row', worker'[v].job, worker'[v].result),
                                                     ParticipationOf[worker'[v].job], q)
    BY DEF HeldSumBounded
  <2> DEFINE j == worker[v].job
             r == worker[v].result
             p == ParticipationOf[j]
  <2>r. r \in Result /\ worker[v].sum \in [Problems -> Scores]
    BY <1>t DEF WorkerState
  <2>n. ASSUME j \in ExamJobs
        PROVE  /\ BestScore(WithResult(row, j, r), p, q) \in Nat
               /\ BestScore(WithResult(row', j, r), p, q) \in Nat
               /\ BestScore(WithResult(row, j, r), p, q) <= BestScore(WithResult(row', j, r), p, q)
    BY <1>2, <1>n, <1>t, <2>n, <2>r, WithResultType, BestScoreIsMax
  <2>1. CASE /\ worker[v].pc \in {"lock", "commit"}
             /\ worker'[v].job = j /\ worker'[v].result = r
             /\ worker'[v].sum = worker[v].sum
    <3>1. worker[v].sum[q] <= BestScore(WithResult(row, j, r), p, q)
      BY <2>1 DEF TotalInv, HeldSumBounded
    <3>2. worker[v].sum[q] \in Nat
      BY <1>n, <2>r
    <3> QED BY <2>1, <2>n, <3>1, <3>2
  <2>2. CASE SumScores(v) /\ worker'[v].job = j /\ worker'[v].result = r
    <3>1. worker'[v].sum[q] = BestScore(WithResult(row, j, r), p, q)
      BY <1>t, <2>2 DEF SumScores, ExamTotal, WorkerState
    <3> QED BY <2>2, <2>n, <3>1
  <2> QED BY <2>1, <2>2, HeldSumOrigin
<1>4. TotalNeverInflated'
  <2> SUFFICES ASSUME NEW p \in Participations, NEW q \in Problems
               PROVE  total'[p][q] <= BestScore(row', p, q)
    BY DEF TotalNeverInflated
  <2>n. BestScore(row, p, q) \in Nat /\ BestScore(row', p, q) \in Nat
    BY <1>t, <1>n, BestScoreIsMax
  <2>1. CASE total'[p] = total[p]
    <3>1. total[p][q] \in Nat /\ total[p][q] <= BestScore(row, p, q)
      BY <1>t, <1>n DEF TotalInv, TotalNeverInflated
    <3> QED BY <1>1, <2>1, <2>n, <3>1
  <2>2. ASSUME NEW w \in Workers, Commit(w), total'[p] # total[p]
        PROVE  total'[p][q] <= BestScore(row', p, q)
    <3>1. /\ worker[w].pc = "commit" /\ worker[w].job \in ExamJobs
          /\ ParticipationOf[worker[w].job] = p
          /\ total'[p] = worker[w].sum
          /\ row' = WithResult(row, worker[w].job, worker[w].result)
      BY <1>t, <2>2 DEF Commit
    <3> QED BY <3>1 DEF TotalInv, HeldSumBounded
  <2>3. UNCHANGED total \/ \E w \in Workers : Commit(w)
    BY StepJudges DEF JudgesNothing
  <2> QED BY <2>1, <2>2, <2>3
<1> QED BY <1>3, <1>4 DEF TotalInv

\* An exam total never exceeds the best judged scores, for any number of
\* workers: the race between two results can only lose points.
THEOREM TotalCorrect == Spec => []TotalNeverInflated
<1>1. IInv /\ TotalInv /\ [Next]_vars => IInv' /\ TotalInv'
  BY StepIInv, StepTotal
<1>2. TotalInv => TotalNeverInflated
  BY DEF TotalInv
<1> QED BY <1>1, <1>2, InitIInv, InitTotal, PTL DEF Spec

-----------------------------------------------------------------------------
(* When the total is exact.  What one worker's sum does not see is another *)
(* result of the same participation, committed between its SELECT and its  *)
(* own commit; nothing else makes a total wrong.                           *)

\* No two workers have an uncommitted result of one participation.
OneWritePerParticipation ==
    \A v, w \in Workers :
        /\ InTransaction(v) /\ worker[v].job \in ExamJobs
        /\ InTransaction(w) /\ worker[w].job \in ExamJobs
        /\ ParticipationOf[worker[v].job] = ParticipationOf[worker[w].job]
        => v = w

\* A sum that a worker holds is the total that its commit leads to.
HeldSumExact ==
    \A w \in Workers : (worker[w].pc \in {"lock", "commit"} /\ worker[w].job \in ExamJobs) =>
        worker[w].sum = ExamTotal(WithResult(row, worker[w].job, worker[w].result),
                                  ParticipationOf[worker[w].job])

ExactInv == HeldSumExact /\ TotalIsBestScores

\* The submissions of p that are judged, and their scores, are the same in R and S.
CountsAlike(R, S, p) ==
    \A j \in Submissions : ParticipationOf[j] = p =>
        /\ R[j].status = "COMPLETED" <=> S[j].status = "COMPLETED"
        /\ R[j].status = "COMPLETED" => R[j].score = S[j].score

\* Then the total of p is too.
LEMMA SameTotal ==
  ASSUME NEW R, NEW S, NEW p, CountsAlike(R, S, p)
  PROVE  ExamTotal(R, p) = ExamTotal(S, p)
<1>1. ASSUME NEW q
      PROVE  BestScore(R, p, q) = BestScore(S, p, q)
  <2>1. Judged(R, p, q) = Judged(S, p, q)
    BY DEF Judged, CountsAlike
  <2>2. \A j \in Judged(R, p, q) : R[j].score = S[j].score
    BY DEF Judged, CountsAlike
  <2>3. {R[j].score : j \in Judged(R, p, q)} = {S[j].score : j \in Judged(S, p, q)}
    BY <2>1, <2>2
  <2> QED BY <2>3, Zenon DEF BestScore
<1> QED BY <1>1 DEF ExamTotal

\* Only the commit of a graded submission of p changes what counts for p.
LEMMA StepCounts ==
  ASSUME IInv, [Next]_vars, NEW p
  PROVE  \/ CountsAlike(row, row', p) /\ UNCHANGED total
         \/ \E w \in Workers : /\ Commit(w)
                               /\ worker[w].job \in Submissions
                               /\ Judges(worker[w].job, worker[w].result)
<1>t. row \in [Jobs -> Row] /\ Submissions \subseteq Jobs
  BY DEF IInv, TypeOK, Jobs
<1>1. CASE JudgesNothing
  BY <1>1 DEF JudgesNothing, CountsAlike, Terminal, Open
<1>2. CASE (\E j \in Submissions : Judges(j, FailResult)) /\ UNCHANGED <<total, ledger>>
  <2>1. PICK i \in Submissions : Judges(i, FailResult)
    BY <1>2
  <2>2. row[i].status = "RUNNING" /\ row'[i].status = "FAILED_INTERNAL"
    BY <1>t, <2>1 DEF Judges, WithResult, FailResult, Row
  <2>3. \A j \in Submissions \ {i} : row'[j] = row[j]
    BY <1>t, <2>1 DEF Judges, WithResult
  <2>4. CountsAlike(row, row', p)
    BY <2>2, <2>3 DEF CountsAlike
  <2> QED BY <1>2, <2>4
<1> QED BY <1>1, <1>2, StepJudges

\* The commit of submission j leaves alone what counts for another participation.
LEMMA OtherCounts ==
  ASSUME row \in [Jobs -> Row], NEW j \in Submissions, NEW r, Judges(j, r),
         NEW p, ParticipationOf[j] # p
  PROVE  CountsAlike(row, row', p)
<1>1. Submissions \subseteq Jobs
  BY DEF Jobs
<1> QED BY <1>1 DEF Judges, CountsAlike, WithResult

LEMMA InitExact == Init => ExactInv
<1> SUFFICES ASSUME Init PROVE ExactInv
  OBVIOUS
<1>1. ASSUME NEW p, NEW q
      PROVE  BestScore(row, p, q) = 0
  <2>1. Judged(row, p, q) = {}
    BY DEF Init, NoRow, Judged, Jobs
  <2>2. {0} \union {row[j].score : j \in Judged(row, p, q)} = {0}
    BY <2>1
  <2> QED BY <2>2 DEF BestScore
<1>2. TotalIsBestScores
  BY <1>1 DEF Init, TotalIsBestScores, ExamTotal
<1>3. HeldSumExact
  BY DEF Init, HeldSumExact, IdleWorker
<1> QED BY <1>2, <1>3 DEF ExactInv

LEMMA StepExact ==
  ASSUME IInv, ExactInv, OneWritePerParticipation, [Next]_vars
  PROVE  ExactInv'
<1>t. /\ row \in [Jobs -> Row] /\ row' \in [Jobs -> Row]
      /\ Submissions \subseteq Jobs /\ ExamJobs \subseteq Submissions
      /\ total \in [Participations -> [Problems -> Scores]]
      /\ worker \in [Workers -> WorkerState]
  BY TypeSteps DEF IInv, TypeOK, Jobs, ExamJobs
<1>1. ASSUME NEW j \in ExamJobs, NEW r, NEW p, CountsAlike(row, row', p)
      PROVE  ExamTotal(WithResult(row, j, r), p) = ExamTotal(WithResult(row', j, r), p)
  <2>1. CountsAlike(WithResult(row, j, r), WithResult(row', j, r), p)
    BY <1>1, <1>t DEF CountsAlike, WithResult, Row
  <2> QED BY <2>1, SameTotal
<1>2. HeldSumExact'
  <2> SUFFICES ASSUME NEW v \in Workers,
                      worker'[v].pc \in {"lock", "commit"}, worker'[v].job \in ExamJobs
               PROVE  worker'[v].sum = ExamTotal(WithResult(row', worker'[v].job, worker'[v].result),
                                                 ParticipationOf[worker'[v].job])
    BY DEF HeldSumExact
  <2> DEFINE j == worker[v].job
             r == worker[v].result
             p == ParticipationOf[j]
  <2>1. CASE /\ worker[v].pc \in {"lock", "commit"}
             /\ worker'[v].job = j /\ worker'[v].result = r
             /\ worker'[v].sum = worker[v].sum
    <3>1. worker[v].sum = ExamTotal(WithResult(row, j, r), p)
      BY <2>1 DEF ExactInv, HeldSumExact
    <3>2. CountsAlike(row, row', p)
      <4>1. ASSUME NEW w \in Workers, Commit(w), worker[w].job \in Submissions,
                   Judges(worker[w].job, worker[w].result), ParticipationOf[worker[w].job] = p
            PROVE  FALSE
        <5>1. w # v
          BY <1>t, <4>1 DEF Commit, IdleWorker
        <5>2. j \in ExamJobs /\ worker[w].job \in ExamJobs
          BY <2>1, <4>1 DEF ExamJobs, PracticeJobs
        <5>3. InTransaction(v) /\ InTransaction(w)
          BY <2>1, <4>1 DEF InTransaction, Commit
        <5> QED BY <4>1, <5>1, <5>2, <5>3 DEF OneWritePerParticipation
      <4> QED BY <1>t, <4>1, StepCounts, OtherCounts
    <3> QED BY <1>1, <2>1, <3>1, <3>2
  <2>2. CASE SumScores(v) /\ worker'[v].job = j /\ worker'[v].result = r
    BY <1>t, <2>2 DEF SumScores, WorkerState
  <2> QED BY <2>1, <2>2, HeldSumOrigin
<1>3. TotalIsBestScores'
  <2> SUFFICES ASSUME NEW p \in Participations
               PROVE  total'[p] = ExamTotal(row', p)
    BY DEF TotalIsBestScores
  <2>1. total[p] = ExamTotal(row, p)
    BY DEF ExactInv, TotalIsBestScores
  <2>2. CASE CountsAlike(row, row', p) /\ UNCHANGED total
    BY <2>1, <2>2, SameTotal
  <2>3. ASSUME NEW w \in Workers, Commit(w), worker[w].job \in Submissions,
               Judges(worker[w].job, worker[w].result)
        PROVE  total'[p] = ExamTotal(row', p)
    <3> DEFINE j == worker[w].job
    <3>1. CASE ParticipationOf[j] = p
      <4>1. j \in ExamJobs /\ worker[w].pc = "commit"
        BY <2>3, <3>1, JobsAssumption DEF ExamJobs, PracticeJobs, Commit
      <4>2. total'[p] = worker[w].sum
        BY <1>t, <2>3, <3>1, <4>1 DEF Commit
      <4>3. worker[w].sum = ExamTotal(WithResult(row, j, worker[w].result), p)
        BY <3>1, <4>1 DEF ExactInv, HeldSumExact
      <4> QED BY <2>3, <4>2, <4>3 DEF Judges
    <3>2. CASE ParticipationOf[j] # p
      <4>1. total'[p] = total[p]
        BY <1>t, <2>3, <3>2 DEF Commit
      <4> QED BY <1>t, <2>1, <2>3, <3>2, <4>1, OtherCounts, SameTotal
    <3> QED BY <3>1, <3>2
  <2> QED BY <2>2, <2>3, StepCounts
<1> QED BY <1>2, <1>3 DEF ExactInv

\* However many workers there are, the exam total is exact as long as no two of them have
\* an uncommitted result of one participation.  This is what a lock of the participation
\* before the SELECT of the sum would give.
THEOREM TotalExactWithoutOverlap ==
  Spec /\ []OneWritePerParticipation => []TotalIsBestScores
<1>1. IInv /\ ExactInv /\ OneWritePerParticipation /\ [Next]_vars => IInv' /\ ExactInv'
  BY StepIInv, StepExact
<1>2. ExactInv => TotalIsBestScores
  BY DEF ExactInv
<1> QED BY <1>1, <1>2, InitIInv, InitExact, PTL DEF Spec

\* A deployment with a single worker has exact totals.
THEOREM TotalExactAlone ==
  (\A v, w \in Workers : v = w) => (Spec => []TotalIsBestScores)
<1> SUFFICES ASSUME \A v, w \in Workers : v = w
             PROVE  Spec => []TotalIsBestScores
  OBVIOUS
<1>1. OneWritePerParticipation
  BY DEF OneWritePerParticipation
<1>2. IInv /\ ExactInv /\ [Next]_vars => IInv' /\ ExactInv'
  BY <1>1, StepIInv, StepExact
<1>3. ExactInv => TotalIsBestScores
  BY DEF ExactInv
<1> QED BY <1>2, <1>3, InitIInv, InitExact, PTL DEF Spec

-----------------------------------------------------------------------------
(* The pipeline implements JudgedOnce.                                     *)

LEMMA InitRefines == Init => Once!Init
BY DEF Init, NoRow, Once!Init, Published, Terminal, Jobs

LEMMA StepRefines ==
  ASSUME IInv, [Next]_vars
  PROVE  [Once!Next]_(Once!vars)
<1> DEFINE result == [j \in Submissions |-> Published(j)]
<1>t. row \in [Jobs -> Row] /\ Submissions \subseteq Jobs
  BY DEF IInv, TypeOK, Jobs
<1>1. CASE JudgesNothing
  <2>1. \A j \in Submissions : Published(j)' = Published(j)
    BY <1>1 DEF JudgesNothing, Published, Terminal, Open
  <2>2. result' = result /\ ledger' = ledger
    BY <1>1, <2>1 DEF JudgesNothing
  <2> QED BY <2>2 DEF Once!vars
<1>2. ASSUME NEW i \in Submissions, NEW r \in GradeResults, Judges(i, r)
      PROVE  result[i] = {} /\ result' = [result EXCEPT ![i] = {r}]
  <2>1. r = [status |-> r.status, verdict |-> r.verdict, score |-> r.score] /\ r.status \in Terminal
    BY <1>2 DEF GradeResults, FailResult, Terminal
  <2>2. Published(i) = {} /\ Published(i)' = {r}
    BY <1>2, <1>t, <2>1 DEF Judges, WithResult, Published, Terminal, Row
  <2>3. \A j \in Submissions \ {i} : Published(j)' = Published(j)
    BY <1>2, <1>t DEF Judges, WithResult, Published
  <2> QED BY <2>2, <2>3
<1>3. CASE (\E i \in Submissions : Judges(i, FailResult)) /\ UNCHANGED <<total, ledger>>
  <2> PICK i \in Submissions : Judges(i, FailResult)
    BY <1>3
  <2>1. FailResult \in GradeResults /\ FailResult.verdict # "ACCEPTED"
    BY DEF GradeResults, FailResult
  <2>2. ~ Once!EarnsPoints(i, FailResult)
    BY <2>1 DEF Once!EarnsPoints
  <2>3. Once!Judge(i)
    BY <1>2, <1>3, <2>1, <2>2 DEF Once!Judge
  <2> QED BY <2>3 DEF Once!Next
<1>4. ASSUME NEW w \in Workers, Commit(w), worker[w].job \in Submissions,
             Judges(worker[w].job, worker[w].result)
      PROVE  Once!Next
  <2> DEFINE j == worker[w].job
             r == worker[w].result
  <2>1. r \in GradeResults
    BY <1>4 DEF Commit, IInv, HoldsJob, InTransaction
  <2>2. ledger' = IF Once!EarnsPoints(j, r) THEN ledger \union {j} ELSE ledger
    BY <1>4 DEF Commit, Award, Once!EarnsPoints, ExamJobs, PracticeJobs
  <2>3. Once!Judge(j)
    BY <1>2, <1>4, <2>1, <2>2 DEF Once!Judge
  <2> QED BY <1>4, <2>3 DEF Once!Next
<1> QED BY <1>1, <1>3, <1>4, StepJudges

\* With queue, workers, generations and reconciler hidden, the pipeline judges
\* every submission at most once, together with its practice points.
THEOREM Refines == Spec => ImplementsJudgedOnce
<1>1. IInv /\ [Next]_vars => [Once!Next]_(Once!vars)
  BY StepRefines
<1> QED BY <1>1, InitIInv, StepIInv, InitRefines, PTL DEF Spec, ImplementsJudgedOnce, Once!Spec
=============================================================================

# SPNC in TLA+

SPNC is a programming classroom: teachers publish problems and exams, students
program in the browser, every edit is traced, code is run and judged in
sandboxes, and teachers follow sessions live.  This directory holds
specifications of its stateful parts, TLC configurations that check them on
small instances, and proofs checked by TLAPS.  Every definition is translated
from the code; paths below are relative to `src/`, and `api/` stands for
`apps/api/app/`.  `PROJECT.json` maps each definition to its lines.

## 1. Inventory

One PostgreSQL database (READ COMMITTED) is the only durable state besides the
blob store; Redis carries one list of job ids.  API processes, judge workers,
the reconciler, the exam scheduler and the signal scheduler are separate
processes that share nothing but these.

| Part | State | Operations | What is hard | What makes it correct |
|---|---|---|---|---|
| Judge pipeline: `api/services/submission.py`, `run.py`, `queue.py`, `points.py`, `api/worker.py`, `api/reconciler.py` | `runs`, `submissions` (status, generation, result), `exam_participations.total_score`, point ledger, Redis list | record and push; pop, claim, grade, write; list stale, reset, push again | any number of workers, messages lost or doubled, crashes between statements, a transaction that writes, sums and locks | judged once, result final, total = best scores, points with the verdict, every job settles |
| Exam lifecycle: `api/services/exam_lifecycle.py`, `exam_access.py`, `session_lifecycle.py`, `academic.py`, `api/exam_scheduler.py` | `exams`, `exam_participations`, `coding_sessions`, set-up rows | edit, publish, cancel, join, start, submit, end, finalize; start, expire, end by tick | check-then-write requests, row locks in several orders, wall-clock deadlines, scheduler crash | one active session per problem, timeout submits the latest of what was stored in time, statuses move forward, an exam ends |
| Trace ingest: `api/services/trace.py`, `api/repositories/trace.py` | `trace_events`, `code_snapshots`, scratchpad revisions | batch insert, contiguity, snapshot, scratchpad | racing retries, ingest against the end of the session | at most one event per number, nothing after SESSION_ENDED |
| Trace recorder: `apps/web/src/trace/` | queue in memory and IndexedDB, acknowledged number, tab lock | record, send, retry, resume | lost answers, reload, two tabs | no event lost, skipped or renumbered |
| Signals: `api/services/judge/materializer.py`, `signals.py`, `api/signal_scheduler.py` | outbox, signals | claim, process chunk, delete; the four rules of a cycle | two schedulers, gaps, events and results out of order, reads that cross writes, crash before commit | no closed gap forgotten, evidence true, no window alerted of twice |
| Realtime: `api/realtime/hub.py`, `api/api/endpoints/ws.py`, `apps/web/src/api/teacherSocket.ts`, `features/teacher/LiveProvider.tsx` | listener, subscribers, sockets, the page's list | notify, handle, subscribe, resync | lost notifications, reconnects, reads that cross notifications | a quiet page is fresh |
| Snapshot store: `api/services/storage.py`, `snapshot_cleanup.py`, `retention.py` | blobs, rows that name them | upload then insert, sweep, purge | check then delete against a new upload | no row without its blob, orphans go |
| Backup: `deploy/backup/spnc_backup.py` | backup sets | dump, copy, publish, prune, restore | copies beside running deletes, interrupted restore | a finished set can be restored |
| Authentication: `api/services/auth.py`, `apps/web/src/api/auth.ts`, `client.ts` | refresh families, localStorage, a Web Lock | login, rotate, reuse grace, logout | tabs, reloads and late answers that present one token twice | with Web Locks only a loss looks like theft, a revoked family stays dead |
| Accounts: `api/services/admin.py` | role and status of users | update_user | two administrators at once | someone can always administer |
| Grader: `api/services/judge/grader.py`, `adapters.py` | none | run cases, aggregate to verdict and score | integer division, zero weights, compile error half-way | full score if accepted, never above the base |
| Classes, problems, test cases, exam set-up: `api/services/academic.py`, `testcase.py`, `problem_guard.py` | their rows | edits, membership, publication, practice | checks without locks, freezing by exams | a published exam stays gradable, graded alike until it ends |
| Login throttle `api/services/login_throttle.py` | failure counters | check, count, reset | check before, count after | bounded failures |
| Observation, statistics, annotations, configuration, pages, migrations | rows | single statements and reads | little | access rules |

The parts meet as follows.  The API records runs and submissions and pushes
their ids; workers and the reconciler pop and push ids and write rows.  A
submission ends its session, a timeout creates submissions, and both happen in
the exam's transactions; the judge then writes the total of the participation.
The trace ingest shares the session row with every end of a session: it takes
FOR KEY SHARE, the end takes FOR UPDATE, the signal scheduler FOR NO KEY UPDATE.
Snapshots are what runs, submissions and timeouts refer to.  The insert of a
signal notifies the hub, whose messages only make a page ask again.  The worker
grades with the test cases a teacher may be editing, unless an exam freezes them.

`PROJECT.json` lists the hazards of each part at their lines, with the
properties that cover them or the reason none does yet.

## 2. Modules

| Module | What it is |
|---|---|
| `JudgedOnce` | what judging promises a student: at most one result per submission, never changed, points in the same step |
| `JudgePipeline` | the judge pipeline, one action per database statement or queue operation |
| `MCJudgePipeline` | its instances for TLC |
| `ExamLifecycle` | one exam: owner, students, scheduler |
| `MCExamLifecycle` | its instances for TLC |
| `TraceDelivery` | what trace recording promises: the server holds a beginning of what the browser wrote down, in order, until the session is closed |
| `TraceRecording` | one session's trace: recorder, IndexedDB, network, ingest, and what ends the session |
| `MCTraceRecording` | its instances for TLC |
| `SignalOutbox` | trace events, the outbox, the scheduler processes, and the signals about events |
| `AttentionSignals` | the whole scheduler cycle: extends `SignalOutbox` with runs, snapshots and the signals about them |
| `LiveFeed` | composes `SignalOutbox` with the hub, the socket and the teacher's page |
| `SnapshotStore` | rows and blobs with everyone who writes or deletes them, backup and restore |
| `Accounts` | users, changes by administrators, refresh sessions |
| `SignIn` | composes `Accounts` with the tabs of one browser |
| `Grader` | one grading: cases, verdict, score |
| `Classroom` | composes `Grader` with problem, test cases, class and exam set-up |
| `MCAttentionSignals`, `MCLiveFeed`, `MCSnapshotStore`, `MCSignIn`, `MCClassroom` | their instances for TLC |
| `JudgePipelineProofs`, `ExamLifecycleProofs`, `TraceRecordingProofs`, `AttentionSignalsProofs`, `LiveFeedProofs`, `SnapshotStoreProofs`, `SignInProofs`, `ClassroomProofs` | theorems about the module of that name and those it extends (section 5) |

### JudgePipeline

`row[j]` is the committed row of job `j` (a run or a submission); `queue` is the
Redis list; `unsent` are rows the API committed and has yet to push; `total[p][q]`
is what problem `q` contributes to `total_score` of participation `p` (the code
stores the sum, the model keeps its terms, so that a wrong sum cannot be right by
accident); `ledger` are the practice submissions with a point transaction;
`worker[w]` and `sweep` are the local states of the worker and reconciler
processes; `aged` are open rows whose `updated_at` is beyond the threshold.

| Action | Code |
|---|---|
| `Create`, `Enqueue`, `LoseEnqueue` | `create_submission`, `create_run`: commit, then push; the push may fail or the process die |
| `Pop`, `ReadForClaim`, `Claim`, `Refresh` | `process_queue` (BRPOP), then `claim_for_judging` / `claim_run_for_execution`: SELECT, compare-and-swap with commit, refresh |
| `WriteAndCommit` | `_write` of a run; `_fail` of a submission |
| `WriteGraded`, `SumScores`, `LockParticipation`, `Commit` | the end of `judge_submission`: fenced UPDATE, SELECT of the sum, SELECT FOR UPDATE of the participation, commit; practice points instead of the total for a practice submission |
| `WorkerCrash`, `ReconcilerCrash`, `QueueLoss` | process death or a lost connection; Redis restart |
| `Age` | an open row passes the threshold: freely when nobody holds the job any more, as a fault while a worker or a message still does (a false alarm) |
| `ListStaleRuns`, `ListStaleSubmissions`, `NextStale`, `Recover`, `RecoverLost`, `PushRecovered`, `EndSweep` | `reconcile`, `recover_stale_run`, `recover_stale`, with the session's cache: listed generations are reused until a commit or rollback expires them |

The UPDATE of a graded submission keeps its row locked until the commit
(`Locked`), so other writers wait; a plain read sees the committed row.
`SumScores` is one statement and sees the committed rows and its own write.
Merged or abstracted: creation validates its request before the insert and is
one action here (the exam's side of it is `ExamLifecycle`); the sandbox, the
snapshot download and the grader are a choice among the results they can
return; verdicts other than ACCEPTED and INTERNAL_ERROR are REJECTED.

### ExamLifecycle

`now` is the server clock, `exam` and `part` the statuses, `sess` the coding
sessions, `setup` the attached problems and assigned classes.  `req[r]` is a
student's request in flight: which statement comes next and what it has read or
locked so far.  `owner`, `edit` and `sched` are the owner's publish or cancel,
the owner's edit, and the scheduler's tick.

A request is a transaction.  Its actions are its reads that matter later, its
locking statements, and its commit; everything written becomes visible at the
commit.  Locks follow from where a transaction stands (`ExamLocked`,
`ParticipationLocked`, `SessionLocked`); an INSERT waits for a FOR UPDATE lock on
a row its foreign key names (PostgreSQL takes FOR KEY SHARE there), the tick
skips locked exams.

| Action | Code |
|---|---|
| `EditCheck`, `EditWrite` | `attach_problem`, `detach_problem`, `assign_class`, `unassign_class`: DRAFT is tested without a lock |
| `PublishLock`/`Commit`, `CancelLock`/`Commit` | `publish_exam`; `cancel_exam`, `admin_cancel_exam` with `_apply_cancel` |
| `JoinCheck`, `JoinInsert` | `start_exam_participation`, the unique key answering a double join |
| `StartCheck`, `StartLock`, `StartInsert` | `start_exam_session`: checks, participation lock, resume or insert |
| `SnapshotCheck`, `SnapshotStamp`, `SnapshotInsert` | `create_snapshot`: writable test, `created_at` at the flush, the insert behind the session row |
| `SubmitLock`, `SubmitWindow`, `SubmitCommit` | `create_submission`, ending the session |
| `EndSession` | `end_exam_session` |
| `FinalizeLock`, `FinalizeSession`, `FinalizeCommit` | `finalize_participation`; a session that ended meanwhile fails the request (409) |
| `RequestAborts` | the request dies or loses its connection: rollback |
| `TickBegin`, `StartDueExams` | `run_tick`: the tick's `now`, `_start_due_exams` |
| `ListOverdue`, `ListAtEnd`, `ExpireLock`, `ExpireSession`, `ExpireCommit`, `EndExam` | `_expire_overdue_participants`, `_end_due_exams`, `expire_participation` |
| `SchedulerCrash` | the scheduler process dies between or within transactions |

A snapshot is reduced to its `created_at`, of which a session has any number (`snaps`).
`TimeoutSnapshot` is the timeout's query, the latest one below the deadline; `code` is the
one that was submitted.  `late` are those whose insert waited for the timeout's lock on
the session and came through after its commit.  Languages, titles, limits and access
rules other than assignment are left out.

### TraceRecording

A *life* is one opening of the recorder; a reload, a crash or an unmount ends it
and the next one goes on from IndexedDB.  `trace` and `ended` are the server's
rows; `store` and `acked` are IndexedDB; `rec[l]` is the recorder object of life
`l`, with the request it awaits and how far a submit or end has got; `late` are
batches that nobody waits for any more and that may still arrive (a timed-out
request, the beacon, a page that is gone).  `durable` is a history variable.  An
event is its number and a fingerprint: `"opened"` for PROBLEM_OPENED, which is the
same in every life, else the life in which it was typed, so that a number given
out twice shows as two contents.

| Action | Code |
|---|---|
| `Open`, `Load`, `AskState`, `FinishOpen` | the effect of `Workspace` and `init`: tab lock (granted to everybody without Web Locks), `getMeta` and `putMeta`, `pending`, `getState` (or offline), numbering above all three, PROBLEM_OPENED on a fresh session |
| `Record`, `Persist`, `PersistFails` | `record` and its chain of `putEvent` calls; a failed put stops the recorder, not the chain |
| `Send`, `Receive`, `ReceiveRefusal`, `GiveUp` | `schedule`, `pump`, `run`: one batch in flight; an answer deletes what it acknowledges or is a gap; 401, 403 and 409 stop; anything else retries |
| `Beacon` | `beacon` on pagehide |
| `Ingest`, `Reply`, `Deny` | `_ingest_trace_batch` (one transaction under FOR KEY SHARE), then `get_trace_state` in the endpoint; a login that expired |
| `IngestLate` | the same transaction for a batch of `late` |
| `PressEnd`, `Flushed`, `SnapshotStored`, `EndSession`, `AskFails`, `Finish` | `doSubmit`, `doEnd`: `flush`, for a submit the await of `createSnapshot`, during which the recorder goes on, the request with `finalize_session` on the server, its failure, `finish` |
| `ServerEnds` | every other end: exam timeout, finalize, stale practice policy, an end whose answer the page never saw, the student on another page |
| `Unmount`, `PageGone` | `dispose` and release of the lock; reload, crash, closed tab |

`orderly`, chosen at the start, says that the browser has Web Locks and that an unmount
finds no write and no request under way; without it two openings run beside each other.
The batch delay, the backoff and the flush timeout are not timed: what they
postpone may happen at any moment.  `lastAcked` is only displayed and left out.  An
answer 403 stands for a session that left ACTIVE; the same answer after the
deadline of an exam adds nothing.  The login is not repaired within a life:
`resume` exists but no code calls it.  Drafts, `clearUser` at logout, and a second
browser with a store of its own are not modelled.

### SignalOutbox

`trace[s]` are the trace events of session `s`, each with its number and time,
an edit, a submission or something else; `outbox[s]` the numbers a trigger
of the database has put there; `signals` the IDLE_DETECTED and FAST_FIRST_CODE
signals with their evidence.  `cycle[w]` is where scheduler process `w` stands, with the rows it holds
and what its open transaction has inserted and deleted.  Time is in ticks; a key
cuts it to the second, as the code does.

| Action | Code |
|---|---|
| `Ingest`, `EndSession` | a batch and the trigger on `trace_events`; `finalize_session` behind the row lock |
| `Wake`, `Claim`, `ReadPrefix`, `EvaluateChunk`, `Commit` | `process_outbox_cycle`: SELECT ... SKIP LOCKED, `get_trace_state`, the chunk with `evaluate_historical_idle_gaps`, ON CONFLICT DO NOTHING, the delete, commit |
| `ListTails`, `LookAtTail`, `NoTail`, `LookAtFirst`, `InsertSeen` | `_process_active_sessions` with `evaluate_idle_detected` and `evaluate_fast_first_code`, one transaction per signal; a session may be read from before it ended or again |
| `PassOver`, `Sleep` | an error is caught and the loop goes on; the end of the cycle |
| `Abort` | an error or a crash: rollback |

Events come in any order, as the endpoint accepts them, not only as the recorder
sends them.  A requested run, which counts as an edit does but for the first edit,
is left out.

### AttentionSignals

The cycle goes on after `Sleep` of `SignalOutbox`.  `snaps[s]` are the snapshots of a
session, each the number of its lines; `runs[s]` its runs with snapshot, outcome and
whether another verdict has overwritten the first (`changed`, a history variable);
`enrolled` the active members of the class; `pass[w]` where process `w` stands.

| Action | Code |
|---|---|
| `Save`, `RequestRun`, `JudgeRun`, `Leave` | `create_snapshot`, `create_run`, `write_result`, `remove_student` |
| `JudgeAgain` | the `write_result` of a run that `recover_stale_run` has reset after it ended (counted as a fault) |
| `ListRuns`, `ReadRuns` | `_process_rf_sessions` with `evaluate_repeated_failure` (`FailedAlike`, `SimilarCode`) |
| `ListSnapshots`, `ReadCohort`, `ReadOwn` | `_process_loc_sessions` with `evaluate_loc_anomaly`, whose two reads see different moments |
| `InsertRuled`, `EndPass` | `materialize_signal`; the end of the pass |
| `PassOverRuled`, `Dies` | StorageUnavailable or an error caught; the process dies |

Which sessions have runs and snapshots since `since_dt` is left open: any of those that
have some.  Of two codes one begins with the other, so that their lines tell how much
they differ; all sessions are on one problem.  Reads by pages of the batch size are one
step.

### LiveFeed

All of `SignalOutbox`, and beyond its commit: `listener` (the hub's thread), `inbox`
(what was notified and not handled), `socket`, `toServer` and `toPage` (the two
directions of a socket, in order), `page` (the state of `TeacherSocket`), `fetch`
(the list request of the page) and `shown`.

| Action | Code |
|---|---|
| `Notify` (part of every step that inserts signals) | `pg_notify` of the trigger, at commit |
| `Listen`, `ListenerFails`, `Handle` | `_listen`, `_handle` with `_visible` |
| `Authenticate`, `RefuseToken`, `Subscribe` | the endpoint's first message, `register` and `ensure_listener`, `add_class` |
| `Connect`, `OnAuthenticated`, `OnNotification`, `Drop`, `Retry`, `Refreshed` | `TeacherSocket` with `onResync` and the invalidation of queries |
| `ServeList`, `ShowList` | the attention list over REST; its answer arrives later |

`unheard` is a history variable: signals that no subscribed socket was told of since
the last read.

### SnapshotStore

`rows` are code snapshots, `blobs` the keys in the bucket, `aged` those older than the
sweep's grace.  `req[r]` is a request between its calls of the store and its insert,
`sweep`, `purge` and `backup` the three long-running jobs, `sets` the finished backups.
The session is one of practice, for which `create_snapshot` takes snapshots at any time,
also after it ended or was purged.  Contents are numbers in the order in which the store
lists their keys, and a listing stops after `Batch` old ones, referenced or not.

| Action | Code |
|---|---|
| `Ask`, `Compare`, `Put`, `Insert`, `RequestFails` | `upload_code_snapshot` (look, read and compare, or write), then the insert of `create_snapshot` |
| `ListOld`, `CheckReferenced`, `SweepBlob`, `SweepDone` | `sweep_orphans` |
| `PurgeRows`, `CheckStillUsed`, `PurgeBlob`, `PurgeDone` | `_purge_batch`, then `_delete_blobs` after its commit |
| `BeginBackup`, `CopyBlob`, `Publish`, `Prune` | `_write_set` in one REPEATABLE READ snapshot, the copies, `verify_set`, rename, `prune` |
| `BeginRestore`, `RestoreBlob`, `RestoreRows`, `EmptyBucket` | `restore` into an empty target, blobs first; `verify_restored` |
| `Age`, `Ends`, `GrowsOld`, `DaemonDies`, `BackupDies`, `RestoreDies`, `Disaster` | time, crashes and the loss of both stores |

`Age` says that a request is shorter than the grace (24 hours), but for a blob the
request has merely found.  `orphan` is a history variable: the row, or the request that
will insert it, relies on a blob that only orphans relied on when it was asked for, or
whose rows `PurgeRows` deleted meanwhile.

### Accounts and SignIn

`Accounts` is the server.  `update_user` is `AskPatch` (what it reads before any
lock), `LockAdmins` (the advisory lock and the count), `WriteRole` and `WriteStatus`
(each committed with its audit record, which ends the transaction and the lock) and
`RevokeSessions`.  `rotate_refresh_token` is two transactions: `CheckRefresh` under the
row lock, with reuse and grace, and `IssueRefresh`, the insert of the successor.
`SignIn` adds the browser: `NeedAccess`, `TakeLock`, `Rotated`, `Refused`, `Unheard` are
`rotate` of `auth.ts`, under the Web Lock if the browser has them (`webLocks`, chosen at
the start) and without a lock otherwise; `Login`, `AskLogout`, `ServerLogout`,
`LogoutUnheard`, `Forget`, `ChangePassword` the forms; `StorageEvent`, `Reload`,
`AccessExpires`, `ServerFails` what happens to a tab.  `WriteRefresh` is `writeRefresh`,
whose failure nobody hears of: the tab goes on from its memory.  `unlocked`, `reused` and
`memory` (tabs signed in with a token that was not stored) are history variables.

### Grader and Classroom

`Grader` runs the cases of one submission: what the sandbox and the compiler report is
chosen, what adapters and `grade` make of it is not.  `ScoreOf` is the integer division
of the code.  `Classroom` holds the rows in one record `db`.  Every operation has three
definitions: `May...` is what the code checks on the rows it reads, `Ask...` a request
that passed, the third its write and commit, which tests nothing again but what a
unique key or a row that is gone decides.  `raced` is a history variable: some request
changed rows although its checks would now fail.  `LoadCases` and `Judge` are the
worker, which grades with the cases it finds then, in their order (`Ordered`: by
`order_index`, which a unique key makes strict), and does not look at the exam: it goes
on after the end.  `graded` collects the cases that were graded with before it.  The
points of a problem (`base`) may be 0.  `Ready` is what `publish_exam` asks of
an exam.  `scene` only bounds which requests are asked for together; `ScenesAssumption`
says that a scene begins with rows the tables can hold (`Rows`) and that an exam that is
published there has passed `Ready`.

## 3. Runs

| Run | Instance | Checks | Result |
|---|---|---|---|
| `judging_pool` | 2 workers; 3 exam submissions (two to one problem, one to another) or 2 practice submissions of one problem; 1 fault | `TypeOK`, `OpenWriteOwnsRow`, `TotalNeverInflated`, `PointsFollowVerdicts`, `SubmissionResultFinal`, `ImplementsJudgedOnce` | pass |
| `judging_single` | 1 worker, a run and two exam submissions of two problems, 1 fault, fair | `TotalIsBestScores`, `EveryJobSettles` | pass |
| `judging_total_race` | 2 workers, two exam submissions, no fault | `TotalIsBestScores` | violated |
| `exam_lifecycle` | 1 student, 1 problem, 2 sessions, 2 requests, clock 0..4, no fault, edits written before the publish | `OneActiveSession`, `TimeoutKeepsWork`, `NobodyExpiresEarly`, `ParticipationFinal`, `ExamForward` | pass |
| `exam_ends` | 1 request, 1 session, clock 0..4, 1 fault, edits at any time, fair | `TimeoutKeepsWork`, `PublishedExamEnds` | pass |
| `trace_recording` | 2 lives, batches of 2; 3 numbers and 2 late batches in an orderly browser, 2 numbers and 1 late batch in one that is not | `TraceGapFree`, `FlushedBeforeEnd`, `RecorderNeverFails`, `NothingLost`, `EndIsFinal`, `ImplementsDelivery` | pass |
| `trace_delivery` | 1 life, 3 numbers, batches of 2, an orderly browser, puts may fail, fair | `Delivered` | pass |
| `attention_signals` | 2 schedulers, 1 fault, and one of: 1 session with 2 events and its end, threshold of 2 ticks, clock 0..4; 1 session with 1 snapshot and 3 runs; 1 session with 2 snapshots and 2 runs; 3 sessions with 1 snapshot each, of 0 or 1 lines | `NoGapForgotten`, `GapEvidenceTrue`, `OneAlertPerWindow`, `EvidenceIsTrue`, `EvidenceImmutable` | pass |
| `live_feed` | 1 scheduler, 1 event and the end, 2 drops of a connection, fair | `QuietPageIsFresh`, `GapReachesPage` | pass |
| `snapshot_store` | 2 requests, 2 faults, listings of 1, and either 2 contents or 1 content and 2 backups of which 1 is kept; fair | `RowsHaveBlobs`, `OrphansGo`, `ComesBack` | pass |
| `sign_in` | 2 tabs with Web Locks and 1 fault, or 2 tabs without them, or 1 tab and 1 change of an account, or 2 changes; 3 tokens, 2 calls at a time, 2 administrators | `ReuseMeansLoss`, `SignedInHasToken`, `LastAdminIsLocked`, `DeadFamilyStaysDead` | pass |
| `classroom` | 2 requests at a time, 2 orders, weights 0..2; up to 3 cases graded, for 0 or 10 points | `ExamStaysReady`, `GradedAlike`, `PracticeAgrees`, `ScoreIsFair` | pass |

Bounds.  `MaxFaults = 1` is one crash, loss or false alarm per behaviour: the
compare-and-swap and the locks are about pairs (two workers, or a worker and the
reconciler, on one row), and one false alarm gives one job two owners.  Two submissions
to one problem and one to another are what a total is made of: a best score that is
replaced while the other one is summed.  `PoolSpec` keeps the exam's and the practice
submissions apart, which share nothing but the queue.
Two student requests and the scheduler are the most that meet on one
participation row in the code.  Start 1, end 4, duration 2 give a moment before
the exam, two different moments for snapshots in time, one for a snapshot after a
participant's deadline and before the end of the exam, and the end; a participant who
joins late has the end as the deadline.  `exam_lifecycle` has the second request,
`exam_ends` the fault and edits that come late.  `TypeOK` of `ExamLifecycle` is not listed
there, it is proved (`ExamTypesHold`).  Everything is bounded by the constants and, in
`ExamLifecycle`, by the clock; `PoolSpec`, `EditsInTime` and `BoundedSpec` leave out steps
of `Next` as their comments say.
In `TraceRecording` two lives are what the recovery is about (the second finds
what the first left, in the store, on the server and on the way); three numbers
and batches of two cut one queue in two different ways; `late` is bounded by the
number that `Bounds` allows.  In `AttentionSignals` three numbers (two events and the end) give a gap in the
numbering that closes later; a clock of twice the threshold gives an idle gap that
the tail sees in its first or second window before the outbox does; the chunk and
the batch of one make every transaction leave something for the next.  The
scenes of `attention_signals` are apart because events, runs and lines feed different
rules: three runs slide a window of two over an interruption, two runs are of different
code, the fault may be a second verdict, and two classmates are a
cohort whose median can change before it is used.  In
`LiveFeed` the rule of the first edit is off (`RuleOff`); two drops let a page
reconnect and then lose its listener.  In
`SnapshotStore` two requests share a blob, on which sweep, purge and backup meet, or
store two, of which the first in the listing can hide the other from a batch of one; two
faults are a disaster and a restore that is interrupted.  Where backups are made there is
one content (`Backed`), and the second begins when no request is under way (`MaxBusy`).
In `SignIn` the grace matters with a token, its successor and the one after; `Scenes`
leaves out only combinations of more than two actors, and without Web Locks the faults,
for what needs no fault there.  In `Classroom` two requests
make every check-then-write pair; three cases with weights 0, 1, 2 against a base of
10 give remainders, failing cases of no weight and all weights zero, and a base of 0
makes the full points none.

Workers and practice submissions, requests and session ids, lives, schedulers, tabs,
calls and changes are interchangeable, hence the symmetry in the safety runs; the
liveness runs use none.  Deadlock is not checked where everything may be over: all
users are done, bounds are used up.

Fairness.  `JudgePipeline`: workers, the reconciler and the pending push of a
live API process take steps (the processes loop for ever and are restarted by
their supervisor, a crash being a step that resets them); an abandoned row ages,
because the clock runs.  `ExamLifecycle`: the clock runs, a request that began
goes on, the scheduler loops, a publish or cancel that holds its lock commits.
Strong fairness is assumed only for `ExpireSession`: PostgreSQL queues those who
wait for a row, so the timeout gets a session row that students lock again and
again.  `TraceRecording`: the browser's promises run (`Persist`, `Send`,
`ReceiveRefusal` weakly fair), and the network does not fail for ever (`Ingest`,
`Reply`, `Receive` strongly fair: the recorder retries without limit, so a request
gets through if one in infinitely many does).  `LiveFeed`: the scheduler, the
listener, the endpoint and the page loop; drops are bounded, so none needs strong
fairness.  `SnapshotStore`: requests end, time passes, the sweep runs again and again in
the reconciler, and the operator goes on restoring.  Nothing is assumed of what users
begin.

## 4. What the runs show

`judging_total_race` is the one run that expects a violation, told under "findings" in
`PROJECT.json`: the exam total can miss a score, because the sum is read before the
lock.  With a single worker the total is exact, and it never counts too much with
any number of them: both are checked and proved.

Properties that are defined and that TLC finds violated with the instances above, but
that have no run of their own:

- `RunResultFinal` (`JudgePipeline`): `recover_stale_run` tests the generation but not
  the status (`api/repositories/run.py:99`; `recover_stale` of submissions tests both).
  A run ages while its worker is slow, the reconciler lists it, the worker writes the
  result, the reconciler resets the row to PENDING: it is executed again.
- `NoSessionOutlivesParticipation` (`ExamLifecycle`): `start_exam_session` waits for the
  participation row and does not look at what the lock returned
  (`api/services/academic.py:598`).  A session is opened under a participation that
  was finalized, timed out or cancelled meanwhile, and nobody ends it, although
  `docs/03_REQUIREMENTS.md:120` says that all active sessions end then.
- `NobodyInProgressAfterEnd` (`ExamLifecycle`): `start_exam_participation` tests the exam
  and inserts later without a lock on it (`api/services/academic.py:418`).  A
  participation made after the scheduler ended the exam stays IN_PROGRESS for good;
  `docs/03_REQUIREMENTS.md:89` says EXPIRED.
- `PublishedExamComplete` (`ExamLifecycle`): an unlocked edit that overlaps publish takes
  away what publish validated.  `ExamStaysReady` and `GradedAlike` of `Classroom` hold
  where no request raced.
- `TraceGapFree` with `StoreMayFail = TRUE`: when a put fails, `record`'s chain stops the
  recorder but not the puts behind it (`apps/web/src/trace/recorder.ts:192`).  The next
  opening sends what lies above the hole, the server stores it, and the recorder
  stops with TRACE_GAP in every later opening, against
  `docs/46_FRONTEND_FOUNDATION.md:116` (gap-free).

Properties that hold with an exception, each a behaviour of the code:

- `RecorderNeverFails`, `NothingLost` and `ImplementsDelivery` are about an `orderly`
  browser.  Without Web Locks every tab is granted the lock
  (`apps/web/src/trace/lock.ts:4`, best effort), and two tabs number independently: one
  is refused with 409.  With them there is the unmount: `dispose` does not wait for the chain of puts or for the answer in flight,
  and the lock is released at once.  Without the restriction both are violated: (1)
  the next life reads the session row, then the old one's answer deletes what it
  acknowledges, then the next life reads an empty store and cannot reach the server,
  so it starts again at 1 and is refused with 409 later; (2) a put of the old life
  lands after the next one has read the store, under a number that this one gives
  out too.  The other three properties of the run hold either way.
- `FlushedBeforeEnd` is about what was recorded when the flush ended.  `doSubmit` then
  waits for `createSnapshot` (`SnapshotStored`), while the periodic checkpoint may record
  (`apps/web/src/features/practice/Workspace.tsx:167-173` and 244-246).  Such an event is
  neither waited for nor accepted after the submit, although
  `docs/46_FRONTEND_FOUNDATION.md:118` says that submit and end happen only after the
  queue is empty.
- `TimeoutKeepsWork` excepts the snapshots of `late`.  The request passes
  `assert_session_writable`, gets its `created_at` before the deadline, and its insert
  waits for the session row that the timeout has locked: it is answered as stored and is
  not submitted, although `docs/36_SUBMISSION_AND_EXAM_LIFECYCLE.md:22` and 207 and
  `docs/38_MUST_GAP_CLOSURE.md:137` speak of the latest snapshot received before the
  deadline.  The exception is exactly these: whatever is stored before the timeout's
  commit is chosen from.
- `GradedAlike` excepts what is judged when the exam has ended.  The worker does not look
  at the exam, and an ended exam does not freeze its problems (`problem_guard`): what the
  timeout submitted, or waited in the queue, may be graded with cases that were edited
  meanwhile.
- `Delivered` excepts a recorder whose last put failed: `run` sets the phase to
  `retrying` when the request in flight fails, also when the recorder was stopped
  meanwhile (`GiveUp`), and then looks healthy with an event in its queue that is
  not sent until a later put succeeds.
- `RowsHaveBlobs` excepts a row whose upload relied on an orphan (`orphan`).  Either it
  found a blob that no row named: the upload does not renew it, and a sweep that has
  decided already deletes it under the new row, which
  `api/services/snapshot_cleanup.py:4` says never happens.  Or it found, or wrote, the
  blob of rows that the purge deleted while it was under way: `create_snapshot` accepts a
  session of any age, and the blobs go after the purge's commit, against
  `api/services/retention.py:9`.  The exception is inherited: an upload whose blob only
  such rows name relies on them and goes with them.
- `OrphansGo` excepts an orphan that is `Crowded`: the listing stops after
  SNAPSHOT_ORPHAN_BATCH_SIZE old keys in the order of the store, those that rows name
  included (`api/services/snapshot_cleanup.py:27`, `api/services/storage.py:159-176`), and
  begins again with the same keys the next time.  Behind a batch of old blobs in use no
  orphan is ever found, against `api/services/snapshot_cleanup.py:3`.
- `LastAdminIsLocked` excepts writes without the lock (`unlocked`): a change of role and
  status loses the lock with the commit of the role's audit record, so that two such
  changes can leave no usable administrator, against `docs/27_ADMIN_SECURITY.md:20`.
- `QuietPageIsFresh` and `GapReachesPage` except `unheard` signals: those committed after
  the page's last read while the listener reconnects, or before the page's
  subscription was processed.  Nothing makes the page ask again then.
- `ReuseMeansLoss` says what the lock and the grace are good for: with Web Locks and
  without a lost answer, a reload or a failing storage no token is ever taken for stolen.
  After a loss it can be: the page waits for 30 seconds, the grace is 10.  A token that
  `writeRefresh` could not store is such a loss too, for the next rotation presents the
  one before.  Without Web Locks (`apps/web/src/api/auth.ts:96-99`) two tabs present one
  token, and the one that is heard after the grace signs the browser out.
- `SignedInHasToken` excepts `memory`: a token that storage did not take keeps its tab
  signed in until the access token ends or the tab is closed, as
  `apps/web/src/api/auth.ts:31-33` says.
- `OneAlertPerWindow` is about sessions whose events arrived in order of time.  Windows of
  one idle time may overlap: the tail counts each from the last event.  A tail that first
  looks when the second window has begun inserts that one only, and the event that closes
  the gap finds no first window to agree with: the outbox inserts it, and two alerts cover
  the time.  `docs/33_ATTENTION_SIGNAL_ARCHITECTURE.md:98` has further windows only from
  the tail and after the first; only one first window there is in any case.
- `EvidenceIsTrue` excepts a first edit that was not the first when edits arrived out of
  order: the rule takes the lowest number there is, without asking for the ones before.
  And of a repeated failure it excepts runs whose verdict was overwritten: a run that
  ended after it was listed as stale is reset and executed again
  (`api/repositories/run.py:99-106` and 61-79), and what the signal says of its failure may
  no longer be what the row says.  That the runs follow each other and that their code is
  alike stays true.

## 5. Proofs

Every safety property and every action property of the passing runs, and both
refinements, are proved for all values of the constants: those of `TraceRecording` for a
store of the browser that does not fail (`EndIsFinal` for any), and `TotalIsBestScores`
where results of one participation do not overlap.  A run shows a property on the instance of section 3, which includes what the proofs
cannot show: that the interesting cases happen.

What is assumed of constants is named in the modules: that names of different kinds
differ (`NamesAssumption`, `JobsAssumption`), that bounds and thresholds are numbers,
that a score that is not there is no number, and of the scenes to start from that they
are states of the program (`ScenesAssumption`, the last conjunct of `RulesAssumption`).
`AccountsAssumption` begins with an administrator, whom the deployment creates.  Nothing
is assumed of the number of actors; sets are assumed finite only where they are in the
code and a minimum or a count is taken.

### JudgePipelineProofs

| Theorem | States |
|---|---|
| `TypeCorrect` | `Spec => []TypeOK` |
| `OpenWriteSafe` | `Spec => []OpenWriteOwnsRow` |
| `ResultFinal` | `Spec => SubmissionResultFinal` |
| `PointsCorrect` | `Spec => []PointsFollowVerdicts` |
| `TotalCorrect` | `Spec => []TotalNeverInflated` |
| `TotalExactWithoutOverlap` | `Spec /\ []OneWritePerParticipation => []TotalIsBestScores` |
| `TotalExactAlone` | `(\A v, w \in Workers : v = w) => (Spec => []TotalIsBestScores)` |
| `Refines` | `Spec => ImplementsJudgedOnce` |

A worker checks the fence when it updates the row and commits
later.  `OpenWriteOwnsRow` says the fence still holds at the commit, which needs
to know that a worker in a transaction holds a job (`HoldsJob`) and the types:
together they are `IInv`, which is inductive.  All the actions that write a
row wait for `~Locked(j)` or are the commit of the only open write, so no step
disturbs it (`StepIInv`).  From `IInv` follow the rest: a step either leaves a
submission's result alone or publishes the first one (`StepJudges`), which is
`ResultFinal` and, with the ledger, `Refines`.  `PointsFollowVerdicts` needs in
addition that a visible verdict belongs to a terminal row (`VerdictMeansJudged`).
`TotalNeverInflated` is not inductive: the sum a worker computed is used later, so
`TotalInv` adds that a sum held by a worker is bounded by the best scores
including its own pending result (`HeldSumBounded`), and that best scores only grow
(`BestScoreMonotone`), because results are final.  `BestScore` is a maximum over
a finite set of scores below a bound; `BoundedHasMax` gives its existence by a
least counterexample within the bound, without induction over data.

`judging_total_race` shows that `TotalIsBestScores` fails with two workers.
`TotalExactWithoutOverlap` says that nothing else makes it fail: no crash, false alarm,
duplicate message or recovery, but only two uncommitted results of one participation at
the same time (`OneWritePerParticipation`).  `HeldSumExact`, that a sum a worker holds is
the total its commit leads to, is inductive then, because no other step changes what
counts for that participation (`StepCounts`).  `TotalExactAlone`, for a deployment with
one worker, is the case that the run `judging_single` is an instance of.

### ExamLifecycleProofs

| Theorem | States |
|---|---|
| `ExamTypesHold` | `Spec => []TypeOK` |
| `OneSessionPerProblem` | `Spec => []OneActiveSession` |
| `TimeoutSubmitsTheWork` | `Spec => []TimeoutKeepsWork` |
| `TimeoutIsNeverEarly` | `Spec => []NobodyExpiresEarly` |
| `FirstOutcomeStands` | `Spec => ParticipationFinal` |
| `ExamMovesForward` | `Spec => ExamForward` |
| `FirstEndStands` | `Spec => EndedSessionsStand`: who ended a session and what was submitted are never rewritten |

The inductive invariant is the lock discipline and what is known under each lock.
`ParticipationLocks` and `SessionLocks`: one transaction at most holds a row, finalize
and timeout hold a participation that is in progress, and a locked session is active.
`RequestsHold` and `TimeoutHolds`: what a transaction has collected belongs to its
student.  `StartsAlone`: a start that has its lock has found no active session, and
nobody else can make one meanwhile, which `OneActiveSession` rests on.  `OwnerHolds`
keeps what publish and cancel tested.  `TickHolds`: whoever the tick lists has joined,
and was due at its `now`, which is past; deadlines do not change once joined, so the
timeout is not early however late it commits.  `TimeoutSubmits`: the timeout chooses the
latest of the snapshots of a session while it holds the row (`LatestExists`), for which
every insert of another one waits.  The requests that need no lock (the edit,
the join) preserve these because they insert rows nobody holds.

### TraceRecordingProofs

| Theorem | States |
|---|---|
| `TraceHasNoGap` | `~StoreMayFail => (Spec => []TraceGapFree)` |
| `EndFollowsFlush` | `~StoreMayFail => (Spec => []FlushedBeforeEnd)` |
| `NoRecorderFails` | `~StoreMayFail => (Spec => []RecorderNeverFails)` |
| `NothingWrittenIsLost` | `~StoreMayFail => (Spec => []NothingLost)` |
| `NothingAfterEnd` | `Spec => EndIsFinal` |
| `RecordingDelivers` | `~StoreMayFail => (Spec => ImplementsDelivery)` |

The hypothesis is needed and not a convenience: with a store that fails, the gap of
section 4 is a counterexample.  The argument has two layers.  `GapFreeInv` follows a
number from the queue of a life over the store, a request and a late batch to the trace:
at each of these places everything below it is there too or on the server (`Covered`),
and no number has two contents that could both be stored.  The server's contiguity test
alone would not do: it compares with what it holds, while the numbers come from three
sources that were read at different moments.  `OneWriterInv` adds, for an orderly
browser (`orderly`), that one life writes at a time (`OnlyOne`) and that all that was
ever written down has one numbering (`Numbering`).  `EndFollowsFlush` is about what was
recorded when the flush ended, as section 4 says.

### AttentionSignalsProofs

| Theorem | States |
|---|---|
| `GapsAreTrue` | `RulesSpec => []GapEvidenceTrue` |
| `NoGapIsForgotten` | `RulesSpec => []NoGapForgotten` |
| `EvidenceStays` | `RulesSpec => EvidenceImmutable` |
| `WindowsAlertedOnce` | `RulesSpec => []OneAlertPerWindow` |
| `SignalsAreTrue` | `RulesSpec => []EvidenceIsTrue` |

The theorems are about the whole cycle, so those about `SignalOutbox` hold with the
rules running beside it.  In `OutboxInv` a scheduler evaluates only numbers below which
none is missing (`CycleHolds`, `Complete`), so that no event can fall into a gap that it
reports (`GapsHold`); what a chunk is about to delete has its signals among the committed
ones or its own (`EvaluatedFound`); and an insert waits for open transactions with the
same key, so keys are unique over all of them (`KeysHold`).  `EvidenceHolds` is the
second layer: evidence that was true when read stays true (`Grows` says what other steps
may do to events, runs and snapshots: a verdict that is overwritten leaves a mark), and a
pass carries only what it may compare.  The
latest event before a number is a maximum of a finite set, and `WindowsAlertedOnce`
compares two of them.

### LiveFeedProofs, SnapshotStoreProofs, SignInProofs

| Theorem | States |
|---|---|
| `QuietIsFresh` | `FeedSpec => []QuietPageIsFresh` |
| `RowsCanBeRead` | `Spec => []RowsHaveBlobs` |
| `BackupIsNeverPrunedAway` | `Spec => []SomethingToRestore`: once a backup has finished there is always one to restore |
| `AnAdministratorStays` | `Spec => []LastAdminIsLocked` |
| `NoFalseAlarm` | `Spec => []ReuseMeansLoss` |
| `SignOutReachesTabs` | `Spec => []SignedInHasToken` |
| `SignOutIsFinal` | `Spec => DeadFamilyStaysDead` |

`NothingForgotten` of `LiveFeedProofs`: a signal that a live page does not show has
something on its way that makes the page ask again, namely a message in one of the two
directions, an entry of the listener's inbox, or a request; `LiveOverSocket` says that
these can only be lost together with the page's state.

In `SnapshotStoreProofs` a request that will insert a row, and is not marked `orphan`,
relies either on a sound row that has the content already (`Covered`) or on a blob that
the sweep has not seen as old nor the purge among its rows (`Renewed`): `RequestsRely`.
What sweep and purge have decided to delete has no sound row (`DeletesAreSafe`); which job
may run when comes from `WhoRuns`.  What a *sound* row is, and so the exception of
section 4, was found by making this inductive.

`SignInProofs` has an invariant for the accounts and one for the tokens.  `AnotherStays`:
the holder of the advisory lock has counted an administrator other than its target, and
nobody writes without the lock as long as nothing is `unlocked`.  `OneRotates` and
`NothingRepeats`: in a browser with Web Locks one tab rotates, so as long as nothing is
lost the token that will be presented is fresh; `LoginsApart` keeps a login's token out of
it.  `SignOutReachesTabs` follows whoever may have removed the token, or failed to store
it, over every write (`WriteRefresh`), with Web Locks or without.
`SignOutIsFinal` needs only what any step may do to tokens (`TokensGrow`).

### ClassroomProofs

| Theorem | States |
|---|---|
| `PublishedStaysReady` | `Spec => []ExamStaysReady` |
| `EverybodyGradedAlike` | `Spec => []GradedAlike` |
| `PracticeIsOneQuestion` | `Spec => []PracticeAgrees` |
| `PointsAreFair` | `Spec => []ScoreIsFair` |

`RowsInv` covers all twenty-odd operations with one question: what can a write do to an
exam?  `WriteEffect` answers that it raced, or published an exam that is `Ready`, or left
alone what a published exam needs (`Keeps`); each group of operations has a lemma that
it does, from its own checks.  `GradedBy` says which test cases the submissions were
graded with in each status of the exam until it is ended.  `PracticeIsOneQuestion` is a case
distinction over all rows, of which the run reaches some.

`JobInv` follows the grading: after `k` cases those that passed and failed are `k`, and
weigh together what the first `k` do (`Ran`).  The share of the points is an integer
division, for which `ShareOf` shows that rounding down gives full points for the whole
only, if there are any.  The weight is a fold over the places of a sequence.  Its recursive function
exists, is unique and takes the places in any order: each by a smallest set that is a
counterexample (`MinimalSubset`), as subsets of a finite set are well founded.

### Only model-checked

- Liveness: `EveryJobSettles`, `PublishedExamEnds`, `Delivered`, `GapReachesPage`,
  `OrphansGo`, `ComesBack`.  The prover handles neither liveness under fairness nor
  ENABLED.

Induction theorems take an operator as a parameter, which the provers cannot
instantiate; the proofs use least counterexamples over well-founded orders instead
(`WFMin`), with a set where the induction would have a predicate.  RECURSIVE operators
are beyond the prover, and no module reaches one.

## 6. Not modelled, and plan

Left out of the modelled parts: the stale practice sweep, a change of the times
of a DRAFT exam, two exams of one student; scratchpad revisions (a unique
constraint makes the loser of a `MAX + 1` race fail as a whole); the expiry of
refresh tokens and the contents of access tokens; the purge of expired tokens and
the retention hold; a second browser with a trace store of its own.

Left out altogether: the login throttle (a soft bound, whose counters would
multiply the states of `SignIn`), reads and statistics, pages, configuration,
migrations, logging, metrics and health, which have no protocol.

Nothing of what the runs check as safety is left unproved.  What could be added next are
the hazards without a property (`PROJECT.json`), in this order: the second browser of a
student, which needs a store per browser in `TraceRecording`; the scratchpad's `MAX + 1`;
and a join of `Classroom` and `ExamLifecycle`, which would replace the one's exam row by
the other's transactions.

--------------------------- MODULE ExamLifecycle ---------------------------
(***************************************************************************)
(* One exam from draft to end: the teacher edits, publishes and cancels    *)
(* it, students join, open sessions, store snapshots, submit and finalize, *)
(* and the exam scheduler starts it, times participants out and ends it.   *)
(* A request is a transaction: an action per read or locking statement,    *)
(* the commit being the last one, so that what a request checked may be    *)
(* stale when it writes.  A row lock lasts until its request is over; an   *)
(* INSERT waits for a lock FOR UPDATE on the rows its foreign keys name.   *)
(***************************************************************************)
EXTENDS Naturals, FiniteSets

CONSTANTS
    Students, Problems, Classes,
    Gradable,     (* the problems that have test cases                     *)
    Sessions,     (* bound: ids for coding sessions                        *)
    Requests,     (* bound: student requests in flight                     *)
    Nobody, Nothing,
    StartTime, EndTime,
    Duration,     (* minutes a participant has, 0 for the whole exam       *)
    MaxTime,      (* bound: the clock stops there                          *)
    MaxFaults     (* bound: aborted requests and scheduler crashes         *)

ASSUME TimesAssumption ==
    /\ {StartTime, EndTime, Duration, MaxTime, MaxFaults} \subseteq Nat
    /\ StartTime < EndTime

ASSUME NamesAssumption ==
    /\ Gradable \subseteq Problems
    /\ Problems \intersect Classes = {}
    /\ Nobody \notin Students
    /\ Nothing \notin Problems \union Classes \union Sessions

VARIABLES
    now,       (* the server clock                                         *)
    exam,      (* the status of the exam                                   *)
    setup,     (* problems attached and classes assigned to it             *)
    part,      (* part[s]: status of the participation of student s        *)
    started,   (* started[s]: its started_at                               *)
    sess,      (* the coding sessions                                      *)
    req,       (* what each student request is doing                       *)
    owner,     (* the owner's publish or cancel request                    *)
    edit,      (* the owner's edit request                                 *)
    sched,     (* the scheduler's tick                                     *)
    faults     (* faults so far                                            *)

vars == <<now, exam, setup, part, started, sess, req, owner, edit, sched, faults>>

ExamStatus == {"DRAFT", "SCHEDULED", "ONGOING", "ENDED", "CANCELLED"}
ParticipationStatus == {"NONE", "IN_PROGRESS", "COMPLETED", "EXPIRED", "CANCELLED"}
Source == {"NONE", "STUDENT", "SYSTEM_EXAM_TIMEOUT"}

Moments == SUBSET (0 .. MaxTime)

\* by: termination_source; snaps: created_at of its snapshots; late: of those stored
\* after the timeout had ended it; code: created_at of the snapshot submitted, none
\* when it ended without a submission.
Session == [status : {"NONE", "ACTIVE", "ENDED"}, student : Students \union {Nobody},
            problem : Problems \union {Nothing}, by : Source, snaps : Moments,
            late : Moments, code : Moments]

NoSession == [status |-> "NONE", student |-> Nobody, problem |-> Nothing, by |-> "NONE",
              snaps |-> {}, late |-> {}, code |-> {}]

Request == [pc : {"idle", "join", "start", "create", "upload", "insert", "window", "submit", "finalize"},
            student : Students \union {Nobody}, problem : Problems \union {Nothing},
            session : Sessions \union {Nothing}, stamp : 0 .. MaxTime,
            todo : SUBSET Sessions, ending : SUBSET Sessions]

NoRequest == [pc |-> "idle", student |-> Nobody, problem |-> Nothing, session |-> Nothing,
              stamp |-> 0, todo |-> {}, ending |-> {}]

Tick == [pc : {"idle", "start", "overdue", "next", "expire"}, now : Nat, due : BOOLEAN,
         at_end : BOOLEAN, todo : SUBSET Students, student : Students \union {Nobody},
         sessions : SUBSET Sessions, ending : SUBSET Sessions, code : [Sessions -> Moments]]

NoTick == [pc |-> "idle", now |-> 0, due |-> FALSE, at_end |-> FALSE, todo |-> {},
           student |-> Nobody, sessions |-> {}, ending |-> {},
           code |-> [i \in Sessions |-> {}]]

Edit == [kind : {"none", "add", "remove"}, item : Problems \union Classes \union {Nothing}]

NoEdit == [kind |-> "none", item |-> Nothing]

Init ==
    /\ now = 0
    /\ exam = "DRAFT"
    /\ setup = {}
    /\ part = [s \in Students |-> "NONE"]
    /\ started = [s \in Students |-> 0]
    /\ sess = [i \in Sessions |-> NoSession]
    /\ req = [r \in Requests |-> NoRequest]
    /\ owner = "idle"
    /\ edit = NoEdit
    /\ sched = NoTick
    /\ faults = 0

Fault == faults < MaxFaults /\ faults' = faults + 1

TimePasses ==
    /\ now < MaxTime
    /\ now' = now + 1
    /\ UNCHANGED <<exam, setup, part, started, sess, req, owner, edit, sched, faults>>

-----------------------------------------------------------------------------
(* Row locks and the rules of access.                                      *)

ExamLocked == owner # "idle"

ParticipationLocked(s) ==
    \/ \E r \in Requests : req[r].pc \in {"create", "finalize"} /\ req[r].student = s
    \/ sched.pc = "expire" /\ sched.student = s

SessionLocked(i) ==
    \/ \E r \in Requests : \/ req[r].pc \in {"window", "submit"} /\ req[r].session = i
                           \/ i \in req[r].ending
    \/ i \in sched.ending

\* assert_exam_open: a SCHEDULED exam is open from start_time on.
ExamOpen == exam \in {"SCHEDULED", "ONGOING"} /\ StartTime <= now /\ now < EndTime

\* participant_deadline of student s.
Deadline(s) ==
    IF Duration > 0 /\ started[s] + Duration < EndTime THEN started[s] + Duration ELSE EndTime

ParticipantOpen(s) == ExamOpen /\ now < Deadline(s)

\* assert_session_writable.
Writable(s) == exam \notin {"ENDED", "CANCELLED"} /\ now < Deadline(s)

ActiveSessions(s) == {i \in Sessions : sess[i].status = "ACTIVE" /\ sess[i].student = s}

\* finalize_session, for every session of a set, with the code submitted of each.
Ended(S, I, source, code) ==
    [i \in Sessions |-> IF i \in I THEN [S[i] EXCEPT !.status = "ENDED", !.by = source,
                                                     !.code = code[i]]
                        ELSE S[i]]

NoSubmission == [i \in Sessions |-> {}]

-----------------------------------------------------------------------------
(* The owner.  Edits test DRAFT without a lock; publish and cancel lock    *)
(* the exam row.                                                           *)

EditCheck(k, x) ==
    /\ edit = NoEdit
    /\ exam = "DRAFT"
    /\ (x \in setup) <=> (k = "remove")
    /\ edit' = [kind |-> k, item |-> x]
    /\ UNCHANGED <<now, exam, setup, part, started, sess, req, owner, sched, faults>>

\* The INSERT of an attached problem or assigned class names the exam row.
EditWrite ==
    /\ edit # NoEdit
    /\ \/ edit.kind = "add" /\ ~ExamLocked /\ setup' = setup \union {edit.item}
       \/ edit.kind = "remove" /\ setup' = setup \ {edit.item}
    /\ edit' = NoEdit
    /\ UNCHANGED <<now, exam, part, started, sess, req, owner, sched, faults>>

PublishLock ==
    /\ ~ExamLocked
    /\ exam = "DRAFT" /\ now < StartTime
    /\ setup \intersect Classes # {}
    /\ setup \intersect Problems # {}
    /\ setup \intersect Problems \subseteq Gradable
    /\ owner' = "publish"
    /\ UNCHANGED <<now, exam, setup, part, started, sess, req, edit, sched, faults>>

PublishCommit ==
    /\ owner = "publish"
    /\ exam' = "SCHEDULED"
    /\ owner' = "idle"
    /\ UNCHANGED <<now, setup, part, started, sess, req, edit, sched, faults>>

\* Cancel by the owner or by an administrator.
CancelLock ==
    /\ ~ExamLocked
    /\ exam \in {"DRAFT", "SCHEDULED"}
    /\ ~(exam = "SCHEDULED" /\ StartTime <= now)
    /\ owner' = "cancel"
    /\ UNCHANGED <<now, exam, setup, part, started, sess, req, edit, sched, faults>>

CancelCommit ==
    /\ owner = "cancel"
    /\ \A s \in Students : part[s] = "IN_PROGRESS" => ~ParticipationLocked(s)
    /\ exam' = "CANCELLED"
    /\ part' = [s \in Students |-> IF part[s] = "IN_PROGRESS" THEN "CANCELLED" ELSE part[s]]
    /\ owner' = "idle"
    /\ UNCHANGED <<now, setup, started, sess, req, edit, sched, faults>>

-----------------------------------------------------------------------------
(* Requests of students.                                                   *)

JoinCheck(r, s) ==
    /\ req[r].pc = "idle"
    /\ ExamOpen
    /\ setup \intersect Classes # {}
    /\ part[s] = "NONE"
    /\ req' = [req EXCEPT ![r].pc = "join", ![r].student = s]
    /\ UNCHANGED <<now, exam, setup, part, started, sess, owner, edit, sched, faults>>

\* The INSERT names the exam row; a second one of the student is refused and
\* answered with the first.
JoinInsert(r) ==
    LET s == req[r].student IN
    /\ req[r].pc = "join"
    /\ ~ExamLocked
    /\ IF part[s] = "NONE"
         THEN /\ part' = [part EXCEPT ![s] = "IN_PROGRESS"]
              /\ started' = [started EXCEPT ![s] = now]
         ELSE UNCHANGED <<part, started>>
    /\ req' = [req EXCEPT ![r] = NoRequest]
    /\ UNCHANGED <<now, exam, setup, sess, owner, edit, sched, faults>>

\* A free session id for each start under way.
SessionsLeft ==
    Cardinality({r \in Requests : req[r].pc \in {"start", "create"}})
      < Cardinality({i \in Sessions : sess[i].status = "NONE"})

StartCheck(r, s, q) ==
    /\ req[r].pc = "idle"
    /\ part[s] = "IN_PROGRESS"
    /\ ParticipantOpen(s)
    /\ q \in setup
    /\ SessionsLeft
    /\ req' = [req EXCEPT ![r].pc = "start", ![r].student = s, ![r].problem = q]
    /\ UNCHANGED <<now, exam, setup, part, started, sess, owner, edit, sched, faults>>

\* Mutant: the start does not wait for the participation row.
StartWithoutLock(r) ==
    /\ req[r].pc = "start"
    /\ req' = IF \E i \in ActiveSessions(req[r].student) : sess[i].problem = req[r].problem
                THEN [req EXCEPT ![r] = NoRequest]
                ELSE [req EXCEPT ![r].pc = "create"]
    /\ UNCHANGED <<now, exam, setup, part, started, sess, owner, edit, sched, faults>>

\* The participation is locked, but neither its status nor the time is looked
\* at again; an active session of the problem is resumed.
StartLock(r) ==
    /\ req[r].pc = "start"
    /\ ~ParticipationLocked(req[r].student)
    /\ req' = IF \E i \in ActiveSessions(req[r].student) : sess[i].problem = req[r].problem
                THEN [req EXCEPT ![r] = NoRequest]
                ELSE [req EXCEPT ![r].pc = "create"]
    /\ UNCHANGED <<now, exam, setup, part, started, sess, owner, edit, sched, faults>>

StartInsert(r) ==
    /\ req[r].pc = "create"
    /\ \E i \in Sessions :
         /\ sess[i].status = "NONE"
         /\ sess' = [sess EXCEPT ![i] = [NoSession EXCEPT !.status = "ACTIVE",
                                                          !.student = req[r].student,
                                                          !.problem = req[r].problem]]
    /\ req' = [req EXCEPT ![r] = NoRequest]
    /\ UNCHANGED <<now, exam, setup, part, started, owner, edit, sched, faults>>

\* A snapshot: the session is tested first and the content uploaded, ...
SnapshotCheck(r, i) ==
    /\ req[r].pc = "idle"
    /\ sess[i].status # "NONE"
    /\ Writable(sess[i].student)
    /\ req' = [req EXCEPT ![r].pc = "upload", ![r].session = i]
    /\ UNCHANGED <<now, exam, setup, part, started, sess, owner, edit, sched, faults>>

\* ... then the row gets its created_at, ...
SnapshotStamp(r) ==
    /\ req[r].pc = "upload"
    /\ req' = [req EXCEPT ![r].pc = "insert", ![r].stamp = now]
    /\ UNCHANGED <<now, exam, setup, part, started, sess, owner, edit, sched, faults>>

\* ... and its INSERT waits for the session row it names.
SnapshotInsert(r) ==
    LET i == req[r].session IN
    /\ req[r].pc = "insert"
    /\ ~SessionLocked(i)
    /\ sess' = IF sess[i].by = "SYSTEM_EXAM_TIMEOUT"
                 THEN [sess EXCEPT ![i].late = @ \union {req[r].stamp}]
                 ELSE [sess EXCEPT ![i].snaps = @ \union {req[r].stamp}]
    /\ req' = [req EXCEPT ![r] = NoRequest]
    /\ UNCHANGED <<now, exam, setup, part, started, owner, edit, sched, faults>>

\* Submit: the session is locked first ...
SubmitLock(r, i) ==
    /\ req[r].pc = "idle"
    /\ ~SessionLocked(i)
    /\ sess[i].status = "ACTIVE"
    /\ sess[i].snaps # {}
    /\ req' = [req EXCEPT ![r].pc = "window", ![r].session = i]
    /\ UNCHANGED <<now, exam, setup, part, started, sess, owner, edit, sched, faults>>

\* ... then the participation and the exam are read, without a lock ...
SubmitWindow(r) ==
    LET s == sess[req[r].session].student IN
    /\ req[r].pc = "window"
    /\ req' = IF part[s] = "IN_PROGRESS" /\ ParticipantOpen(s)
                THEN [req EXCEPT ![r].pc = "submit"]
                ELSE [req EXCEPT ![r] = NoRequest]
    /\ UNCHANGED <<now, exam, setup, part, started, sess, owner, edit, sched, faults>>

\* ... and submission and end of the session are committed together.  The student
\* names the snapshot.
SubmitCommit(r) ==
    /\ req[r].pc = "submit"
    /\ ~ExamLocked
    /\ \E c \in sess[req[r].session].snaps :
         sess' = Ended(sess, {req[r].session}, "STUDENT", [i \in Sessions |-> {c}])
    /\ req' = [req EXCEPT ![r] = NoRequest]
    /\ UNCHANGED <<now, exam, setup, part, started, owner, edit, sched, faults>>

EndSession(i) ==
    /\ sess[i].status = "ACTIVE"
    /\ ~SessionLocked(i)
    /\ sess' = Ended(sess, {i}, "STUDENT", NoSubmission)
    /\ UNCHANGED <<now, exam, setup, part, started, req, owner, edit, sched, faults>>

FinalizeLock(r, s) ==
    /\ req[r].pc = "idle"
    /\ ~ParticipationLocked(s)
    /\ part[s] = "IN_PROGRESS"
    /\ now < Deadline(s)
    /\ req' = [req EXCEPT ![r].pc = "finalize", ![r].student = s, ![r].todo = ActiveSessions(s)]
    /\ UNCHANGED <<now, exam, setup, part, started, sess, owner, edit, sched, faults>>

\* A session that ended since it was listed fails the whole request.
FinalizeSession(r, i) ==
    /\ req[r].pc = "finalize"
    /\ i \in req[r].todo
    /\ ~SessionLocked(i)
    /\ req' = IF sess[i].status = "ACTIVE"
                THEN [req EXCEPT ![r].todo = @ \ {i}, ![r].ending = @ \union {i}]
                ELSE [req EXCEPT ![r] = NoRequest]
    /\ UNCHANGED <<now, exam, setup, part, started, sess, owner, edit, sched, faults>>

FinalizeCommit(r) ==
    /\ req[r].pc = "finalize"
    /\ req[r].todo = {}
    /\ sess' = Ended(sess, req[r].ending, "STUDENT", NoSubmission)
    /\ part' = [part EXCEPT ![req[r].student] = "COMPLETED"]
    /\ req' = [req EXCEPT ![r] = NoRequest]
    /\ UNCHANGED <<now, exam, setup, started, owner, edit, sched, faults>>

\* The API process dies or the connection is lost: the transaction rolls back.
RequestAborts(r) ==
    /\ Fault
    /\ req[r].pc # "idle"
    /\ req' = [req EXCEPT ![r] = NoRequest]
    /\ UNCHANGED <<now, exam, setup, part, started, sess, owner, edit, sched>>

-----------------------------------------------------------------------------
(* The scheduler.  A tick works with the time at which it began.           *)

TickBegin ==
    /\ sched.pc = "idle"
    /\ sched' = [NoTick EXCEPT !.pc = "start", !.now = now,
                               !.due = exam = "SCHEDULED" /\ StartTime <= now]
    /\ UNCHANGED <<now, exam, setup, part, started, sess, req, owner, edit, faults>>

\* Mutant: the status is not tested again under the lock.
StartListed == sched.due /\ ~ExamLocked

\* Whether a listed exam starts: a locked row is skipped, the status tested again.
StartDue == sched.due /\ ~ExamLocked /\ exam = "SCHEDULED"

StartDueExams ==
    /\ sched.pc = "start"
    /\ exam' = IF StartDue THEN "ONGOING" ELSE exam
    /\ sched' = [sched EXCEPT !.pc = "overdue"]
    /\ UNCHANGED <<now, setup, part, started, sess, req, owner, edit, faults>>

InProgress == {s \in Students : part[s] = "IN_PROGRESS"}

\* Mutant: in an exam with a duration everybody still working is listed.
OverdueAnyway == {s \in InProgress : exam = "ONGOING" /\ Duration > 0}

Overdue == {s \in InProgress : exam = "ONGOING" /\ Duration > 0 /\ Deadline(s) <= sched.now}

ListOverdue ==
    /\ sched.pc = "overdue"
    /\ sched' = [sched EXCEPT !.pc = "next", !.todo = Overdue]
    /\ UNCHANGED <<now, exam, setup, part, started, sess, req, owner, edit, faults>>

ListAtEnd ==
    /\ sched.pc = "next" /\ ~sched.at_end /\ sched.todo = {}
    /\ sched' = IF exam = "ONGOING" /\ EndTime <= sched.now
                  THEN [sched EXCEPT !.at_end = TRUE, !.todo = InProgress]
                  ELSE NoTick
    /\ UNCHANGED <<now, exam, setup, part, started, sess, req, owner, edit, faults>>

\* Mutant: the participation is taken as it was listed.
StillListed(s) == s \in sched.todo

StillOpen(s) == part[s] = "IN_PROGRESS"

ExpireLock(s) ==
    /\ sched.pc = "next"
    /\ s \in sched.todo
    /\ ~ParticipationLocked(s)
    /\ sched' = IF StillOpen(s)
                  THEN [sched EXCEPT !.pc = "expire", !.student = s, !.todo = @ \ {s},
                                     !.sessions = ActiveSessions(s)]
                  ELSE [sched EXCEPT !.todo = @ \ {s}]
    /\ UNCHANGED <<now, exam, setup, part, started, sess, req, owner, edit, faults>>

Latest(S) == {c \in S : \A d \in S : d <= c}

\* Snapshots of session i that the server created before the deadline.
InTime(i) == {c \in sess[i].snaps : c < Deadline(sess[i].student)}

\* Mutant: a snapshot created after the deadline is submitted too.
LatestSnapshot(i) == Latest(sess[i].snaps)

\* _timeout_snapshot: none when there is none in time.
TimeoutSnapshot(i) == Latest(InTime(i))

\* The session is locked and its snapshot chosen; one that ended since it was listed is
\* passed over.
ExpireSession(i) ==
    /\ sched.pc = "expire"
    /\ i \in sched.sessions
    /\ ~SessionLocked(i)
    /\ sched' = IF sess[i].status = "ACTIVE"
                  THEN [sched EXCEPT !.sessions = @ \ {i}, !.ending = @ \union {i},
                                     !.code[i] = TimeoutSnapshot(i)]
                  ELSE [sched EXCEPT !.sessions = @ \ {i}]
    /\ UNCHANGED <<now, exam, setup, part, started, sess, req, owner, edit, faults>>

ExpireCommit ==
    /\ sched.pc = "expire"
    /\ sched.sessions = {}
    /\ sess' = Ended(sess, sched.ending, "SYSTEM_EXAM_TIMEOUT", sched.code)
    /\ part' = [part EXCEPT ![sched.student] = "EXPIRED"]
    /\ sched' = [sched EXCEPT !.pc = "next", !.student = Nobody, !.ending = {},
                              !.code = NoSubmission]
    /\ UNCHANGED <<now, exam, setup, started, req, owner, edit, faults>>

\* Mutant: whoever was not timed out holds up the end.
NotExpired == {s \in Students : part[s] \notin {"NONE", "EXPIRED"}}

Remaining == InProgress

\* The exam ends when nobody is left in progress; a locked row is skipped.
EndExam ==
    /\ sched.pc = "next" /\ sched.at_end /\ sched.todo = {}
    /\ exam' = IF ~ExamLocked /\ exam = "ONGOING" /\ Remaining = {} THEN "ENDED" ELSE exam
    /\ sched' = NoTick
    /\ UNCHANGED <<now, setup, part, started, sess, req, owner, edit, faults>>

SchedulerCrash ==
    /\ Fault
    /\ sched.pc # "idle"
    /\ sched' = NoTick
    /\ UNCHANGED <<now, exam, setup, part, started, sess, req, owner, edit>>

-----------------------------------------------------------------------------
OwnerStep ==
    \/ \E k \in {"add", "remove"}, x \in Problems \union Classes : EditCheck(k, x)
    \/ EditWrite
    \/ PublishLock \/ PublishCommit \/ CancelLock \/ CancelCommit

RequestBegin(r) ==
    \/ \E s \in Students : \/ JoinCheck(r, s) \/ FinalizeLock(r, s)
                           \/ \E q \in Problems : StartCheck(r, s, q)
    \/ \E i \in Sessions : SnapshotCheck(r, i) \/ SubmitLock(r, i)

RequestContinue(r) ==
    \/ JoinInsert(r) \/ StartLock(r) \/ StartInsert(r) \/ SnapshotStamp(r) \/ SnapshotInsert(r)
    \/ SubmitWindow(r) \/ SubmitCommit(r)
    \/ \E i \in Sessions : FinalizeSession(r, i)
    \/ FinalizeCommit(r)

SchedulerStep ==
    \/ TickBegin \/ StartDueExams \/ ListOverdue \/ ListAtEnd
    \/ \E s \in Students : ExpireLock(s)
    \/ \E i \in Sessions : ExpireSession(i)
    \/ ExpireCommit \/ EndExam

Next ==
    \/ TimePasses
    \/ OwnerStep
    \/ \E r \in Requests : RequestBegin(r) \/ RequestContinue(r) \/ RequestAborts(r)
    \/ \E i \in Sessions : EndSession(i)
    \/ SchedulerStep
    \/ SchedulerCrash

Spec == Init /\ [][Next]_vars

\* Time passes, requests that began go on, the scheduler loops forever.  The
\* database serves those who wait for a row in turn: hence SF for the sessions.
Fairness ==
    /\ WF_vars(TimePasses)
    /\ WF_vars(PublishCommit \/ CancelCommit)
    /\ \A r \in Requests : WF_vars(RequestContinue(r))
    /\ WF_vars(SchedulerStep)
    /\ \A i \in Sessions : SF_vars(ExpireSession(i))

FairSpec == Spec /\ Fairness

-----------------------------------------------------------------------------
\* The types of the variables, with the CHECK constraints of the tables.
TypeOK ==
    /\ now \in 0 .. MaxTime
    /\ exam \in ExamStatus
    /\ setup \subseteq Problems \union Classes
    /\ part \in [Students -> ParticipationStatus]
    /\ started \in [Students -> 0 .. MaxTime]
    /\ sess \in [Sessions -> Session]
    /\ req \in [Requests -> Request]
    /\ owner \in {"idle", "publish", "cancel"}
    /\ edit \in Edit
    /\ sched \in Tick
    /\ faults \in 0 .. MaxFaults

\* However many starts of a problem run at once, a participation has one active
\* session of it (docs/41 R4).
OneActiveSession ==
    \A i, j \in Sessions :
        /\ sess[i].status = "ACTIVE" /\ sess[j].status = "ACTIVE"
        /\ sess[i].student = sess[j].student /\ sess[i].problem = sess[j].problem
        => i = j

\* Finalize, timeout and cancel race for a participation: the first decides.
ParticipationFinal ==
    [][\A s \in Students : part[s] \notin {"NONE", "IN_PROGRESS"} => part'[s] = part[s]]_vars

\* The exam only moves along its life cycle: no late tick revives a cancelled
\* exam, no cancel stops a running one.
ExamForward ==
    [][exam' # exam => <<exam, exam'>> \in {<<"DRAFT", "SCHEDULED">>, <<"SCHEDULED", "ONGOING">>,
                                            <<"ONGOING", "ENDED">>, <<"DRAFT", "CANCELLED">>,
                                            <<"SCHEDULED", "CANCELLED">>}]_vars

\* A session the system ended belongs to an expired participation, and submitted is the
\* latest snapshot created in time among all that were stored while the session ran:
\* whatever snapshots, submits and ends of the student were under way.  Excepted are
\* those of `late`: created in time perhaps, but stored when the timeout was over.
TimeoutKeepsWork ==
    \A i \in Sessions : sess[i].by = "SYSTEM_EXAM_TIMEOUT" =>
        /\ part[sess[i].student] = "EXPIRED"
        /\ InTime(i) = {} => sess[i].code = {}
        /\ InTime(i) # {} => \E c \in InTime(i) : /\ sess[i].code = {c}
                                                  /\ \A d \in InTime(i) : d <= c

\* Nobody is timed out before the own deadline, whenever the tick began and
\* however late its transactions commit.
NobodyExpiresEarly ==
    \A s \in Students : part[s] = "EXPIRED" => Deadline(s) <= now

\* A published exam comes to its end, or was cancelled.
PublishedExamEnds == exam = "SCHEDULED" ~> exam \in {"ENDED", "CANCELLED"}

\* Who left the exam has no active session of it (docs/36 AC-10-07).
NoSessionOutlivesParticipation ==
    \A i \in Sessions : sess[i].status = "ACTIVE" => part[sess[i].student] = "IN_PROGRESS"

\* When the exam is over nobody is in progress (REQ-EXAM-009).
NobodyInProgressAfterEnd == exam = "ENDED" => InProgress = {}

\* What publish validated holds while the exam is scheduled or runs (docs/36).
PublishedExamComplete ==
    exam \in {"SCHEDULED", "ONGOING"} =>
        /\ setup \intersect Classes # {}
        /\ setup \intersect Problems # {}
        /\ setup \intersect Problems \subseteq Gradable
=============================================================================

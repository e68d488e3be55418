------------------------ MODULE ExamLifecycleProofs -------------------------
(***************************************************************************)
(* Proofs about ExamLifecycle for every set of students, problems,         *)
(* sessions and requests, every start, end and duration of the exam, and   *)
(* every bound on the clock and the faults.                                *)
(***************************************************************************)
EXTENDS ExamLifecycle, WellFoundedInduction, TLAPS

-----------------------------------------------------------------------------
(* The inductive invariant: types, what a program counter says of the rows *)
(* a transaction works on, and the row locks.                              *)

\* A request works on a student, or on sessions that were opened; only a finalize
\* collects sessions, all of them of its student.
RequestsHold ==
    \A r \in Requests :
        /\ req[r].pc \in {"join", "start", "create", "finalize"} =>
             req[r].student \in Students
        /\ req[r].pc \in {"upload", "insert", "window", "submit"} =>
             req[r].session \in Sessions /\ sess[req[r].session].status # "NONE"
        /\ req[r].pc # "finalize" => req[r].todo = {} /\ req[r].ending = {}
        /\ \A i \in req[r].todo \union req[r].ending :
             sess[i].status # "NONE" /\ sess[i].student = req[r].student

\* So does the timeout of a participation.
TimeoutHolds ==
    /\ sched.pc = "expire" => sched.student \in Students
    /\ sched.pc # "expire" => sched.sessions = {} /\ sched.ending = {}
    /\ \A i \in sched.sessions \union sched.ending :
         sess[i].status # "NONE" /\ sess[i].student = sched.student

\* A session that was opened has a student; one that the system ended is over.
SessionsHold ==
    \A i \in Sessions : /\ sess[i].status # "NONE" => sess[i].student \in Students
                        /\ sess[i].by # "NONE" => sess[i].status = "ENDED"

\* The timeout submits the latest snapshot in time: it has chosen among all that were
\* stored, and no other comes while it holds the session.
TimeoutSubmits ==
    \A i \in Sessions :
        /\ i \in sched.ending => sched.code[i] = TimeoutSnapshot(i)
        /\ sess[i].by = "SYSTEM_EXAM_TIMEOUT" => /\ part[sess[i].student] = "EXPIRED"
                                                /\ sess[i].code = TimeoutSnapshot(i)

\* A participation row is locked by at most one transaction, and finalize and timeout
\* hold one that is in progress.
LocksParticipation(r, s) == req[r].pc \in {"create", "finalize"} /\ req[r].student = s
ParticipationLocks ==
    /\ \A r, q \in Requests, s \in Students :
         LocksParticipation(r, s) /\ LocksParticipation(q, s) => r = q
    /\ \A r \in Requests, s \in Students :
         LocksParticipation(r, s) => ~(sched.pc = "expire" /\ sched.student = s)
    /\ \A r \in Requests : req[r].pc = "finalize" => part[req[r].student] = "IN_PROGRESS"
    /\ sched.pc = "expire" => part[sched.student] = "IN_PROGRESS"

\* A session row is locked by at most one transaction, and is active while it is.
LocksSession(r, i) ==
    \/ req[r].pc \in {"window", "submit"} /\ req[r].session = i
    \/ i \in req[r].ending
SessionLocks ==
    \A i \in Sessions :
        /\ \A r, q \in Requests : LocksSession(r, i) /\ LocksSession(q, i) => r = q
        /\ \A r \in Requests : LocksSession(r, i) => i \notin sched.ending
        /\ \A r \in Requests : LocksSession(r, i) => sess[i].status = "ACTIVE"
        /\ i \in sched.ending => sess[i].status = "ACTIVE"

\* A start that has the lock found no active session of its problem.
StartsAlone ==
    \A r \in Requests : req[r].pc = "create" =>
        \A i \in ActiveSessions(req[r].student) : sess[i].problem # req[r].problem

\* The owner's lock keeps the status that publish and cancel tested, and an edit under
\* way names a problem or a class.
OwnerHolds ==
    /\ edit.kind # "none" => edit.item \in Problems \union Classes
    /\ owner = "publish" => exam = "DRAFT"
    /\ owner = "cancel" => exam \in {"DRAFT", "SCHEDULED"}

\* A tick works with a moment that is past, and whoever it lists has joined and is due.
TickHolds ==
    /\ sched.now <= now
    /\ sched.at_end => EndTime <= sched.now
    /\ \A s \in Students :
         s \in sched.todo \/ (sched.pc = "expire" /\ sched.student = s)
           => part[s] # "NONE" /\ Deadline(s) <= sched.now

IInv == /\ TypeOK /\ RequestsHold /\ TimeoutHolds /\ SessionsHold /\ ParticipationLocks
        /\ SessionLocks /\ StartsAlone /\ OneActiveSession /\ OwnerHolds /\ TickHolds
        /\ TimeoutSubmits /\ NobodyExpiresEarly

LEMMA RecordTypes ==
  /\ NoSession \in Session
  /\ NoRequest \in Request
  /\ NoTick \in Tick
  /\ NoEdit \in Edit
BY TimesAssumption DEF NoSession, Session, NoRequest, Request, NoTick, Tick, NoEdit, Edit,
   Source, Moments

LEMMA InitIInv == Init => IInv
<1> SUFFICES ASSUME Init PROVE IInv
  OBVIOUS
<1>1. TypeOK
  BY RecordTypes, TimesAssumption DEF Init, TypeOK, ExamStatus, ParticipationStatus
<1>2. RequestsHold /\ TimeoutHolds /\ SessionsHold /\ OwnerHolds /\ TickHolds
  BY TimesAssumption DEF Init, RequestsHold, TimeoutHolds, SessionsHold, OwnerHolds,
     TickHolds, NoRequest, NoTick, NoSession, NoEdit
<1>3. ParticipationLocks /\ SessionLocks /\ StartsAlone /\ OneActiveSession
  BY DEF Init, ParticipationLocks, SessionLocks, StartsAlone, OneActiveSession,
     LocksParticipation, LocksSession, NoRequest, NoTick, NoSession
<1>4. TimeoutSubmits /\ NobodyExpiresEarly
  BY DEF Init, TimeoutSubmits, NobodyExpiresEarly, NoSession, NoTick
<1> QED BY <1>1, <1>2, <1>3, <1>4 DEF IInv

\* What a request notes keeps its type.
LEMMA RequestTypes ==
  ASSUME NEW x \in Request
  PROVE  /\ \A s \in Students : [x EXCEPT !.pc = "join", !.student = s] \in Request
         /\ \A s \in Students, q \in Problems :
              [x EXCEPT !.pc = "start", !.student = s, !.problem = q] \in Request
         /\ [x EXCEPT !.pc = "create"] \in Request
         /\ \A i \in Sessions : [x EXCEPT !.pc = "upload", !.session = i] \in Request
         /\ \A n \in 0 .. MaxTime : [x EXCEPT !.pc = "insert", !.stamp = n] \in Request
         /\ \A i \in Sessions : [x EXCEPT !.pc = "window", !.session = i] \in Request
         /\ [x EXCEPT !.pc = "submit"] \in Request
         /\ \A s \in Students, S \in SUBSET Sessions :
              [x EXCEPT !.pc = "finalize", !.student = s, !.todo = S] \in Request
         /\ \A i \in Sessions :
              [x EXCEPT !.todo = @ \ {i}, !.ending = @ \union {i}] \in Request
<1> DEFINE Pc == {"idle", "join", "start", "create", "upload", "insert", "window", "submit",
                  "finalize"}
           Student == Students \union {Nobody}
           Problem == Problems \union {Nothing}
           Place == Sessions \union {Nothing}
           Moment == 0 .. MaxTime
<1>1. Request = [pc : Pc, student : Student, problem : Problem, session : Place,
                 stamp : Moment, todo : SUBSET Sessions, ending : SUBSET Sessions]
  BY DEF Request
<1>2. /\ {"join", "start", "create", "upload", "insert", "window", "submit", "finalize"}
            \subseteq Pc
      /\ Students \subseteq Student /\ Problems \subseteq Problem
      /\ Sessions \subseteq Place /\ 0 .. MaxTime = Moment
  OBVIOUS
<1> HIDE DEF Pc, Student, Problem, Place, Moment
<1> QED BY <1>1, <1>2

\* What a tick notes keeps its type.
LEMMA TickTypes ==
  ASSUME NEW x \in Tick
  PROVE  /\ \A n \in Nat, b \in BOOLEAN :
              [NoTick EXCEPT !.pc = "start", !.now = n, !.due = b] \in Tick
         /\ [x EXCEPT !.pc = "overdue"] \in Tick
         /\ \A S \in SUBSET Students : [x EXCEPT !.pc = "next", !.todo = S] \in Tick
         /\ \A S \in SUBSET Students : [x EXCEPT !.at_end = TRUE, !.todo = S] \in Tick
         /\ \A s \in Students, I \in SUBSET Sessions :
              [x EXCEPT !.pc = "expire", !.student = s, !.todo = @ \ {s}, !.sessions = I]
                 \in Tick
         /\ \A s \in Students : [x EXCEPT !.todo = @ \ {s}] \in Tick
         /\ \A i \in Sessions, c \in Moments :
              [x EXCEPT !.sessions = @ \ {i}, !.ending = @ \union {i}, !.code[i] = c] \in Tick
         /\ \A i \in Sessions : [x EXCEPT !.sessions = @ \ {i}] \in Tick
         /\ [x EXCEPT !.pc = "next", !.student = Nobody, !.ending = {},
                      !.code = NoSubmission] \in Tick
<1> DEFINE Pc == {"idle", "start", "overdue", "next", "expire"}
           Student == Students \union {Nobody}
           Codes == [Sessions -> Moments]
<1>1. Tick = [pc : Pc, now : Nat, due : BOOLEAN, at_end : BOOLEAN, todo : SUBSET Students,
              student : Student, sessions : SUBSET Sessions, ending : SUBSET Sessions,
              code : Codes]
  BY DEF Tick
<1>2. /\ {"start", "overdue", "next", "expire"} \subseteq Pc
      /\ Students \subseteq Student /\ Nobody \in Student
  OBVIOUS
<1>3. NoTick \in Tick
  BY RecordTypes
<1>4. /\ NoSubmission \in Codes
      /\ \A f \in Codes, i \in Sessions, c \in Moments : [f EXCEPT ![i] = c] \in Codes
  BY DEF NoSubmission, Moments
<1> HIDE DEF Pc, Student, Codes
<1> QED BY <1>1, <1>2, <1>3, <1>4

\* What a session keeps when it is opened and when a snapshot of it is stored.
LEMMA SessionTypes ==
  /\ \A x \in Session, s \in Students, q \in Problems \union {Nothing} :
       [x EXCEPT !.status = "ACTIVE", !.student = s, !.problem = q] \in Session
  /\ \A x \in Session, n \in 0 .. MaxTime :
       /\ [x EXCEPT !.snaps = @ \union {n}] \in Session
       /\ [x EXCEPT !.late = @ \union {n}] \in Session
<1> DEFINE Student == Students \union {Nobody}
           Problem == Problems \union {Nothing}
<1>1. Session = [status : {"NONE", "ACTIVE", "ENDED"}, student : Student, problem : Problem,
                 by : Source, snaps : Moments, late : Moments, code : Moments]
  BY DEF Session
<1>2. Students \subseteq Student /\ \A q \in Problems \union {Nothing} : q \in Problem
  OBVIOUS
<1>3. \A M \in Moments, n \in 0 .. MaxTime : M \union {n} \in Moments
  BY DEF Moments
<1> HIDE DEF Student, Problem
<1> QED BY <1>1, <1>2, <1>3

\* The sessions of I end, each by source with the code submitted of it; the others and everything
\* else of a session stay as they are.
SessionsEnd(I, source, code) ==
    /\ sess' \in [Sessions -> Session]
    /\ \A i \in Sessions : /\ sess'[i].student = sess[i].student
                           /\ sess'[i].problem = sess[i].problem
                           /\ sess'[i].snaps = sess[i].snaps
    /\ \A i \in Sessions : i \in I => /\ sess'[i].status = "ENDED" /\ sess'[i].by = source
                                      /\ sess'[i].code = code[i]
    /\ \A i \in Sessions : i \notin I => /\ sess'[i].status = sess[i].status
                                         /\ sess'[i].by = sess[i].by
                                         /\ sess'[i].code = sess[i].code

LEMMA EndedFacts ==
  ASSUME sess \in [Sessions -> Session], NEW I \in SUBSET Sessions,
         NEW source \in {"STUDENT", "SYSTEM_EXAM_TIMEOUT"}, NEW code \in [Sessions -> Moments],
         sess' = Ended(sess, I, source, code)
  PROVE  SessionsEnd(I, source, code)
<1> DEFINE Student == Students \union {Nobody}
           Problem == Problems \union {Nothing}
           Status == {"NONE", "ACTIVE", "ENDED"}
           End(x, c) == [x EXCEPT !.status = "ENDED", !.by = source, !.code = c]
<1>1. Session = [status : Status, student : Student, problem : Problem,
                 by : Source, snaps : Moments, late : Moments, code : Moments]
  BY DEF Session
<1>2. "ENDED" \in Status /\ source \in Source
  BY DEF Source
<1> HIDE DEF Student, Problem, Status
<1>3. \A x \in Session, c \in Moments :
        /\ End(x, c) \in Session
        /\ End(x, c).student = x.student /\ End(x, c).problem = x.problem
        /\ End(x, c).snaps = x.snaps
        /\ End(x, c).status = "ENDED" /\ End(x, c).by = source /\ End(x, c).code = c
  BY <1>1, <1>2
<1>4. sess' = [i \in Sessions |-> IF i \in I THEN End(sess[i], code[i]) ELSE sess[i]]
  BY DEF Ended
<1> HIDE DEF End
<1> QED BY <1>3, <1>4 DEF SessionsEnd

\* The snapshot that the timeout would submit depends on those stored and the deadline.
LEMMA SnapshotStays ==
  ASSUME NEW i \in Sessions, sess'[i].snaps = sess[i].snaps,
         sess'[i].student = sess[i].student,
         started'[sess[i].student] = started[sess[i].student]
  PROVE  TimeoutSnapshot(i)' = TimeoutSnapshot(i)
<1>1. Deadline(sess[i].student)' = Deadline(sess[i].student)
  BY DEF Deadline
<1>2. InTime(i)' = InTime(i)
  BY <1>1 DEF InTime
<1> QED BY <1>2 DEF TimeoutSnapshot, Latest

\* Steps that leave sessions and start times alone leave the timeout's choice alone.
LEMMA QuietTimeout ==
  ASSUME TimeoutSubmits, UNCHANGED <<sess, started>>,
         (sched'.ending = sched.ending /\ sched'.code = sched.code) \/ sched'.ending = {},
         \A i \in Sessions : sess[i].by = "SYSTEM_EXAM_TIMEOUT" =>
           part'[sess[i].student] = part[sess[i].student]
  PROVE  TimeoutSubmits'
<1>1. \A i \in Sessions : TimeoutSnapshot(i)' = TimeoutSnapshot(i)
  BY SnapshotStays
<1> QED BY <1>1 DEF TimeoutSubmits

\* Sessions that a student ends are none of those the timeout holds or has ended.
LEMMA StudentEnds ==
  ASSUME TimeoutSubmits,
         NEW I \in SUBSET Sessions, NEW code, SessionsEnd(I, "STUDENT", code),
         \A i \in I : i \notin sched.ending, UNCHANGED <<sched, started>>,
         \A i \in Sessions : sess[i].by = "SYSTEM_EXAM_TIMEOUT" =>
           part'[sess[i].student] = part[sess[i].student]
  PROVE  TimeoutSubmits'
<1>1. \A i \in Sessions : TimeoutSnapshot(i)' = TimeoutSnapshot(i)
  BY SnapshotStays DEF SessionsEnd
<1> QED BY <1>1 DEF TimeoutSubmits, SessionsEnd

\* A set of natural numbers has a least one.
LEMMA LeastExists ==
  ASSUME NEW S \in SUBSET Nat, S # {}
  PROVE  \E c \in S : \A d \in S : c <= d
<1> DEFINE R == {ss \in Nat \X Nat : ss[1] < ss[2]}
<1>1. IsWellFoundedOn(R, Nat)
  BY NatLessThanWellFounded, Zenon DEF OpToRel
<1>2. \A y, x \in Nat : <<y, x>> \in R <=> y < x
  OBVIOUS
<1> HIDE DEF R
<1>3. PICK c \in S : \A d \in S : ~(<<d, c>> \in R)
  BY <1>1, WFMin
<1>4. \A d \in S : c <= d
  <2> TAKE d \in S
  <2>1. ~(d < c)
    BY <1>2, <1>3, Zenon
  <2> QED BY <2>1
<1> QED BY <1>4

\* A set of moments that has a member has a latest one.
LEMMA LatestExists ==
  ASSUME NEW S \in Moments, S # {}
  PROVE  \E c \in S : Latest(S) = {c} /\ \A d \in S : d <= c
<1> DEFINE T == {MaxTime - c : c \in S}
<1>0. MaxTime \in Nat /\ \A c \in S : c \in Nat /\ MaxTime - c \in Nat
  BY TimesAssumption DEF Moments
<1>1. T \in SUBSET Nat /\ T # {}
  BY <1>0
<1>2. PICK m \in T : \A t \in T : m <= t
  BY <1>1, LeastExists
<1>3. PICK c \in S : m = MaxTime - c
  BY <1>2
<1>4. \A d \in S : d <= c
  <2> TAKE d \in S
  <2>1. MaxTime - c <= MaxTime - d
    BY <1>2, <1>3
  <2> QED BY <1>0, <2>1
<1>5. \A d \in Latest(S) : d = c
  BY <1>0, <1>4 DEF Latest
<1>6. c \in Latest(S)
  BY <1>4 DEF Latest
<1> QED BY <1>4, <1>5, <1>6

-----------------------------------------------------------------------------
(* One lemma per action: its step keeps the invariant.                    *)

LEMMA TimePassesStep ==
  ASSUME IInv, TimePasses
  PROVE  IInv'
<1> USE DEF IInv, TimePasses
<1>1. TypeOK'
  BY TimesAssumption DEF TypeOK
<1> USE DEF TypeOK, Tick
<1>2. RequestsHold' /\ TimeoutHolds' /\ SessionsHold'
  BY DEF RequestsHold, LocksSession, TimeoutHolds, SessionsHold
<1>3. ParticipationLocks'
  BY DEF ParticipationLocks, LocksParticipation, ParticipationLocked
<1>4. SessionLocks'
  BY DEF SessionLocks, LocksSession, SessionLocked
<1>5. StartsAlone' /\ OneActiveSession'
  BY DEF StartsAlone, ActiveSessions, OneActiveSession
<1>6. OwnerHolds' /\ TickHolds'
  BY DEF OwnerHolds, ExamLocked, Edit, TickHolds, Deadline
<1>7. TimeoutSubmits'
  BY QuietTimeout
<1>8. NobodyExpiresEarly'
  BY TimesAssumption DEF NobodyExpiresEarly, Deadline
<1> QED BY <1>1, <1>2, <1>3, <1>4, <1>5, <1>6, <1>7, <1>8

LEMMA EditCheckStep ==
  ASSUME IInv, NEW k \in {"add", "remove"}, NEW x \in Problems \union Classes, EditCheck(k,
     x)
  PROVE  IInv'
<1> USE DEF IInv, EditCheck
<1>1. TypeOK'
  BY DEF TypeOK, Edit
<1> USE DEF TypeOK
<1>2. RequestsHold' /\ TimeoutHolds' /\ SessionsHold'
  BY DEF RequestsHold, LocksSession, TimeoutHolds, SessionsHold
<1>3. ParticipationLocks'
  BY DEF ParticipationLocks, LocksParticipation, ParticipationLocked
<1>4. SessionLocks'
  BY DEF SessionLocks, LocksSession, SessionLocked
<1>5. StartsAlone' /\ OneActiveSession'
  BY DEF StartsAlone, ActiveSessions, OneActiveSession
<1>6. OwnerHolds' /\ TickHolds'
  BY DEF OwnerHolds, ExamLocked, Edit, TickHolds, Deadline
<1>7. TimeoutSubmits' /\ NobodyExpiresEarly'
  BY QuietTimeout DEF NobodyExpiresEarly, Deadline
<1> QED BY <1>1, <1>2, <1>3, <1>4, <1>5, <1>6, <1>7

LEMMA EditWriteStep ==
  ASSUME IInv, EditWrite
  PROVE  IInv'
<1> USE DEF IInv, EditWrite
<1>1. TypeOK'
  BY RecordTypes DEF TypeOK, Edit, NoEdit, OwnerHolds
<1> USE DEF TypeOK, NoEdit
<1>2. RequestsHold' /\ TimeoutHolds' /\ SessionsHold'
  BY DEF RequestsHold, LocksSession, TimeoutHolds, SessionsHold
<1>3. ParticipationLocks'
  BY DEF ParticipationLocks, LocksParticipation, ParticipationLocked
<1>4. SessionLocks'
  BY DEF SessionLocks, LocksSession, SessionLocked
<1>5. StartsAlone' /\ OneActiveSession'
  BY DEF StartsAlone, ActiveSessions, OneActiveSession
<1>6. OwnerHolds' /\ TickHolds'
  BY DEF OwnerHolds, ExamLocked, Edit, TickHolds, Deadline
<1>7. TimeoutSubmits' /\ NobodyExpiresEarly'
  BY QuietTimeout DEF NobodyExpiresEarly, Deadline
<1> QED BY <1>1, <1>2, <1>3, <1>4, <1>5, <1>6, <1>7

LEMMA PublishLockStep ==
  ASSUME IInv, PublishLock
  PROVE  IInv'
<1> USE DEF IInv, PublishLock
<1>1. TypeOK'
  BY DEF TypeOK
<1> USE DEF TypeOK
<1>2. RequestsHold' /\ TimeoutHolds' /\ SessionsHold'
  BY DEF RequestsHold, LocksSession, TimeoutHolds, SessionsHold
<1>3. ParticipationLocks'
  BY DEF ParticipationLocks, LocksParticipation, ParticipationLocked
<1>4. SessionLocks'
  BY DEF SessionLocks, LocksSession, SessionLocked
<1>5. StartsAlone' /\ OneActiveSession'
  BY DEF StartsAlone, ActiveSessions, OneActiveSession
<1>6. OwnerHolds' /\ TickHolds'
  BY DEF OwnerHolds, ExamLocked, Edit, TickHolds, Deadline
<1>7. TimeoutSubmits' /\ NobodyExpiresEarly'
  BY QuietTimeout DEF NobodyExpiresEarly, Deadline
<1> QED BY <1>1, <1>2, <1>3, <1>4, <1>5, <1>6, <1>7

LEMMA PublishCommitStep ==
  ASSUME IInv, PublishCommit
  PROVE  IInv'
<1> USE DEF IInv, PublishCommit
<1>1. TypeOK'
  BY DEF TypeOK, ExamStatus
<1> USE DEF TypeOK
<1>2. RequestsHold' /\ TimeoutHolds' /\ SessionsHold'
  BY DEF RequestsHold, LocksSession, TimeoutHolds, SessionsHold
<1>3. ParticipationLocks'
  BY DEF ParticipationLocks, LocksParticipation, ParticipationLocked
<1>4. SessionLocks'
  BY DEF SessionLocks, LocksSession, SessionLocked
<1>5. StartsAlone' /\ OneActiveSession'
  BY DEF StartsAlone, ActiveSessions, OneActiveSession
<1>6. OwnerHolds' /\ TickHolds'
  BY DEF OwnerHolds, ExamLocked, Edit, TickHolds, Deadline
<1>7. TimeoutSubmits' /\ NobodyExpiresEarly'
  BY QuietTimeout DEF NobodyExpiresEarly, Deadline
<1> QED BY <1>1, <1>2, <1>3, <1>4, <1>5, <1>6, <1>7

LEMMA CancelLockStep ==
  ASSUME IInv, CancelLock
  PROVE  IInv'
<1> USE DEF IInv, CancelLock
<1>1. TypeOK'
  BY DEF TypeOK
<1> USE DEF TypeOK
<1>2. RequestsHold' /\ TimeoutHolds' /\ SessionsHold'
  BY DEF RequestsHold, LocksSession, TimeoutHolds, SessionsHold
<1>3. ParticipationLocks'
  BY DEF ParticipationLocks, LocksParticipation, ParticipationLocked
<1>4. SessionLocks'
  BY DEF SessionLocks, LocksSession, SessionLocked
<1>5. StartsAlone' /\ OneActiveSession'
  BY DEF StartsAlone, ActiveSessions, OneActiveSession
<1>6. OwnerHolds' /\ TickHolds'
  BY DEF OwnerHolds, ExamLocked, Edit, TickHolds, Deadline
<1>7. TimeoutSubmits' /\ NobodyExpiresEarly'
  BY QuietTimeout DEF NobodyExpiresEarly, Deadline
<1> QED BY <1>1, <1>2, <1>3, <1>4, <1>5, <1>6, <1>7

LEMMA CancelCommitStep ==
  ASSUME IInv, CancelCommit
  PROVE  IInv'
<1> USE DEF IInv, CancelCommit
<1>1. TypeOK'
  BY DEF TypeOK, ExamStatus, ParticipationStatus
<1> USE DEF TypeOK
<1>2. RequestsHold' /\ TimeoutHolds' /\ SessionsHold'
  BY DEF RequestsHold, LocksSession, TimeoutHolds, SessionsHold
<1>3. ParticipationLocks'
  <2>1. \A r \in Requests : req[r].pc # "finalize"
    BY DEF ParticipationLocks, ParticipationLocked, RequestsHold
  <2>2. sched.pc # "expire"
    BY DEF ParticipationLocks, ParticipationLocked, TimeoutHolds
  <2> QED BY <2>1, <2>2 DEF ParticipationLocks, LocksParticipation
<1>4. SessionLocks'
  BY DEF SessionLocks, LocksSession, SessionLocked
<1>5. StartsAlone' /\ OneActiveSession'
  BY DEF StartsAlone, ActiveSessions, OneActiveSession
<1>6. OwnerHolds' /\ TickHolds'
  BY DEF OwnerHolds, ExamLocked, Edit, TickHolds, Deadline
<1>7. NobodyExpiresEarly'
  BY DEF NobodyExpiresEarly, Deadline
<1>8. TimeoutSubmits'
  <2>1. \A i \in Sessions : sess[i].by = "SYSTEM_EXAM_TIMEOUT" =>
          part'[sess[i].student] = part[sess[i].student]
    BY DEF TimeoutSubmits, SessionsHold
  <2> QED BY <2>1, QuietTimeout
<1> QED BY <1>1, <1>2, <1>3, <1>4, <1>5, <1>6, <1>7, <1>8

LEMMA JoinCheckStep ==
  ASSUME IInv, NEW r \in Requests, NEW s \in Students, JoinCheck(r, s)
  PROVE  IInv'
<1> USE DEF IInv, JoinCheck
<1>1. TypeOK'
  <2>1. req' \in [Requests -> Request]
    BY RecordTypes, RequestTypes DEF TypeOK
  <2> QED BY <2>1 DEF TypeOK
<1> USE DEF TypeOK, Request, NoRequest
<1>2. RequestsHold' /\ TimeoutHolds' /\ SessionsHold'
  BY DEF RequestsHold, LocksSession, TimeoutHolds, SessionsHold
<1>3. ParticipationLocks'
  BY DEF ParticipationLocks, LocksParticipation, ParticipationLocked
<1>4. SessionLocks'
  BY DEF SessionLocks, LocksSession, SessionLocked
<1>5. StartsAlone' /\ OneActiveSession'
  BY DEF StartsAlone, ActiveSessions, OneActiveSession
<1>6. OwnerHolds' /\ TickHolds'
  BY DEF OwnerHolds, ExamLocked, Edit, TickHolds, Deadline
<1>7. TimeoutSubmits' /\ NobodyExpiresEarly'
  BY QuietTimeout DEF NobodyExpiresEarly, Deadline
<1> QED BY <1>1, <1>2, <1>3, <1>4, <1>5, <1>6, <1>7

LEMMA JoinInsertStep ==
  ASSUME IInv, NEW r \in Requests, JoinInsert(r)
  PROVE  IInv'
<1> USE DEF IInv, JoinInsert
<1>1. TypeOK'
  <2>1. req' \in [Requests -> Request]
    BY RecordTypes, RequestTypes DEF TypeOK
  <2>2. part' \in [Students -> ParticipationStatus] /\ started' \in [Students -> 0 ..
     MaxTime]
    BY DEF TypeOK, ParticipationStatus
  <2> QED BY <2>1, <2>2 DEF TypeOK
<1> USE DEF TypeOK, Request, NoRequest
<1>2. RequestsHold' /\ TimeoutHolds' /\ SessionsHold'
  BY DEF RequestsHold, LocksSession, TimeoutHolds, SessionsHold
<1>3. ParticipationLocks'
  BY DEF ParticipationLocks, LocksParticipation, RequestsHold, TimeoutHolds
<1>4. SessionLocks'
  BY DEF SessionLocks, LocksSession, SessionLocked
<1>5. StartsAlone' /\ OneActiveSession'
  BY DEF StartsAlone, ActiveSessions, OneActiveSession
<1>6. OwnerHolds' /\ TickHolds'
  BY DEF OwnerHolds, ExamLocked, Edit, TickHolds, Deadline
<1>7. NobodyExpiresEarly'
  BY DEF NobodyExpiresEarly, Deadline
<1>8. TimeoutSubmits'
  <2>1. \A i \in Sessions : sess[i].by = "SYSTEM_EXAM_TIMEOUT" \/ i \in sched.ending =>
          /\ sess[i].student \in Students
          /\ part[sess[i].student] # "NONE"
    BY DEF TimeoutSubmits, TimeoutHolds, SessionsHold, ParticipationLocks
  <2>2. \A i \in Sessions : sess[i].by = "SYSTEM_EXAM_TIMEOUT" \/ i \in sched.ending =>
          /\ started'[sess[i].student] = started[sess[i].student]
          /\ part'[sess[i].student] = part[sess[i].student]
    BY <2>1
  <2>3. \A i \in Sessions : sess[i].by = "SYSTEM_EXAM_TIMEOUT" \/ i \in sched.ending =>
          TimeoutSnapshot(i)' = TimeoutSnapshot(i)
    BY <2>2, SnapshotStays
  <2> QED BY <2>2, <2>3 DEF TimeoutSubmits
<1> QED BY <1>1, <1>2, <1>3, <1>4, <1>5, <1>6, <1>7, <1>8

LEMMA StartCheckStep ==
  ASSUME IInv, NEW r \in Requests, NEW s \in Students, NEW q \in Problems, StartCheck(r, s,
     q)
  PROVE  IInv'
<1> USE DEF IInv, StartCheck
<1>1. TypeOK'
  <2>1. req' \in [Requests -> Request]
    BY RecordTypes, RequestTypes DEF TypeOK
  <2> QED BY <2>1 DEF TypeOK
<1> USE DEF TypeOK, Request
<1>2. RequestsHold' /\ TimeoutHolds' /\ SessionsHold'
  BY DEF RequestsHold, LocksSession, TimeoutHolds, SessionsHold
<1>3. ParticipationLocks'
  BY DEF ParticipationLocks, LocksParticipation, ParticipationLocked
<1>4. SessionLocks'
  BY DEF SessionLocks, LocksSession, SessionLocked
<1>5. StartsAlone' /\ OneActiveSession'
  BY DEF StartsAlone, ActiveSessions, OneActiveSession
<1>6. OwnerHolds' /\ TickHolds'
  BY DEF OwnerHolds, ExamLocked, Edit, TickHolds, Deadline
<1>7. TimeoutSubmits' /\ NobodyExpiresEarly'
  BY QuietTimeout DEF NobodyExpiresEarly, Deadline
<1> QED BY <1>1, <1>2, <1>3, <1>4, <1>5, <1>6, <1>7

LEMMA StartLockStep ==
  ASSUME IInv, NEW r \in Requests, StartLock(r)
  PROVE  IInv'
<1> USE DEF IInv, StartLock
<1>1. TypeOK'
  <2>1. req' \in [Requests -> Request]
    BY RecordTypes, RequestTypes DEF TypeOK
  <2> QED BY <2>1 DEF TypeOK
<1> USE DEF TypeOK, Request, NoRequest
<1>2. RequestsHold' /\ TimeoutHolds' /\ SessionsHold'
  BY DEF RequestsHold, LocksSession, TimeoutHolds, SessionsHold
<1>3. ParticipationLocks'
  BY DEF ParticipationLocks, LocksParticipation, ParticipationLocked
<1>4. SessionLocks'
  BY DEF SessionLocks, LocksSession, SessionLocked
<1>5. StartsAlone' /\ OneActiveSession'
  BY DEF StartsAlone, ActiveSessions, OneActiveSession
<1>6. OwnerHolds' /\ TickHolds'
  BY DEF OwnerHolds, ExamLocked, Edit, TickHolds, Deadline
<1>7. TimeoutSubmits' /\ NobodyExpiresEarly'
  BY QuietTimeout DEF NobodyExpiresEarly, Deadline
<1> QED BY <1>1, <1>2, <1>3, <1>4, <1>5, <1>6, <1>7

LEMMA StartInsertStep ==
  ASSUME IInv, NEW r \in Requests, StartInsert(r)
  PROVE  IInv'
<1> USE DEF IInv, StartInsert
<1>1. TypeOK'
  <2>1. req' \in [Requests -> Request]
    BY RecordTypes, RequestTypes DEF TypeOK
  <2>2. sess' \in [Sessions -> Session]
    <3>1. req[r].student \in Students /\ req[r].problem \in Problems \union {Nothing}
      BY DEF TypeOK, RequestsHold, Request
    <3>2. PICK i \in Sessions :
            sess' = [sess EXCEPT ![i] = [NoSession EXCEPT !.status = "ACTIVE",
                                                          !.student = req[r].student,
                                                          !.problem = req[r].problem]]
      OBVIOUS
    <3> QED BY <3>1, <3>2, RecordTypes, SessionTypes DEF TypeOK
  <2> QED BY <2>1, <2>2 DEF TypeOK
<1> USE DEF TypeOK, Request, Session, NoRequest, NoSession
<1>2. RequestsHold' /\ TimeoutHolds'
  BY DEF RequestsHold, LocksSession, TimeoutHolds
<1>3. SessionsHold'
  BY DEF SessionsHold, RequestsHold
<1>4. ParticipationLocks'
  BY DEF ParticipationLocks, LocksParticipation, ParticipationLocked
<1>5. SessionLocks'
  BY DEF SessionLocks, LocksSession, SessionLocked
<1>6. OneActiveSession'
  BY DEF OneActiveSession, StartsAlone, ActiveSessions
<1>7. StartsAlone'
  BY DEF StartsAlone, ActiveSessions, ParticipationLocks, LocksParticipation, RequestsHold
<1>8. OwnerHolds' /\ TickHolds'
  BY DEF OwnerHolds, ExamLocked, Edit, TickHolds, Deadline
<1>9. NobodyExpiresEarly'
  BY DEF NobodyExpiresEarly, Deadline
<1>10. TimeoutSubmits'
  <2>1. PICK i \in Sessions :
          /\ sess[i].status = "NONE"
          /\ sess' = [sess EXCEPT ![i] = [NoSession EXCEPT !.status = "ACTIVE",
                                                          !.student = req[r].student,
                                                          !.problem = req[r].problem]]
    OBVIOUS
  <2>2. sess'[i].by = "NONE" /\ i \notin sched.ending
    BY <2>1 DEF TimeoutHolds
  <2>3. \A k \in Sessions : k # i => sess'[k] = sess[k]
    BY <2>1
  <2>4. \A k \in Sessions : k # i => TimeoutSnapshot(k)' = TimeoutSnapshot(k)
    BY <2>3, SnapshotStays
  <2> QED BY <2>2, <2>3, <2>4 DEF TimeoutSubmits
<1> QED BY <1>1, <1>2, <1>3, <1>4, <1>5, <1>6, <1>7, <1>8, <1>9, <1>10

LEMMA SnapshotCheckStep ==
  ASSUME IInv, NEW r \in Requests, NEW i \in Sessions, SnapshotCheck(r, i)
  PROVE  IInv'
<1> USE DEF IInv, SnapshotCheck
<1>1. TypeOK'
  <2>1. req' \in [Requests -> Request]
    BY RecordTypes, RequestTypes DEF TypeOK
  <2> QED BY <2>1 DEF TypeOK
<1> USE DEF TypeOK, Request
<1>2. RequestsHold' /\ TimeoutHolds' /\ SessionsHold'
  BY DEF RequestsHold, LocksSession, TimeoutHolds, SessionsHold
<1>3. ParticipationLocks'
  BY DEF ParticipationLocks, LocksParticipation, ParticipationLocked
<1>4. SessionLocks'
  BY DEF SessionLocks, LocksSession, SessionLocked
<1>5. StartsAlone' /\ OneActiveSession'
  BY DEF StartsAlone, ActiveSessions, OneActiveSession
<1>6. OwnerHolds' /\ TickHolds'
  BY DEF OwnerHolds, ExamLocked, Edit, TickHolds, Deadline
<1>7. TimeoutSubmits' /\ NobodyExpiresEarly'
  BY QuietTimeout DEF NobodyExpiresEarly, Deadline
<1> QED BY <1>1, <1>2, <1>3, <1>4, <1>5, <1>6, <1>7

LEMMA SnapshotStampStep ==
  ASSUME IInv, NEW r \in Requests, SnapshotStamp(r)
  PROVE  IInv'
<1> USE DEF IInv, SnapshotStamp
<1>1. TypeOK'
  <2>1. req' \in [Requests -> Request]
    BY RecordTypes, RequestTypes DEF TypeOK
  <2> QED BY <2>1 DEF TypeOK
<1> USE DEF TypeOK, Request
<1>2. RequestsHold' /\ TimeoutHolds' /\ SessionsHold'
  BY DEF RequestsHold, LocksSession, TimeoutHolds, SessionsHold
<1>3. ParticipationLocks'
  BY DEF ParticipationLocks, LocksParticipation, ParticipationLocked
<1>4. SessionLocks'
  BY DEF SessionLocks, LocksSession, SessionLocked
<1>5. StartsAlone' /\ OneActiveSession'
  BY DEF StartsAlone, ActiveSessions, OneActiveSession
<1>6. OwnerHolds' /\ TickHolds'
  BY DEF OwnerHolds, ExamLocked, Edit, TickHolds, Deadline
<1>7. TimeoutSubmits' /\ NobodyExpiresEarly'
  BY QuietTimeout DEF NobodyExpiresEarly, Deadline
<1> QED BY <1>1, <1>2, <1>3, <1>4, <1>5, <1>6, <1>7

LEMMA SnapshotInsertStep ==
  ASSUME IInv, NEW r \in Requests, SnapshotInsert(r)
  PROVE  IInv'
<1> USE DEF IInv, SnapshotInsert
<1>1. TypeOK'
  <2>1. req' \in [Requests -> Request]
    BY RecordTypes, RequestTypes DEF TypeOK
  <2>2. sess' \in [Sessions -> Session]
    <3>1. req[r].stamp \in 0 .. MaxTime
      BY DEF TypeOK, Request
    <3> QED BY <3>1, SessionTypes DEF TypeOK
  <2> QED BY <2>1, <2>2 DEF TypeOK
<1> USE DEF TypeOK, Request, Session, NoRequest
<1>2. RequestsHold' /\ TimeoutHolds' /\ SessionsHold'
  BY DEF RequestsHold, LocksSession, TimeoutHolds, SessionsHold
<1>3. ParticipationLocks'
  BY DEF ParticipationLocks, LocksParticipation, ParticipationLocked
<1>4. SessionLocks'
  BY DEF SessionLocks, LocksSession, SessionLocked
<1>5. StartsAlone' /\ OneActiveSession'
  BY DEF StartsAlone, ActiveSessions, OneActiveSession
<1>6. OwnerHolds' /\ TickHolds'
  BY DEF OwnerHolds, ExamLocked, Edit, TickHolds, Deadline
<1>7. NobodyExpiresEarly'
  BY DEF NobodyExpiresEarly, Deadline
<1>8. TimeoutSubmits'
  <2> DEFINE i == req[r].session
  <2>1. \A k \in Sessions : /\ sess'[k].by = sess[k].by /\ sess'[k].code = sess[k].code
                            /\ sess'[k].student = sess[k].student
                            /\ k # i => sess'[k] = sess[k]
    OBVIOUS
  <2>2. i \notin sched.ending
    BY DEF SessionLocked
  <2>3. \A k \in Sessions : sess[k].by = "SYSTEM_EXAM_TIMEOUT" \/ k \in sched.ending =>
          sess'[k].snaps = sess[k].snaps
    BY <2>2
  <2>4. \A k \in Sessions : sess[k].by = "SYSTEM_EXAM_TIMEOUT" \/ k \in sched.ending =>
          TimeoutSnapshot(k)' = TimeoutSnapshot(k)
    BY <2>1, <2>3, SnapshotStays
  <2> QED BY <2>1, <2>4 DEF TimeoutSubmits
<1> QED BY <1>1, <1>2, <1>3, <1>4, <1>5, <1>6, <1>7, <1>8

LEMMA SubmitLockStep ==
  ASSUME IInv, NEW r \in Requests, NEW i \in Sessions, SubmitLock(r, i)
  PROVE  IInv'
<1> USE DEF IInv, SubmitLock
<1>1. TypeOK'
  <2>1. req' \in [Requests -> Request]
    BY RecordTypes, RequestTypes DEF TypeOK
  <2> QED BY <2>1 DEF TypeOK
<1> USE DEF TypeOK, Request
<1>2. RequestsHold' /\ TimeoutHolds' /\ SessionsHold'
  BY DEF RequestsHold, LocksSession, TimeoutHolds, SessionsHold
<1>3. ParticipationLocks'
  BY DEF ParticipationLocks, LocksParticipation, ParticipationLocked
<1>4. SessionLocks'
  BY DEF SessionLocks, LocksSession, SessionLocked
<1>5. StartsAlone' /\ OneActiveSession'
  BY DEF StartsAlone, ActiveSessions, OneActiveSession
<1>6. OwnerHolds' /\ TickHolds'
  BY DEF OwnerHolds, ExamLocked, Edit, TickHolds, Deadline
<1>7. TimeoutSubmits' /\ NobodyExpiresEarly'
  BY QuietTimeout DEF NobodyExpiresEarly, Deadline
<1> QED BY <1>1, <1>2, <1>3, <1>4, <1>5, <1>6, <1>7

LEMMA SubmitWindowStep ==
  ASSUME IInv, NEW r \in Requests, SubmitWindow(r)
  PROVE  IInv'
<1> USE DEF IInv, SubmitWindow
<1>1. TypeOK'
  <2>1. req' \in [Requests -> Request]
    BY RecordTypes, RequestTypes DEF TypeOK
  <2> QED BY <2>1 DEF TypeOK
<1> USE DEF TypeOK, Request, NoRequest
<1>2. RequestsHold' /\ TimeoutHolds' /\ SessionsHold'
  BY DEF RequestsHold, LocksSession, TimeoutHolds, SessionsHold
<1>3. ParticipationLocks'
  BY DEF ParticipationLocks, LocksParticipation, ParticipationLocked
<1>4. SessionLocks'
  BY DEF SessionLocks, LocksSession, SessionLocked
<1>5. StartsAlone' /\ OneActiveSession'
  BY DEF StartsAlone, ActiveSessions, OneActiveSession
<1>6. OwnerHolds' /\ TickHolds'
  BY DEF OwnerHolds, ExamLocked, Edit, TickHolds, Deadline
<1>7. TimeoutSubmits' /\ NobodyExpiresEarly'
  BY QuietTimeout DEF NobodyExpiresEarly, Deadline
<1> QED BY <1>1, <1>2, <1>3, <1>4, <1>5, <1>6, <1>7

LEMMA SubmitCommitStep ==
  ASSUME IInv, NEW r \in Requests, SubmitCommit(r)
  PROVE  IInv'
<1> USE DEF IInv
<1>0. PICK c \in sess[req[r].session].snaps :
        sess' = Ended(sess, {req[r].session}, "STUDENT", [i \in Sessions |-> {c}])
  BY DEF SubmitCommit
<1>a. SessionsEnd({req[r].session}, "STUDENT", [i \in Sessions |-> {c}])
  <2>1. {req[r].session} \in SUBSET Sessions
    BY DEF SubmitCommit, RequestsHold
  <2>2. [i \in Sessions |-> {c}] \in [Sessions -> Moments]
    BY <2>1 DEF TypeOK, Session, Moments
  <2> QED BY <1>0, <2>1, <2>2, EndedFacts DEF TypeOK
<1>b. /\ req[r].pc = "submit" /\ req' = [req EXCEPT ![r] = NoRequest]
      /\ UNCHANGED <<now, exam, setup, part, started, owner, edit, sched, faults>>
  BY DEF SubmitCommit
<1>c. \A k \in Sessions : sess[k].status # "NONE" => sess'[k].status # "NONE"
  BY <1>a DEF SessionsEnd
<1> USE <1>b DEF SessionsEnd
<1>1. TypeOK'
  <2>1. req' \in [Requests -> Request]
    BY RecordTypes, RequestTypes DEF TypeOK
  <2>2. part' \in [Students -> ParticipationStatus]
    BY DEF TypeOK, ParticipationStatus
  <2> QED BY <1>a, <2>1, <2>2 DEF TypeOK
<1> USE DEF TypeOK, Request, Tick, NoRequest
<1>2. RequestsHold'
  BY <1>a, <1>c DEF RequestsHold, SessionLocks, LocksSession
<1>3. TimeoutHolds'
  BY <1>a, <1>c DEF TimeoutHolds, SessionLocks
<1>4. SessionsHold'
  BY <1>a, <1>c DEF SessionsHold, RequestsHold, TimeoutHolds, SessionLocks, LocksSession
<1>5. ParticipationLocks'
  BY <1>a DEF ParticipationLocks, LocksParticipation, RequestsHold, TimeoutHolds
<1>6. SessionLocks'
  BY <1>a DEF SessionLocks, LocksSession, SessionLocked, RequestsHold, TimeoutHolds
<1>7. StartsAlone'
  BY <1>a DEF StartsAlone, ActiveSessions
<1>8. OneActiveSession'
  BY <1>a DEF OneActiveSession
<1>9. OwnerHolds'
  BY <1>a DEF OwnerHolds, ExamLocked, Edit
<1>10. TickHolds'
  BY <1>a DEF TickHolds, Deadline
<1>11. TimeoutSubmits'
  <2>1. /\ {req[r].session} \in SUBSET Sessions
        /\ \A k \in {req[r].session} : k \notin sched.ending
    BY DEF RequestsHold, SessionLocks, LocksSession, SessionLocked
  <2>2. \A k \in Sessions : sess[k].by = "SYSTEM_EXAM_TIMEOUT" =>
          part'[sess[k].student] = part[sess[k].student]
    BY DEF TimeoutSubmits, SessionsHold, ParticipationLocks
  <2> HIDE DEF SessionsEnd
  <2> QED BY <1>a, <2>1, <2>2, StudentEnds
<1>12. NobodyExpiresEarly'
  BY <1>a DEF NobodyExpiresEarly, Deadline
<1> QED BY <1>1, <1>2, <1>3, <1>4, <1>5, <1>6, <1>7, <1>8, <1>9, <1>10, <1>11, <1>12

LEMMA EndSessionStep ==
  ASSUME IInv, NEW i \in Sessions, EndSession(i)
  PROVE  IInv'
<1> USE DEF IInv
<1>a. SessionsEnd({i}, "STUDENT", NoSubmission)
  <2>1. {i} \in SUBSET Sessions /\ NoSubmission \in [Sessions -> Moments]
    BY DEF Moments, NoSubmission
  <2> QED BY <2>1, EndedFacts DEF EndSession, TypeOK
<1>b. /\ sess[i].status = "ACTIVE" /\ ~SessionLocked(i)
      /\ UNCHANGED <<now, exam, setup, part, started, req, owner, edit, sched, faults>>
  BY DEF EndSession
<1>c. \A k \in Sessions : sess[k].status # "NONE" => sess'[k].status # "NONE"
  BY <1>a DEF SessionsEnd
<1> USE <1>b DEF SessionsEnd
<1>1. TypeOK'
  BY <1>a DEF TypeOK
<1> USE DEF TypeOK, Request, Tick
<1>2. RequestsHold'
  BY <1>a, <1>c DEF RequestsHold, SessionLocks, LocksSession
<1>3. TimeoutHolds'
  BY <1>a, <1>c DEF TimeoutHolds, SessionLocks
<1>4. SessionsHold'
  BY <1>a, <1>c DEF SessionsHold, RequestsHold, TimeoutHolds, SessionLocks, LocksSession
<1>5. ParticipationLocks'
  BY <1>a DEF ParticipationLocks, LocksParticipation, RequestsHold, TimeoutHolds
<1>6. SessionLocks'
  BY <1>a DEF SessionLocks, LocksSession, SessionLocked, RequestsHold, TimeoutHolds
<1>7. StartsAlone'
  BY <1>a DEF StartsAlone, ActiveSessions
<1>8. OneActiveSession'
  BY <1>a DEF OneActiveSession
<1>9. OwnerHolds'
  BY <1>a DEF OwnerHolds, ExamLocked, Edit
<1>10. TickHolds'
  BY <1>a DEF TickHolds, Deadline
<1>11. TimeoutSubmits'
  <2>1. /\ {i} \in SUBSET Sessions
        /\ \A k \in {i} : k \notin sched.ending
    BY DEF RequestsHold, SessionLocks, LocksSession, SessionLocked
  <2>2. \A k \in Sessions : sess[k].by = "SYSTEM_EXAM_TIMEOUT" =>
          part'[sess[k].student] = part[sess[k].student]
    BY DEF TimeoutSubmits, SessionsHold, ParticipationLocks
  <2> HIDE DEF SessionsEnd
  <2> QED BY <1>a, <2>1, <2>2, StudentEnds
<1>12. NobodyExpiresEarly'
  BY <1>a DEF NobodyExpiresEarly, Deadline
<1> QED BY <1>1, <1>2, <1>3, <1>4, <1>5, <1>6, <1>7, <1>8, <1>9, <1>10, <1>11, <1>12

LEMMA FinalizeLockStep ==
  ASSUME IInv, NEW r \in Requests, NEW s \in Students, FinalizeLock(r, s)
  PROVE  IInv'
<1> USE DEF IInv, FinalizeLock
<1>1. TypeOK'
  <2>0. ActiveSessions(s) \in SUBSET Sessions
    BY DEF ActiveSessions
  <2>1. req' \in [Requests -> Request]
    BY <2>0, RecordTypes, RequestTypes DEF TypeOK
  <2> QED BY <2>1 DEF TypeOK
<1> USE DEF TypeOK, Request
<1>2. RequestsHold' /\ TimeoutHolds' /\ SessionsHold'
  BY DEF RequestsHold, LocksSession, TimeoutHolds, SessionsHold
<1>3. ParticipationLocks'
  BY DEF ParticipationLocks, LocksParticipation, ParticipationLocked
<1>4. SessionLocks'
  BY DEF SessionLocks, LocksSession, SessionLocked
<1>5. StartsAlone' /\ OneActiveSession'
  BY DEF StartsAlone, ActiveSessions, OneActiveSession
<1>6. OwnerHolds' /\ TickHolds'
  BY DEF OwnerHolds, ExamLocked, Edit, TickHolds, Deadline
<1>7. TimeoutSubmits' /\ NobodyExpiresEarly'
  BY QuietTimeout DEF NobodyExpiresEarly, Deadline
<1> QED BY <1>1, <1>2, <1>3, <1>4, <1>5, <1>6, <1>7

LEMMA FinalizeSessionStep ==
  ASSUME IInv, NEW r \in Requests, NEW i \in Sessions, FinalizeSession(r, i)
  PROVE  IInv'
<1> USE DEF IInv, FinalizeSession
<1>1. TypeOK'
  <2>1. req' \in [Requests -> Request]
    BY RecordTypes, RequestTypes DEF TypeOK
  <2> QED BY <2>1 DEF TypeOK
<1> USE DEF TypeOK, Request, NoRequest
<1>2. RequestsHold' /\ TimeoutHolds' /\ SessionsHold'
  BY DEF RequestsHold, LocksSession, TimeoutHolds, SessionsHold
<1>3. ParticipationLocks'
  BY DEF ParticipationLocks, LocksParticipation, ParticipationLocked
<1>4. SessionLocks'
  BY DEF SessionLocks, LocksSession, SessionLocked
<1>5. StartsAlone' /\ OneActiveSession'
  BY DEF StartsAlone, ActiveSessions, OneActiveSession
<1>6. OwnerHolds' /\ TickHolds'
  BY DEF OwnerHolds, ExamLocked, Edit, TickHolds, Deadline
<1>7. TimeoutSubmits' /\ NobodyExpiresEarly'
  BY QuietTimeout DEF NobodyExpiresEarly, Deadline
<1> QED BY <1>1, <1>2, <1>3, <1>4, <1>5, <1>6, <1>7

LEMMA FinalizeCommitStep ==
  ASSUME IInv, NEW r \in Requests, FinalizeCommit(r)
  PROVE  IInv'
<1> USE DEF IInv
<1>a. SessionsEnd(req[r].ending, "STUDENT", NoSubmission)
  <2>1. req[r].ending \in SUBSET Sessions /\ NoSubmission \in [Sessions -> Moments]
    BY DEF TypeOK, Request, Moments, NoSubmission
  <2> QED BY <2>1, EndedFacts DEF FinalizeCommit, TypeOK
<1>b. /\ req[r].pc = "finalize" /\ req[r].todo = {}
      /\ part' = [part EXCEPT ![req[r].student] = "COMPLETED"]
      /\ req' = [req EXCEPT ![r] = NoRequest]
      /\ UNCHANGED <<now, exam, setup, started, owner, edit, sched, faults>>
  BY DEF FinalizeCommit
<1>c. \A k \in Sessions : sess[k].status # "NONE" => sess'[k].status # "NONE"
  BY <1>a DEF SessionsEnd
<1> USE <1>b DEF SessionsEnd
<1>1. TypeOK'
  <2>1. req' \in [Requests -> Request]
    BY RecordTypes, RequestTypes DEF TypeOK
  <2>2. part' \in [Students -> ParticipationStatus]
    BY DEF TypeOK, ParticipationStatus
  <2> QED BY <1>a, <2>1, <2>2 DEF TypeOK
<1> USE DEF TypeOK, Request, Tick, NoRequest
<1>2. RequestsHold'
  BY <1>a, <1>c DEF RequestsHold, SessionLocks, LocksSession
<1>3. TimeoutHolds'
  BY <1>a, <1>c DEF TimeoutHolds, SessionLocks
<1>4. SessionsHold'
  BY <1>a, <1>c DEF SessionsHold, RequestsHold, TimeoutHolds, SessionLocks, LocksSession
<1>5. ParticipationLocks'
  BY <1>a DEF ParticipationLocks, LocksParticipation, RequestsHold, TimeoutHolds
<1>6. SessionLocks'
  BY <1>a DEF SessionLocks, LocksSession, SessionLocked, RequestsHold, TimeoutHolds
<1>7. StartsAlone'
  BY <1>a DEF StartsAlone, ActiveSessions
<1>8. OneActiveSession'
  BY <1>a DEF OneActiveSession
<1>9. OwnerHolds'
  BY <1>a DEF OwnerHolds, ExamLocked, Edit
<1>10. TickHolds'
  BY <1>a DEF TickHolds, Deadline
<1>11. TimeoutSubmits'
  <2>1. /\ req[r].ending \in SUBSET Sessions
        /\ \A k \in req[r].ending : k \notin sched.ending
    BY DEF RequestsHold, SessionLocks, LocksSession, SessionLocked
  <2>2. \A k \in Sessions : sess[k].by = "SYSTEM_EXAM_TIMEOUT" =>
          part'[sess[k].student] = part[sess[k].student]
    BY DEF TimeoutSubmits, SessionsHold, ParticipationLocks
  <2> HIDE DEF SessionsEnd
  <2> QED BY <1>a, <2>1, <2>2, StudentEnds
<1>12. NobodyExpiresEarly'
  BY <1>a DEF NobodyExpiresEarly, Deadline
<1> QED BY <1>1, <1>2, <1>3, <1>4, <1>5, <1>6, <1>7, <1>8, <1>9, <1>10, <1>11, <1>12

LEMMA RequestAbortsStep ==
  ASSUME IInv, NEW r \in Requests, RequestAborts(r)
  PROVE  IInv'
<1> USE DEF IInv, RequestAborts
<1>1. TypeOK'
  <2>1. req' \in [Requests -> Request]
    BY RecordTypes, RequestTypes DEF TypeOK
  <2> QED BY <2>1, TimesAssumption DEF TypeOK, Fault
<1> USE DEF TypeOK, Request, NoRequest
<1>2. RequestsHold' /\ TimeoutHolds' /\ SessionsHold'
  BY DEF RequestsHold, LocksSession, TimeoutHolds, SessionsHold
<1>3. ParticipationLocks'
  BY DEF ParticipationLocks, LocksParticipation, ParticipationLocked
<1>4. SessionLocks'
  BY DEF SessionLocks, LocksSession, SessionLocked
<1>5. StartsAlone' /\ OneActiveSession'
  BY DEF StartsAlone, ActiveSessions, OneActiveSession
<1>6. OwnerHolds' /\ TickHolds'
  BY DEF OwnerHolds, ExamLocked, Edit, TickHolds, Deadline
<1>7. TimeoutSubmits' /\ NobodyExpiresEarly'
  BY QuietTimeout DEF NobodyExpiresEarly, Deadline
<1> QED BY <1>1, <1>2, <1>3, <1>4, <1>5, <1>6, <1>7

LEMMA TickBeginStep ==
  ASSUME IInv, TickBegin
  PROVE  IInv'
<1> USE DEF IInv, TickBegin
<1>1. TypeOK'
  <2> DEFINE due == exam = "SCHEDULED" /\ StartTime <= now
  <2>1. sched' = [NoTick EXCEPT !.pc = "start", !.now = now, !.due = due] /\ now \in Nat
    BY TimesAssumption DEF TypeOK
  <2>2. due \in BOOLEAN
    OBVIOUS
  <2>3. \A n \in Nat, b \in BOOLEAN :
          [NoTick EXCEPT !.pc = "start", !.now = n, !.due = b] \in Tick
    BY RecordTypes, TickTypes
  <2>4. sched' \in Tick
    BY <2>1, <2>2, <2>3, Zenon
  <2> QED BY <2>4 DEF TypeOK
<1> USE DEF TypeOK, Tick, NoTick
<1>2. RequestsHold' /\ TimeoutHolds' /\ SessionsHold'
  BY DEF RequestsHold, LocksSession, TimeoutHolds, SessionsHold
<1>3. ParticipationLocks'
  BY DEF ParticipationLocks, LocksParticipation, ParticipationLocked
<1>4. SessionLocks'
  BY DEF SessionLocks, LocksSession, SessionLocked
<1>5. StartsAlone' /\ OneActiveSession'
  BY DEF StartsAlone, ActiveSessions, OneActiveSession
<1>6. OwnerHolds' /\ TickHolds'
  BY DEF OwnerHolds, ExamLocked, Edit, TickHolds, Deadline
<1>7. TimeoutSubmits' /\ NobodyExpiresEarly'
  BY QuietTimeout DEF NobodyExpiresEarly, Deadline
<1> QED BY <1>1, <1>2, <1>3, <1>4, <1>5, <1>6, <1>7

LEMMA StartDueExamsStep ==
  ASSUME IInv, StartDueExams
  PROVE  IInv'
<1> USE DEF IInv, StartDueExams
<1>1. TypeOK'
  <2>1. sched' \in Tick
    BY RecordTypes, TickTypes, TimesAssumption DEF TypeOK, InProgress, Overdue,
       ActiveSessions
  <2> QED BY <2>1 DEF TypeOK, ExamStatus
<1> USE DEF TypeOK, Tick
<1>2. RequestsHold' /\ TimeoutHolds' /\ SessionsHold'
  BY DEF RequestsHold, LocksSession, TimeoutHolds, SessionsHold
<1>3. ParticipationLocks'
  BY DEF ParticipationLocks, LocksParticipation, ParticipationLocked
<1>4. SessionLocks'
  BY DEF SessionLocks, LocksSession, SessionLocked
<1>5. StartsAlone' /\ OneActiveSession'
  BY DEF StartsAlone, ActiveSessions, OneActiveSession
<1>6. TickHolds'
  BY DEF TickHolds, Deadline
<1>7. OwnerHolds'
  BY DEF OwnerHolds, ExamLocked, StartDue
<1>8. TimeoutSubmits' /\ NobodyExpiresEarly'
  BY QuietTimeout DEF NobodyExpiresEarly, Deadline
<1> QED BY <1>1, <1>2, <1>3, <1>4, <1>5, <1>6, <1>7, <1>8

LEMMA ListOverdueStep ==
  ASSUME IInv, ListOverdue
  PROVE  IInv'
<1> USE DEF IInv, ListOverdue
<1>1. TypeOK'
  <2>1. sched' \in Tick
    BY RecordTypes, TickTypes, TimesAssumption DEF TypeOK, InProgress, Overdue,
       ActiveSessions
  <2> QED BY <2>1 DEF TypeOK, ExamStatus
<1> USE DEF TypeOK, Tick
<1>2. RequestsHold' /\ TimeoutHolds' /\ SessionsHold'
  BY DEF RequestsHold, LocksSession, TimeoutHolds, SessionsHold
<1>3. ParticipationLocks'
  BY DEF ParticipationLocks, LocksParticipation, ParticipationLocked
<1>4. SessionLocks'
  BY DEF SessionLocks, LocksSession, SessionLocked
<1>5. StartsAlone' /\ OneActiveSession'
  BY DEF StartsAlone, ActiveSessions, OneActiveSession
<1>6. OwnerHolds'
  BY DEF OwnerHolds, ExamLocked, Edit
<1>7. TickHolds'
  BY DEF TickHolds, Deadline, Overdue, InProgress
<1>8. TimeoutSubmits' /\ NobodyExpiresEarly'
  BY QuietTimeout DEF NobodyExpiresEarly, Deadline
<1> QED BY <1>1, <1>2, <1>3, <1>4, <1>5, <1>6, <1>7, <1>8

LEMMA ListAtEndStep ==
  ASSUME IInv, ListAtEnd
  PROVE  IInv'
<1> USE DEF IInv, ListAtEnd
<1>1. TypeOK'
  <2>1. sched' \in Tick
    BY RecordTypes, TickTypes, TimesAssumption DEF TypeOK, InProgress, Overdue,
       ActiveSessions
  <2> QED BY <2>1 DEF TypeOK, ExamStatus
<1> USE DEF TypeOK, Tick, NoTick
<1>2. RequestsHold' /\ TimeoutHolds' /\ SessionsHold'
  BY DEF RequestsHold, LocksSession, TimeoutHolds, SessionsHold
<1>3. ParticipationLocks'
  BY DEF ParticipationLocks, LocksParticipation, ParticipationLocked
<1>4. SessionLocks'
  BY DEF SessionLocks, LocksSession, SessionLocked
<1>5. StartsAlone' /\ OneActiveSession'
  BY DEF StartsAlone, ActiveSessions, OneActiveSession
<1>6. OwnerHolds'
  BY DEF OwnerHolds, ExamLocked, Edit
<1>7. TickHolds'
  BY TimesAssumption DEF TickHolds, Deadline, InProgress
<1>8. TimeoutSubmits' /\ NobodyExpiresEarly'
  BY QuietTimeout DEF NobodyExpiresEarly, Deadline
<1> QED BY <1>1, <1>2, <1>3, <1>4, <1>5, <1>6, <1>7, <1>8

LEMMA ExpireLockStep ==
  ASSUME IInv, NEW s \in Students, ExpireLock(s)
  PROVE  IInv'
<1> USE DEF IInv, ExpireLock
<1>1. TypeOK'
  <2>1. sched' \in Tick
    BY RecordTypes, TickTypes, TimesAssumption DEF TypeOK, InProgress, Overdue,
       ActiveSessions
  <2> QED BY <2>1 DEF TypeOK, ExamStatus
<1> USE DEF TypeOK, Tick
<1>2. RequestsHold' /\ SessionsHold'
  BY DEF RequestsHold, LocksSession, SessionsHold
<1>3. TimeoutHolds'
  BY DEF TimeoutHolds, ActiveSessions
<1>4. ParticipationLocks'
  BY DEF ParticipationLocks, LocksParticipation, ParticipationLocked, StillOpen
<1>5. SessionLocks'
  BY DEF SessionLocks, LocksSession, SessionLocked
<1>6. StartsAlone' /\ OneActiveSession'
  BY DEF StartsAlone, ActiveSessions, OneActiveSession
<1>7. OwnerHolds' /\ TickHolds'
  BY DEF OwnerHolds, ExamLocked, Edit, TickHolds, Deadline
<1>8. TimeoutSubmits' /\ NobodyExpiresEarly'
  BY QuietTimeout DEF NobodyExpiresEarly, Deadline
<1> QED BY <1>1, <1>2, <1>3, <1>4, <1>5, <1>6, <1>7, <1>8

LEMMA ExpireSessionStep ==
  ASSUME IInv, NEW i \in Sessions, ExpireSession(i)
  PROVE  IInv'
<1> USE DEF IInv, ExpireSession
<1>1. TypeOK'
  <2>1. sched' \in Tick
    <3>1. TimeoutSnapshot(i) \in Moments
      BY DEF TimeoutSnapshot, Latest, InTime, TypeOK, Session, Moments
    <3> QED BY <3>1, TickTypes DEF TypeOK
  <2> QED BY <2>1 DEF TypeOK, ExamStatus
<1> USE DEF TypeOK, Tick
<1>2. RequestsHold' /\ TimeoutHolds' /\ SessionsHold'
  BY DEF RequestsHold, LocksSession, TimeoutHolds, SessionsHold
<1>3. ParticipationLocks'
  BY DEF ParticipationLocks, LocksParticipation, ParticipationLocked
<1>4. SessionLocks'
  BY DEF SessionLocks, LocksSession, SessionLocked
<1>5. StartsAlone' /\ OneActiveSession'
  BY DEF StartsAlone, ActiveSessions, OneActiveSession
<1>6. OwnerHolds' /\ TickHolds'
  BY DEF OwnerHolds, ExamLocked, Edit, TickHolds, Deadline
<1>7. NobodyExpiresEarly'
  BY DEF NobodyExpiresEarly, Deadline
<1>8. TimeoutSubmits'
  <2>1. \A k \in Sessions : TimeoutSnapshot(k)' = TimeoutSnapshot(k)
    BY SnapshotStays
  <2>2. \A k \in sched'.ending :
          \/ k \in sched.ending /\ sched'.code[k] = sched.code[k]
          \/ sched'.code[k] = TimeoutSnapshot(k)
    BY DEF Tick
  <2> QED BY <2>1, <2>2 DEF TimeoutSubmits
<1> QED BY <1>1, <1>2, <1>3, <1>4, <1>5, <1>6, <1>7, <1>8

LEMMA ExpireCommitStep ==
  ASSUME IInv, ExpireCommit
  PROVE  IInv'
<1> USE DEF IInv
<1>a. SessionsEnd(sched.ending, "SYSTEM_EXAM_TIMEOUT", sched.code)
  <2>1. sched.ending \in SUBSET Sessions /\ sched.code \in [Sessions -> Moments]
    BY DEF TypeOK, Tick
  <2> QED BY <2>1, EndedFacts DEF ExpireCommit, TypeOK
<1>b. /\ sched.pc = "expire" /\ sched.sessions = {}
      /\ part' = [part EXCEPT ![sched.student] = "EXPIRED"]
      /\ sched' = [sched EXCEPT !.pc = "next", !.student = Nobody, !.ending = {},
                                !.code = NoSubmission]
      /\ UNCHANGED <<now, exam, setup, started, req, owner, edit, faults>>
  BY DEF ExpireCommit
<1>c. \A k \in Sessions : sess[k].status # "NONE" => sess'[k].status # "NONE"
  BY <1>a DEF SessionsEnd
<1> USE <1>b DEF SessionsEnd
<1>1. TypeOK'
  <2>1. sched' \in Tick
    BY TickTypes DEF TypeOK
  <2>2. part' \in [Students -> ParticipationStatus]
    BY DEF TypeOK, ParticipationStatus
  <2> QED BY <1>a, <2>1, <2>2 DEF TypeOK
<1> USE DEF TypeOK, Request, Tick
<1>2. RequestsHold'
  BY <1>a, <1>c DEF RequestsHold, SessionLocks, LocksSession
<1>3. TimeoutHolds'
  BY <1>a, <1>c DEF TimeoutHolds, SessionLocks
<1>4. SessionsHold'
  BY <1>a, <1>c DEF SessionsHold, RequestsHold, TimeoutHolds, SessionLocks, LocksSession
<1>5. ParticipationLocks'
  BY <1>a DEF ParticipationLocks, LocksParticipation, RequestsHold, TimeoutHolds
<1>6. SessionLocks'
  BY <1>a DEF SessionLocks, LocksSession, SessionLocked, RequestsHold, TimeoutHolds
<1>7. StartsAlone'
  BY <1>a DEF StartsAlone, ActiveSessions
<1>8. OneActiveSession'
  BY <1>a DEF OneActiveSession
<1>9. OwnerHolds'
  BY <1>a DEF OwnerHolds, ExamLocked, Edit
<1>10. TickHolds'
  BY <1>a DEF TickHolds, Deadline
<1>11. TimeoutSubmits'
  <2>1. \A k \in Sessions : TimeoutSnapshot(k)' = TimeoutSnapshot(k)
    BY <1>a, SnapshotStays
  <2>2. \A k \in sched.ending : part'[sess[k].student] = "EXPIRED"
    BY DEF TimeoutHolds
  <2>3. \A k \in Sessions : part[sess[k].student] = "EXPIRED"
                             => part'[sess[k].student] = "EXPIRED"
    BY DEF Session, ParticipationLocks
  <2>4. sched'.ending = {}
    OBVIOUS
  <2> QED BY <1>a, <2>1, <2>2, <2>3, <2>4 DEF TimeoutSubmits
<1>12. NobodyExpiresEarly'
  BY <1>a, TimesAssumption DEF NobodyExpiresEarly, TickHolds, TimeoutHolds, Deadline
<1> QED BY <1>1, <1>2, <1>3, <1>4, <1>5, <1>6, <1>7, <1>8, <1>9, <1>10, <1>11, <1>12

LEMMA EndExamStep ==
  ASSUME IInv, EndExam
  PROVE  IInv'
<1> USE DEF IInv, EndExam
<1>1. TypeOK'
  <2>1. sched' \in Tick
    BY RecordTypes, TickTypes, TimesAssumption DEF TypeOK, InProgress, Overdue,
       ActiveSessions
  <2> QED BY <2>1 DEF TypeOK, ExamStatus
<1> USE DEF TypeOK, Tick, NoTick
<1>2. RequestsHold' /\ TimeoutHolds' /\ SessionsHold'
  BY DEF RequestsHold, LocksSession, TimeoutHolds, SessionsHold
<1>3. ParticipationLocks'
  BY DEF ParticipationLocks, LocksParticipation, ParticipationLocked
<1>4. SessionLocks'
  BY DEF SessionLocks, LocksSession, SessionLocked
<1>5. StartsAlone' /\ OneActiveSession'
  BY DEF StartsAlone, ActiveSessions, OneActiveSession
<1>6. OwnerHolds' /\ TickHolds'
  BY DEF OwnerHolds, ExamLocked, Edit, TickHolds, Deadline
<1>7. TimeoutSubmits' /\ NobodyExpiresEarly'
  BY QuietTimeout DEF NobodyExpiresEarly, Deadline
<1> QED BY <1>1, <1>2, <1>3, <1>4, <1>5, <1>6, <1>7

LEMMA SchedulerCrashStep ==
  ASSUME IInv, SchedulerCrash
  PROVE  IInv'
<1> USE DEF IInv, SchedulerCrash
<1>1. TypeOK'
  <2>1. sched' \in Tick
    BY RecordTypes, TickTypes, TimesAssumption DEF TypeOK, InProgress
  <2> QED BY <2>1, TimesAssumption DEF TypeOK, Fault
<1> USE DEF TypeOK, Tick, NoTick
<1>2. RequestsHold' /\ TimeoutHolds' /\ SessionsHold'
  BY DEF RequestsHold, LocksSession, TimeoutHolds, SessionsHold
<1>3. ParticipationLocks'
  BY DEF ParticipationLocks, LocksParticipation, ParticipationLocked
<1>4. SessionLocks'
  BY DEF SessionLocks, LocksSession, SessionLocked
<1>5. StartsAlone' /\ OneActiveSession'
  BY DEF StartsAlone, ActiveSessions, OneActiveSession
<1>6. OwnerHolds' /\ TickHolds'
  BY DEF OwnerHolds, ExamLocked, Edit, TickHolds, Deadline
<1>7. TimeoutSubmits' /\ NobodyExpiresEarly'
  BY QuietTimeout DEF NobodyExpiresEarly, Deadline
<1> QED BY <1>1, <1>2, <1>3, <1>4, <1>5, <1>6, <1>7

-----------------------------------------------------------------------------
(* The invariant holds in every behaviour, and what follows from it.       *)

LEMMA StepIInv == IInv /\ [Next]_vars => IInv'
<1> SUFFICES ASSUME IInv, [Next]_vars PROVE IInv'
  OBVIOUS
<1>1. ASSUME UNCHANGED vars PROVE IInv'
  BY <1>1 DEF vars, IInv, TypeOK, RequestsHold, TimeoutHolds, SessionsHold,
     ParticipationLocks,
              LocksParticipation, SessionLocks, LocksSession, StartsAlone, ActiveSessions,
              OneActiveSession, OwnerHolds, TickHolds, Deadline, TimeoutSubmits, TimeoutSnapshot, InTime, Latest,
              NobodyExpiresEarly
<1>2. CASE TimePasses
  BY <1>2, TimePassesStep
<1>3. CASE OwnerStep
  BY <1>3, EditCheckStep, EditWriteStep, PublishLockStep, PublishCommitStep, CancelLockStep,
     CancelCommitStep DEF OwnerStep
<1>4. ASSUME NEW r \in Requests, RequestBegin(r) PROVE IInv'
  BY <1>4, JoinCheckStep, FinalizeLockStep, StartCheckStep, SnapshotCheckStep,
     SubmitLockStep
     DEF RequestBegin
<1>5. ASSUME NEW r \in Requests, RequestContinue(r) PROVE IInv'
  BY <1>5, JoinInsertStep, StartLockStep, StartInsertStep, SnapshotStampStep,
     SnapshotInsertStep,
     SubmitWindowStep, SubmitCommitStep, FinalizeSessionStep, FinalizeCommitStep
     DEF RequestContinue
<1>6. CASE SchedulerStep
  BY <1>6, TickBeginStep, StartDueExamsStep, ListOverdueStep, ListAtEndStep, ExpireLockStep,
     ExpireSessionStep, ExpireCommitStep, EndExamStep DEF SchedulerStep
<1> QED
  BY <1>1, <1>2, <1>3, <1>4, <1>5, <1>6, RequestAbortsStep, EndSessionStep,
     SchedulerCrashStep
     DEF Next

LEMMA Invariance == Spec => []IInv
BY InitIInv, StepIInv, PTL DEF Spec

\* The variables keep their types, the CHECK constraints of the tables, in every behaviour.
THEOREM ExamTypesHold == Spec => []TypeOK
<1>1. IInv => TypeOK
  BY DEF IInv
<1> QED BY <1>1, Invariance, PTL

\* However many starts of a problem run at once, a participation has one active session of
\* it: a start tests and inserts under the lock of the participation row.
THEOREM OneSessionPerProblem == Spec => []OneActiveSession
<1>1. IInv => OneActiveSession
  BY DEF IInv
<1> QED BY <1>1, Invariance, PTL

\* A session that the timeout ended belongs to an expired participation, and what was
\* submitted is the latest snapshot created in time among all that were stored while it
\* ran: the timeout chooses under the lock of the session, for which every insert of a
\* snapshot waits.  Those stored when the timeout is over are not submitted (`late`).
THEOREM TimeoutSubmitsTheWork == Spec => []TimeoutKeepsWork
<1>1. IInv => TimeoutKeepsWork
  <2> SUFFICES ASSUME IInv, NEW i \in Sessions, sess[i].by = "SYSTEM_EXAM_TIMEOUT"
               PROVE  /\ part[sess[i].student] = "EXPIRED"
                      /\ InTime(i) = {} => sess[i].code = {}
                      /\ InTime(i) # {} => \E c \in InTime(i) :
                            sess[i].code = {c} /\ \A d \in InTime(i) : d <= c
    BY DEF TimeoutKeepsWork
  <2>1. part[sess[i].student] = "EXPIRED" /\ sess[i].code = Latest(InTime(i))
    BY DEF IInv, TimeoutSubmits, TimeoutSnapshot
  <2>2. InTime(i) \in Moments
    BY DEF IInv, TypeOK, Session, Moments, InTime
  <2>3. InTime(i) = {} => Latest(InTime(i)) = {}
    BY DEF Latest
  <2> QED BY <2>1, <2>2, <2>3, LatestExists
<1> QED BY <1>1, Invariance, PTL

\* Nobody is timed out before the own deadline, however late the transactions of a tick
\* commit: whoever a tick lists was due at the time with which it works.
THEOREM TimeoutIsNeverEarly == Spec => []NobodyExpiresEarly
<1>1. IInv => NobodyExpiresEarly
  BY DEF IInv
<1> QED BY <1>1, Invariance, PTL

\* Most steps leave the participations, the exam and the ended sessions alone.
LEMMA QuietSteps ==
  ASSUME [Next]_vars
  PROVE  /\ \/ UNCHANGED part
            \/ CancelCommit \/ ExpireCommit
            \/ \E r \in Requests : JoinInsert(r) \/ FinalizeCommit(r)
         /\ \/ UNCHANGED exam
            \/ PublishCommit \/ CancelCommit \/ StartDueExams \/ EndExam
<1>1. CASE UNCHANGED vars
  BY <1>1 DEF vars
<1>2. CASE TimePasses \/ SchedulerCrash
  BY <1>2 DEF TimePasses, SchedulerCrash
<1>3. CASE OwnerStep
  BY <1>3 DEF OwnerStep, EditCheck, EditWrite, PublishLock, PublishCommit, CancelLock
<1>4. ASSUME NEW r \in Requests, RequestBegin(r) \/ RequestAborts(r)
      PROVE  UNCHANGED <<part, exam>>
  BY <1>4 DEF RequestBegin, JoinCheck, FinalizeLock, StartCheck, SnapshotCheck, SubmitLock,
              RequestAborts
<1>5. ASSUME NEW r \in Requests, RequestContinue(r)
      PROVE  UNCHANGED exam /\ (UNCHANGED part \/ JoinInsert(r) \/ FinalizeCommit(r))
  BY <1>5 DEF RequestContinue, JoinInsert, StartLock, StartInsert, SnapshotStamp,
     SnapshotInsert,
              SubmitWindow, SubmitCommit, FinalizeSession, FinalizeCommit
<1>6. ASSUME NEW i \in Sessions, EndSession(i) PROVE UNCHANGED <<part, exam>>
  BY <1>6 DEF EndSession
<1>7. CASE SchedulerStep
  BY <1>7 DEF SchedulerStep, TickBegin, StartDueExams, ListOverdue, ListAtEnd, ExpireLock,
              ExpireSession, ExpireCommit, EndExam
<1> QED BY <1>1, <1>2, <1>3, <1>4, <1>5, <1>6, <1>7 DEF Next

\* Finalize, timeout and cancel race for a participation and the first decides: the one
\* that holds the row found it in progress, and nobody else can have it.
THEOREM FirstOutcomeStands == Spec => ParticipationFinal
<1> DEFINE Final == \A s \in Students :
                      part[s] \notin {"NONE", "IN_PROGRESS"} => part'[s] = part[s]
<1>1. IInv /\ [Next]_vars => Final
  <2> SUFFICES ASSUME IInv, [Next]_vars PROVE Final
    OBVIOUS
  <2>1. CASE CancelCommit
    BY <2>1 DEF CancelCommit
  <2>2. CASE ExpireCommit
    BY <2>2 DEF ExpireCommit, IInv, ParticipationLocks, TypeOK
  <2>3. ASSUME NEW r \in Requests, JoinInsert(r) PROVE Final
    BY <2>3 DEF JoinInsert, IInv, TypeOK
  <2>4. ASSUME NEW r \in Requests, FinalizeCommit(r) PROVE Final
    BY <2>4 DEF FinalizeCommit, IInv, ParticipationLocks, TypeOK
  <2> QED BY <2>1, <2>2, <2>3, <2>4, QuietSteps
<1> QED BY <1>1, Invariance, PTL DEF Spec, ParticipationFinal

\* The exam only moves along its life cycle: publish and cancel hold the row whose status
\* they tested, and a late tick tests it again.
THEOREM ExamMovesForward == Spec => ExamForward
<1> DEFINE Forward == exam' # exam =>
             <<exam, exam'>> \in {<<"DRAFT", "SCHEDULED">>, <<"SCHEDULED", "ONGOING">>,
                                  <<"ONGOING", "ENDED">>, <<"DRAFT", "CANCELLED">>,
                                  <<"SCHEDULED", "CANCELLED">>}
<1>1. IInv /\ [Next]_vars => Forward
  <2> SUFFICES ASSUME IInv, [Next]_vars PROVE Forward
    OBVIOUS
  <2>1. CASE PublishCommit
    BY <2>1 DEF PublishCommit, IInv, OwnerHolds
  <2>2. CASE CancelCommit
    BY <2>2 DEF CancelCommit, IInv, OwnerHolds
  <2>3. CASE StartDueExams
    BY <2>3 DEF StartDueExams, StartDue
  <2>4. CASE EndExam
    BY <2>4 DEF EndExam
  <2> QED BY <2>1, <2>2, <2>3, <2>4, QuietSteps
<1> QED BY <1>1, Invariance, PTL DEF Spec, ExamForward

\* Submit, end, finalize and timeout race for a session and the first decides: who ended
\* it and what was submitted are never rewritten.
EndedSessionsStand ==
    [][\A i \in Sessions : sess[i].status = "ENDED" =>
         /\ sess'[i].status = "ENDED"
         /\ sess'[i].by = sess[i].by /\ sess'[i].code = sess[i].code]_vars

\* Whoever ends a session holds its row and found it active, so EndedSessionsStand holds.
THEOREM FirstEndStands == Spec => EndedSessionsStand
<1> DEFINE Stand == \A i \in Sessions : sess[i].status = "ENDED" =>
                      /\ sess'[i].status = "ENDED"
                      /\ sess'[i].by = sess[i].by /\ sess'[i].code = sess[i].code
<1>1. IInv /\ [Next]_vars => Stand
  <2> SUFFICES ASSUME IInv, [Next]_vars PROVE Stand
    OBVIOUS
  <2>1. sess \in [Sessions -> Session]
    BY DEF IInv, TypeOK
  <2>2. CASE UNCHANGED sess
    BY <2>2
  <2>3. ASSUME NEW I \in SUBSET Sessions, NEW source, NEW code,
               SessionsEnd(I, source, code), \A i \in I : sess[i].status = "ACTIVE"
        PROVE  Stand
    BY <2>3 DEF SessionsEnd
  <2>4. ASSUME NEW r \in Requests, StartInsert(r) PROVE Stand
    BY <2>4, <2>1 DEF StartInsert
  <2>5. ASSUME NEW r \in Requests, SnapshotInsert(r) PROVE Stand
    BY <2>5, <2>1 DEF SnapshotInsert, Session
  <2>6. ASSUME NEW r \in Requests, SubmitCommit(r) PROVE Stand
    <3>0. PICK c \in sess[req[r].session].snaps :
            sess' = Ended(sess, {req[r].session}, "STUDENT", [i \in Sessions |-> {c}])
      BY <2>6 DEF SubmitCommit
    <3>1. {req[r].session} \in SUBSET Sessions /\ sess[req[r].session].status = "ACTIVE"
      BY <2>6 DEF SubmitCommit, IInv, RequestsHold, SessionLocks, LocksSession
    <3>2. [i \in Sessions |-> {c}] \in [Sessions -> Moments]
      BY <2>1, <3>1 DEF Session, Moments
    <3>3. SessionsEnd({req[r].session}, "STUDENT", [i \in Sessions |-> {c}])
      BY <2>1, <3>0, <3>1, <3>2, EndedFacts
    <3> QED BY <2>3, <3>1, <3>3
  <2>7. ASSUME NEW r \in Requests, FinalizeCommit(r) PROVE Stand
    <3>1. /\ req[r].ending \in SUBSET Sessions
          /\ \A i \in req[r].ending : sess[i].status = "ACTIVE"
          /\ NoSubmission \in [Sessions -> Moments]
      BY <2>7 DEF IInv, TypeOK, Request, SessionLocks, LocksSession, Moments, NoSubmission
    <3>2. SessionsEnd(req[r].ending, "STUDENT", NoSubmission)
      BY <2>1, <2>7, <3>1, EndedFacts DEF FinalizeCommit
    <3> QED BY <2>3, <3>1, <3>2
  <2>8. CASE ExpireCommit
    <3>1. /\ sched.ending \in SUBSET Sessions
          /\ \A i \in sched.ending : sess[i].status = "ACTIVE"
          /\ sched.code \in [Sessions -> Moments]
      BY <2>8 DEF IInv, TypeOK, Tick, SessionLocks
    <3>2. SessionsEnd(sched.ending, "SYSTEM_EXAM_TIMEOUT", sched.code)
      BY <2>1, <2>8, <3>1, EndedFacts DEF ExpireCommit
    <3> QED BY <2>3, <3>1, <3>2
  <2>9. ASSUME NEW i \in Sessions, EndSession(i) PROVE Stand
    <3>1. /\ {i} \in SUBSET Sessions /\ sess[i].status = "ACTIVE"
          /\ NoSubmission \in [Sessions -> Moments]
      BY <2>9 DEF EndSession, Moments, NoSubmission
    <3>2. SessionsEnd({i}, "STUDENT", NoSubmission)
      BY <2>1, <2>9, <3>1, EndedFacts DEF EndSession
    <3> QED BY <2>3, <3>1, <3>2
  <2>10. CASE SchedulerStep
    BY <2>2, <2>8, <2>10 DEF SchedulerStep, TickBegin, StartDueExams, ListOverdue,
       ListAtEnd,
                             ExpireLock, ExpireSession, EndExam
  <2>11. CASE OwnerStep
    BY <2>2, <2>11 DEF OwnerStep, EditCheck, EditWrite, PublishLock, PublishCommit,
       CancelLock,
                       CancelCommit
  <2>12. ASSUME NEW r \in Requests, RequestBegin(r) \/ RequestAborts(r) PROVE Stand
    BY <2>2, <2>12 DEF RequestBegin, JoinCheck, FinalizeLock, StartCheck, SnapshotCheck,
                       SubmitLock, RequestAborts
  <2>13. ASSUME NEW r \in Requests, RequestContinue(r) PROVE Stand
    <3>1. \/ UNCHANGED sess \/ StartInsert(r) \/ SnapshotInsert(r) \/ SubmitCommit(r)
          \/ FinalizeCommit(r)
      BY <2>13 DEF RequestContinue, JoinInsert, StartLock, SnapshotStamp, SubmitWindow,
                   FinalizeSession
    <3> QED BY <2>2, <2>4, <2>5, <2>6, <2>7, <3>1
  <2>14. CASE TimePasses \/ SchedulerCrash \/ UNCHANGED vars
    BY <2>2, <2>14 DEF TimePasses, SchedulerCrash, vars
  <2> QED BY <2>9, <2>10, <2>11, <2>12, <2>13, <2>14 DEF Next
<1> QED BY <1>1, Invariance, PTL DEF Spec, EndedSessionsStand
=============================================================================

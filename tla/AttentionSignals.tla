--------------------------- MODULE AttentionSignals -------------------------
(***************************************************************************)
(* The whole cycle of the signal scheduler: SignalOutbox, and after it the *)
(* two rules that look at what students have run and saved.                *)
(* REPEATED_FAILURE: the last runs of a session all failed alike and its   *)
(* code hardly changed between them.  LOC_ANOMALY: a session's code is far *)
(* longer than that of the classmates who work on the same problem.  Code  *)
(* is its number of lines, and of two codes one begins with the other.     *)
(* All sessions are on one problem, each of a student of its own.          *)
(***************************************************************************)
EXTENDS SignalOutbox, Sequences, SequencesExt

CONSTANTS
    Lines,            (* bound: lengths of code                            *)
    MinAttempts,      (* SIGNAL_REPEATED_FAILURE_MIN_ATTEMPTS              *)
    MaxChangePercent, (* ..._MAX_CODE_CHANGE_RATIO                         *)
    MinCohort,        (* SIGNAL_LOC_MIN_COHORT_SIZE                        *)
    Multiplier,       (* SIGNAL_LOC_DEVIATION_MULTIPLIER                   *)
    Scenes            (* bound: what is looked at together: the sessions,  *)
                      (* whether they send events, how many snapshots and  *)
                      (* runs each has                                     *)

ASSUME RulesAssumption ==
    /\ Lines \subseteq Nat
    /\ {MinAttempts, MinCohort, Multiplier} \subseteq Nat \ {0}
    /\ MaxChangePercent \in Nat
    /\ \A x \in Scenes : x.sessions \subseteq Sessions

VARIABLES
    scene,    (* the scene chosen at the start                             *)
    snaps,    (* snaps[s]: code_snapshots of s, oldest first               *)
    runs,     (* runs[s]: runs of s, oldest first; changed: whether a      *)
              (* verdict of the run has been overwritten by another        *)
    enrolled, (* the sessions whose students are active in the class       *)
    pass      (* pass[w]: what scheduler w is at after the open tails      *)

rulesVars == <<scene, snaps, runs, enrolled, pass>>
allVars == <<vars, rulesVars>>

\* A verdict with the signature _normalize_error makes of it: of failures only whether
\* they are alike matters.
Outcomes == {"accepted", "failure A", "failure B"}
Run == [snap : Nat \ {0}, outcome : Outcomes \union {"none"}, changed : BOOLEAN]

NoPass == [pc |-> "off", todo |-> {}, median |-> 0, made |-> {}]

RulesInit ==
    \E x \in Scenes :
        /\ scene = x
        /\ Start(x.sessions)
        /\ snaps = [s \in Sessions |-> <<>>]
        /\ runs = [s \in Sessions |-> <<>>]
        /\ enrolled = x.sessions
        /\ pass = [w \in Schedulers |-> NoPass]

-----------------------------------------------------------------------------
(* Students, judge and teacher                                             *)

Save(s, n) ==
    /\ s \in active
    /\ Len(snaps[s]) < scene.snaps
    /\ snaps' = [snaps EXCEPT ![s] = Append(@, n)]
    /\ UNCHANGED <<vars, scene, runs, enrolled, pass>>

\* create_run, of a snapshot of the session.
RequestRun(s, snap) ==
    /\ s \in active
    /\ snap \in DOMAIN snaps[s]
    /\ Len(runs[s]) < scene.runs
    /\ runs' = [runs EXCEPT ![s] = Append(@, [snap |-> snap, outcome |-> "none",
                                                changed |-> FALSE])]
    /\ UNCHANGED <<vars, scene, snaps, enrolled, pass>>

\* The worker writes the result, of an old run perhaps after that of a new one.
JudgeRun(s, i, outcome) ==
    /\ runs[s][i].outcome = "none"
    /\ runs' = [runs EXCEPT ![s][i].outcome = outcome]
    /\ UNCHANGED <<vars, scene, snaps, enrolled, pass>>

\* The reconciler has reset a run that ended after it was listed as stale.  The verdict
\* stays until that of the second execution overwrites it; an equal one changes nothing.
JudgeAgain(s, i, outcome) ==
    /\ runs[s][i].outcome \notin {"none", outcome}
    /\ faults < MaxFaults
    /\ faults' = faults + 1
    /\ runs' = [runs EXCEPT ![s][i] = [@ EXCEPT !.outcome = outcome, !.changed = TRUE]]
    /\ UNCHANGED <<now, trace, active, outbox, signals, cycle, scene, snaps, enrolled, pass>>

\* The teacher takes the student out of the class.  Bound: only where code is compared.
Leave(s) ==
    /\ s \in enrolled
    /\ scene.runs = 0 /\ ~scene.events
    /\ enrolled' = enrolled \ {s}
    /\ UNCHANGED <<vars, scene, snaps, runs, pass>>

-----------------------------------------------------------------------------
(* The pass over the sessions with recent runs                             *)

Goes(w, p) ==
    /\ pass' = [pass EXCEPT ![w] = p]
    /\ UNCHANGED <<scene, snaps, runs, enrolled>>

\* Which of the sessions are recent depends on how long ago since_dt is.
ListRuns(w) ==
    /\ pass[w].pc = "runs"
    /\ \E S \in SUBSET {s \in Sessions : runs[s] # <<>>} :
         Goes(w, [NoPass EXCEPT !.pc = "failures", !.todo = S])
    /\ UNCHANGED vars

\* Mutant of LastRuns: runs without a verdict are passed over.
LastJudgedRuns(s) ==
    LET judged == {i \in DOMAIN runs[s] : runs[s][i].outcome # "none"}
    IN  {i \in judged : Cardinality({j \in judged : j > i}) < MinAttempts}

\* The last MinAttempts runs by time, whatever their state.
LastRuns(s) == {i \in DOMAIN runs[s] : i > Len(runs[s]) - MinAttempts}

\* _code_change_ratio above the limit, by lines; two empty codes are equal.
Distance(a, b) == IF a > b THEN a - b ELSE b - a
TooDifferent(a, b) == Distance(a, b) * 100 > MaxChangePercent * (a + b)

\* The runs I of a session have the same failure ...
FailedAlike(s, I) ==
    /\ \A i \in I : runs[s][i].outcome \notin {"none", "accepted"}
    /\ \A i, j \in I : runs[s][i].outcome = runs[s][j].outcome

\* ... and one after the other nearly the same code.
SimilarCode(s, I) ==
    \A i, j \in I :
        i < j /\ ~(\E k \in I : i < k /\ k < j)
            => ~TooDifferent(snaps[s][runs[s][i].snap], snaps[s][runs[s][j].snap])

\* evaluate_repeated_failure.
RepeatedFailure(s) ==
    {[rule |-> "FAILURE", session |-> s, of |-> Max(I), runs |-> I] :
        I \in {J \in {LastRuns(s)} : /\ Cardinality(J) >= MinAttempts
                                     /\ FailedAlike(s, J) /\ SimilarCode(s, J)}}

ReadRuns(w) ==
    LET p == pass[w]
        s == Min(p.todo)
    IN  /\ p.pc = "failures"
        /\ p.todo # {}
        /\ Goes(w, IF RepeatedFailure(s) = {} THEN [p EXCEPT !.todo = @ \ {s}]
                   ELSE [p EXCEPT !.pc = "insertFailure", !.made = RepeatedFailure(s)])
        /\ UNCHANGED vars

-----------------------------------------------------------------------------
(* The pass over the sessions with recent snapshots                        *)

ListSnapshots(w) ==
    /\ pass[w].pc = "failures"
    /\ pass[w].todo = {}
    /\ \E S \in SUBSET {s \in Sessions : snaps[s] # <<>>} :
         Goes(w, [NoPass EXCEPT !.pc = "cohort", !.todo = S])
    /\ UNCHANGED vars

\* Mutant of Classmates: the student is compared with himself too.
ClassmatesAndOneself(s) == IF s \in enrolled THEN enrolled ELSE {}

\* The other active students of the class, if the student is in it.
Classmates(s) == IF s \in enrolled THEN enrolled \ {s} ELSE {}

\* Twice the median of the numbers in a sequence.
TwiceMedian(q) ==
    LET sorted == SortSeq(q, <)
        n == Len(q)
    IN  sorted[(n + 1) \div 2] + sorted[(n + 2) \div 2]

\* The latest snapshot of each classmate's session.
Cohort(s) ==
    LET peers == {t \in Classmates(s) : snaps[t] # <<>>}
    IN  [i \in 1 .. Cardinality(peers) |-> Last(snaps[SetToSeq(peers)[i]])]

\* evaluate_loc_anomaly reads the cohort; too few say nothing ...
ReadCohort(w) ==
    LET p == pass[w]
        s == Min(p.todo)
    IN  /\ p.pc = "cohort"
        /\ p.todo # {}
        /\ Goes(w, IF Len(Cohort(s)) < MinCohort THEN [p EXCEPT !.todo = @ \ {s}]
                   ELSE [p EXCEPT !.pc = "own", !.median = TwiceMedian(Cohort(s))])
        /\ UNCHANGED vars

\* ... and then the session's own latest snapshot, which may be newer.
Anomaly(s, median) ==
    {[rule |-> "LINES", session |-> s, of |-> Len(snaps[s]), lines |-> Last(snaps[s]),
      median |-> m] : m \in {x \in {median} : x > 0 /\ 2 * Last(snaps[s]) > Multiplier * x}}

ReadOwn(w) ==
    LET p == pass[w]
        s == Min(p.todo)
        X == Anomaly(s, p.median)
    IN  /\ p.pc = "own"
        /\ Goes(w, IF X = {} THEN [p EXCEPT !.pc = "cohort", !.todo = @ \ {s}, !.median = 0]
                   ELSE [p EXCEPT !.pc = "insertLines", !.made = X, !.median = 0])
        /\ UNCHANGED vars

\* As for the tails, each insert is a transaction of its own.
InsertRuled(w) ==
    LET p == pass[w]
    IN  /\ p.pc \in {"insertFailure", "insertLines"}
        /\ signals' = signals \union {x \in p.made : Key(x) \notin Keys(signals)}
        /\ Goes(w, [p EXCEPT !.pc = IF @ = "insertLines" THEN "cohort" ELSE "failures",
                             !.todo = @ \ {Min(@)}, !.made = {}])
        /\ UNCHANGED <<now, trace, active, outbox, cycle, faults>>

EndPass(w) ==
    /\ pass[w].pc = "cohort"
    /\ pass[w].todo = {}
    /\ Goes(w, NoPass)
    /\ UNCHANGED vars

\* The store does not answer, or an error is caught: no signal for this session.
PassOverRuled(w) ==
    LET p == pass[w]
    IN  /\ p.pc \notin {"off", "runs"}
        /\ p.todo # {}
        /\ faults < MaxFaults
        /\ faults' = faults + 1
        /\ Goes(w, [p EXCEPT !.pc = IF @ \in {"failures", "insertFailure"} THEN "failures"
                                                                          ELSE "cohort",
                             !.todo = @ \ {Min(@)}, !.median = 0, !.made = {}])
        /\ UNCHANGED <<now, trace, active, outbox, signals, cycle>>

\* The process dies in the middle; the next one begins with the outbox.
Dies(w) ==
    /\ pass[w].pc # "off"
    /\ faults < MaxFaults
    /\ faults' = faults + 1
    /\ Goes(w, NoPass)
    /\ UNCHANGED <<now, trace, active, outbox, signals, cycle>>

-----------------------------------------------------------------------------

\* The cycle of SignalOutbox goes on with the passes, and starts again after them.
\* Bound: where no session has snapshots the passes, which find nothing, are left out.
OutboxCycle(w) ==
    /\ pass[w].pc = "off"
    /\ \/ (Work(w) \/ PassOver(w) \/ Abort(w)) /\ UNCHANGED rulesVars
       \/ Sleep(w) /\ Goes(w, [NoPass EXCEPT !.pc = IF scene.snaps = 0 THEN "off" ELSE "runs"])

Passes(w) ==
    \/ ListRuns(w) \/ ReadRuns(w) \/ ListSnapshots(w) \/ ReadCohort(w) \/ ReadOwn(w)
    \/ InsertRuled(w) \/ EndPass(w) \/ PassOverRuled(w) \/ Dies(w)

RulesNext ==
    \/ scene.events /\ (Tick \/ Students) /\ UNCHANGED rulesVars
    \/ \E s \in Sessions :
         \/ \E n \in Lines : Save(s, n)
         \/ \E snap \in DOMAIN snaps[s] : RequestRun(s, snap)
         \/ \E i \in DOMAIN runs[s], outcome \in Outcomes :
              JudgeRun(s, i, outcome) \/ JudgeAgain(s, i, outcome)
         \/ Leave(s)
    \/ \E w \in Schedulers : OutboxCycle(w) \/ Passes(w)

RulesSpec == RulesInit /\ [][RulesNext]_allVars

-----------------------------------------------------------------------------
(* Properties                                                              *)

\* Twice the median of a cohort that could have been seen: of some of the others one
\* snapshot each, at least MinCohort of them.
PossibleMedian(s, m) ==
    \E T \in SUBSET (Sessions \ {s}) :
        /\ Cardinality(T) >= MinCohort
        /\ \E f \in [T -> Lines] :
             /\ \A t \in T : \E i \in DOMAIN snaps[t] : snaps[t][i] = f[t]
             /\ m = TwiceMedian([i \in 1 .. Cardinality(T) |-> f[SetToSeq(T)[i]]])

\* What a signal accuses a student of stays true, though runs are judged in any order,
\* snapshots are saved and students leave while the rules are looked at: the runs of a
\* repeated failure follow each other without another between them, their code is alike,
\* and all failed alike but those whose verdict was overwritten by another when they
\* were executed again; code is measured against others' only (docs/33 sections 4.3 and
\* 4.4), and the first edit is the first wherever the edits of a session arrived in order.
EvidenceIsTrue ==
    \A x \in signals :
        /\ x.rule = "FAILURE" =>
             /\ x.runs = x.of - MinAttempts + 1 .. x.of
             /\ SimilarCode(x.session, x.runs)
             /\ FailedAlike(x.session, {i \in x.runs : ~runs[x.session][i].changed})
        /\ x.rule = "LINES" =>
             /\ x.lines = snaps[x.session][x.of]
             /\ PossibleMedian(x.session, x.median)
             /\ 2 * x.lines > Multiplier * x.median
        /\ x.rule = "FAST" =>
             \/ \E e \in FirstEdit(x.session) : e.n = x.of
             \/ \E e, f \in Edits(x.session) : e.n < f.n /\ e.at >= f.at
=============================================================================

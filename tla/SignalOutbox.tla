---------------------------- MODULE SignalOutbox ----------------------------
(***************************************************************************)
(* IDLE_DETECTED and FAST_FIRST_CODE signals: from the trace events of the *)
(* students, over the outbox a trigger fills, to the attention signals of  *)
(* the teacher.  Each scheduler process repeats a cycle: the closed gaps of*)
(* the outbox in one transaction, then the open tail and the first edit of *)
(* every active session, one transaction per signal.  AttentionSignals adds*)
(* the rest of the cycle.  Any client may send events in any order, as the *)
(* ingest endpoint allows; TraceRecording says what the recorder sends.    *)
(***************************************************************************)
EXTENDS Integers, FiniteSets, FiniteSetsExt

CONSTANTS
    Sessions,      (* coding sessions, named by their ids, which are ordered *)
    MaxSeq,        (* MaxSeq[s]: bound on the numbers of a session's events  *)
    Schedulers,    (* scheduler processes                                   *)
    Threshold,     (* idle_threshold_seconds, in ticks                      *)
    FastThreshold, (* SIGNAL_FAST_FIRST_CODE_THRESHOLD_SECONDS, in ticks;   *)
                   (* below zero, the rule finds nothing                    *)
    TicksPerSecond,
    BatchSessions, (* sessions one outbox transaction claims                *)
    ChunkLimit,    (* outbox rows of a session in one transaction           *)
    MaxTime,       (* bound: ticks of the clock                             *)
    MaxFaults      (* bound: cycles that fail or processes that crash       *)

ASSUME OutboxAssumption ==
    /\ Sessions \subseteq Nat
    /\ IsFiniteSet(Sessions)
    /\ MaxSeq \in [Sessions -> Nat]
    /\ {Threshold, TicksPerSecond, BatchSessions, ChunkLimit} \subseteq Nat \ {0}
    /\ FastThreshold \in Int
    /\ {MaxTime, MaxFaults} \subseteq Nat

VARIABLES
    now,      (* the clock                                                 *)
    trace,    (* trace[s]: trace_events of session s                       *)
    active,   (* the sessions that are ACTIVE                              *)
    outbox,   (* outbox[s]: numbers of the pending trace_signal_outbox rows *)
    signals,  (* attention_signals                                         *)
    cycle,    (* cycle[w]: what scheduler w is at                          *)
    faults

vars == <<now, trace, active, outbox, signals, cycle, faults>>

\* A meaningful event is an edit or a submission; a checkpoint is not.  Bound: no run is
\* requested, which would count as an edit does, but for the first edit.
Event == [n : Nat \ {0}, kind : {"edit", "submission", "other"}, at : Nat]
Numbers(s) == {e.n : e \in trace[s]}
Meaningful(s) == {e \in trace[s] : e.kind # "other"}

\* Mutant of Highest: no check for missing numbers.
HighestAny(s) == Max({0} \union Numbers(s))

\* The last number below which none is missing.
Highest(s) == Max({0} \union {n \in Numbers(s) : 1 .. n \subseteq Numbers(s)})

\* A signal and its evidence: the time from .. to, the number of the event before it
\* (0: the opening of the session) and of the one that closed it (0: none, the open
\* tail).  It is about the window of an idle time, or about the first edit; the key
\* of an idle signal has the start of the time as well, cut to the second.
Signal == [rule : {"IDLE", "FAST"}, session : Sessions, of : Nat \ {0},
           from : Nat, to : Nat, before : Nat, closing : Nat]
Key(x) == <<x.rule, x.session, x.of, IF x.rule = "IDLE" THEN x.from \div TicksPerSecond ELSE 0>>
Keys(X) == {Key(x) : x \in X}

IdleCycle == [pc |-> "asleep", todo |-> {}, held |-> {}, prefix |-> 0,
              made |-> {}, done |-> {}]

\* todo: sessions still to look at; held: row locks; made, done: the signals this
\* transaction has inserted and the outbox rows <<s, n>> it has deleted.
Cycle == [pc : {"asleep", "claim", "prefix", "chunk", "commit", "tail", "look", "insert",
                "first", "insertFirst"},
          todo : SUBSET Sessions, held : SUBSET Sessions, prefix : Nat,
          made : SUBSET Signal, done : SUBSET (Sessions \X Nat)]

\* The sessions of A have just been opened.
Start(A) ==
    /\ now = 0
    /\ trace = [s \in Sessions |-> {}]
    /\ active = A
    /\ outbox = [s \in Sessions |-> {}]
    /\ signals = {}
    /\ cycle = [w \in Schedulers |-> IdleCycle]
    /\ faults = 0

Init == Start(Sessions)

-----------------------------------------------------------------------------
(* The students                                                            *)

Tick ==
    /\ now < MaxTime
    /\ now' = now + 1
    /\ UNCHANGED <<trace, active, outbox, signals, cycle, faults>>

Stored(s, e) ==
    /\ trace' = [trace EXCEPT ![s] = @ \union {e}]
    /\ outbox' = [outbox EXCEPT ![s] = IF e.kind # "other" THEN @ \union {e.n} ELSE @]

\* An event is stored; the trigger adds its outbox row in the same transaction.
\* The key-share lock of the ingest does not wait for a scheduler.
Ingest(s, n, kind) ==
    /\ s \in active
    /\ n \in 1 .. MaxSeq[s] \ Numbers(s)
    /\ Stored(s, [n |-> n, kind |-> kind, at |-> now])
    /\ UNCHANGED <<now, active, signals, cycle, faults>>

\* The session ends; a submission appends SUBMISSION_CREATED, an end without one
\* SESSION_ENDED, behind the highest number.  It locks the row, so it waits for a
\* scheduler that holds the session.
EndSession(s, submitted) ==
    LET n == 1 + Max({0} \union Numbers(s))
    IN  /\ s \in active
        /\ \A w \in Schedulers : s \notin cycle[w].held
        /\ active' = active \ {s}
        /\ Stored(s, [n |-> n, kind |-> IF submitted THEN "submission" ELSE "other", at |-> now])
        /\ UNCHANGED <<now, signals, cycle, faults>>

-----------------------------------------------------------------------------
(* The outbox transaction of a scheduler                                   *)

Locked == UNION {cycle[w].held : w \in Schedulers}
First(S, k) == {x \in S : Cardinality({y \in S : y < x}) < k}

\* The claim reads which sessions have pending rows ...
Wake(w) ==
    /\ cycle[w].pc = "asleep"
    /\ cycle' = [cycle EXCEPT ![w] =
          [IdleCycle EXCEPT !.pc = "claim", !.todo = {s \in Sessions : outbox[s] # {}}]]
    /\ UNCHANGED <<now, trace, active, outbox, signals, faults>>

\* ... and then locks the first of them, those that another scheduler has locked
\* left out.  The rows of one may be gone by now.
Claim(w) ==
    /\ cycle[w].pc = "claim"
    /\ LET claimed == First(cycle[w].todo \ Locked, BatchSessions)
       IN  cycle' = [cycle EXCEPT ![w] =
              [IdleCycle EXCEPT !.pc = IF claimed = {} THEN "tail" ELSE "prefix",
                                !.todo = claimed, !.held = claimed]]
    /\ UNCHANGED <<now, trace, active, outbox, signals, faults>>

\* The next session of the claim, or the commit after the last.
Advance(c) == [c EXCEPT !.todo = @ \ {Min(@)},
                     !.pc = IF c.todo = {Min(c.todo)} THEN "commit" ELSE "prefix"]

ReadPrefix(w) ==
    LET c == cycle[w]
        highest == Highest(Min(c.todo))
    IN  /\ c.pc = "prefix"
        /\ cycle' = [cycle EXCEPT ![w] =
              IF highest < 1 THEN Advance(c) ELSE [c EXCEPT !.pc = "chunk", !.prefix = highest]]
        /\ UNCHANGED <<now, trace, active, outbox, signals, faults>>

Pending(s, prefix) == First({n \in outbox[s] : n <= prefix}, ChunkLimit)
EventOf(s, n) == CHOOSE e \in trace[s] : e.n = n

\* The meaningful event before number n, or the opening of the session.
Predecessor(s, n) ==
    LET earlier == {e \in Meaningful(s) : e.n < n}
    IN  IF earlier = {} THEN [n |-> 0, kind |-> "other", at |-> 0]
        ELSE CHOOSE e \in earlier : \A f \in earlier : f.n <= e.n

\* Mutant of Commit: rows of the outbox that came in meanwhile are deleted too.
CommitClearsOutbox(w) ==
    /\ cycle[w].pc = "commit"
    /\ signals' = signals \union cycle[w].made
    /\ outbox' = [s \in Sessions |-> IF s \in cycle[w].held THEN {} ELSE outbox[s]]
    /\ cycle' = [cycle EXCEPT ![w] = [IdleCycle EXCEPT !.pc = "tail"]]
    /\ UNCHANGED <<now, trace, active, faults>>

\* Mutant of ClosedGap: the window is counted as the tail counts it.
ClosedGapLastWindow(s, n) ==
    LET e == EventOf(s, n)
        p == Predecessor(s, n)
    IN  {x \in {[rule |-> "IDLE", session |-> s, of |-> (e.at - p.at) \div Threshold,
                 from |-> p.at, to |-> e.at, before |-> p.n, closing |-> n]} :
            e.at > p.at /\ e.at - p.at >= Threshold}

\* evaluate_historical_idle_gaps: an idle gap that event n has closed.
ClosedGap(s, n) ==
    LET e == EventOf(s, n)
        p == Predecessor(s, n)
    IN  {x \in {[rule |-> "IDLE", session |-> s, of |-> 1,
                 from |-> p.at, to |-> e.at, before |-> p.n, closing |-> n]} :
            e.at > p.at /\ e.at - p.at >= Threshold}

\* Mutant of Deduplicated: the insert is not guarded by the key.
AlwaysInserted(X, taken) == X

\* The signals with a new key; of several with one key the first one stays.
Deduplicated(X, taken) ==
    {x \in X : /\ Key(x) \notin Keys(taken)
               /\ \A y \in X : Key(y) = Key(x) => x.closing <= y.closing}

\* ON CONFLICT waits for another transaction that has inserted the key.
MayInsert(w, X) ==
    \A v \in Schedulers \ {w} :
        cycle[v].pc \in {"prefix", "chunk", "commit"}
            => Keys(cycle[v].made) \intersect Keys(X) = {}

EvaluateChunk(w) ==
    LET c == cycle[w]
        s == Min(c.todo)
        chunk == Pending(s, c.prefix)
        gaps == UNION {ClosedGap(s, n) : n \in chunk}
    IN  /\ c.pc = "chunk"
        /\ MayInsert(w, gaps)
        /\ cycle' = [cycle EXCEPT ![w] =
              [Advance(c) EXCEPT !.made = @ \union Deduplicated(gaps, signals \union @),
                              !.done = @ \union ({s} \X chunk)]]
        /\ UNCHANGED <<now, trace, active, outbox, signals, faults>>

Commit(w) ==
    /\ cycle[w].pc = "commit"
    /\ signals' = signals \union cycle[w].made
    /\ outbox' = [s \in Sessions |-> {n \in outbox[s] : <<s, n>> \notin cycle[w].done}]
    /\ cycle' = [cycle EXCEPT ![w] = [IdleCycle EXCEPT !.pc = "tail"]]
    /\ UNCHANGED <<now, trace, active, faults>>

\* An error or a crash rolls the open transaction back; the next cycle starts anew.
Abort(w) ==
    /\ cycle[w].pc # "asleep"
    /\ faults < MaxFaults
    /\ faults' = faults + 1
    /\ cycle' = [cycle EXCEPT ![w] = IdleCycle]
    /\ UNCHANGED <<now, trace, active, outbox, signals>>

-----------------------------------------------------------------------------
(* The active sessions: the open tail and the first edit of each           *)

\* The active sessions are listed before any of them is looked at.
ListTails(w) ==
    /\ cycle[w].pc = "tail"
    /\ cycle' = [cycle EXCEPT ![w] = [@ EXCEPT !.pc = "look", !.todo = active]]
    /\ UNCHANGED <<now, trace, active, outbox, signals, faults>>

\* The latest meaningful event by the clock; numbers say nothing here.
Latest(s) ==
    {e \in Meaningful(s) : \A f \in Meaningful(s) : f.at <= e.at}

\* evaluate_idle_detected: the idle time since e, in whole windows.
OpenTail(s, e) ==
    {x \in {[rule |-> "IDLE", session |-> s, of |-> (now - e.at) \div Threshold,
             from |-> e.at, to |-> now, before |-> e.n, closing |-> 0]} :
        x.of >= 1}

\* With a signal to insert, or without one.
Evaluated(c, X, insert, otherwise) ==
    IF X = {} THEN otherwise ELSE [c EXCEPT !.pc = insert, !.made = X]

ToFirst(c) == [c EXCEPT !.pc = "first", !.made = {}]
NextSession(c) == [c EXCEPT !.pc = "look", !.todo = @ \ {Min(@)}, !.made = {}]

LookAtTail(w) ==
    LET c == cycle[w]
        s == Min(c.todo)
        opened == [n |-> 0, kind |-> "other", at |-> 0]
    IN  /\ c.pc = "look"
        /\ c.todo # {}
        /\ \E e \in IF Latest(s) = {} THEN {opened} ELSE Latest(s) :
             cycle' = [cycle EXCEPT ![w] =
                Evaluated(c, OpenTail(s, e), "insert", ToFirst(c))]
        /\ UNCHANGED <<now, trace, active, outbox, signals, faults>>

\* A session that has ended since the listing has no open tail.
NoTail(w) ==
    /\ cycle[w].pc = "look"
    /\ cycle[w].todo # {}
    /\ Min(cycle[w].todo) \notin active
    /\ cycle' = [cycle EXCEPT ![w] = ToFirst(@)]
    /\ UNCHANGED <<now, trace, active, outbox, signals, faults>>

\* evaluate_fast_first_code: the first edit by number, if it came soon after the opening.
Edits(s) == {e \in trace[s] : e.kind = "edit"}
FirstEdit(s) == {e \in Edits(s) : \A f \in Edits(s) : e.n <= f.n}
FastFirst(s) ==
    {[rule |-> "FAST", session |-> s, of |-> e.n, from |-> 0, to |-> e.at,
      before |-> 0, closing |-> e.n] : e \in {f \in FirstEdit(s) : f.at <= FastThreshold}}

LookAtFirst(w) ==
    LET c == cycle[w]
    IN  /\ c.pc = "first"
        /\ cycle' = [cycle EXCEPT ![w] =
              Evaluated(c, FastFirst(Min(c.todo)), "insertFirst", NextSession(c))]
        /\ UNCHANGED <<now, trace, active, outbox, signals, faults>>

\* The insert of one signal commits at once; what it has seen may be old.
InsertSeen(w) ==
    LET c == cycle[w]
    IN  /\ c.pc \in {"insert", "insertFirst"}
        /\ MayInsert(w, c.made)
        /\ signals' = signals \union Deduplicated(c.made, signals)
        /\ cycle' = [cycle EXCEPT ![w] = IF c.pc = "insert" THEN ToFirst(c) ELSE NextSession(c)]
        /\ UNCHANGED <<now, trace, active, outbox, faults>>

\* An error is caught, and the cycle goes on with the next rule or session.
PassOver(w) ==
    LET c == cycle[w]
    IN  /\ c.pc \in {"look", "insert", "first", "insertFirst"}
        /\ c.todo # {}
        /\ faults < MaxFaults
        /\ faults' = faults + 1
        /\ cycle' = [cycle EXCEPT ![w] =
              IF c.pc \in {"look", "insert"} THEN ToFirst(c) ELSE NextSession(c)]
        /\ UNCHANGED <<now, trace, active, outbox, signals>>

Sleep(w) ==
    /\ cycle[w].pc = "look"
    /\ cycle[w].todo = {}
    /\ cycle' = [cycle EXCEPT ![w] = IdleCycle]
    /\ UNCHANGED <<now, trace, active, outbox, signals, faults>>

-----------------------------------------------------------------------------

Work(w) ==
    \/ Wake(w) \/ Claim(w) \/ ReadPrefix(w) \/ EvaluateChunk(w) \/ Commit(w)
    \/ ListTails(w) \/ LookAtTail(w) \/ NoTail(w) \/ LookAtFirst(w) \/ InsertSeen(w)

RunScheduler(w) == Work(w) \/ Sleep(w)

Students ==
    \E s \in Sessions :
        \/ \E n \in 1 .. MaxSeq[s], kind \in {"edit", "other"} : Ingest(s, n, kind)
        \/ \E submitted \in BOOLEAN : EndSession(s, submitted)

Next ==
    \/ Tick
    \/ Students
    \/ \E w \in Schedulers : RunScheduler(w) \/ PassOver(w) \/ Abort(w)

Spec == Init /\ [][Next]_vars

-----------------------------------------------------------------------------
(* Properties                                                              *)

\* An event whose outbox row is gone has had its gap evaluated: when it closed an
\* idle gap, the first window of that gap is among the signals, found by the outbox
\* or by the tail before it.  Nothing is lost by a crash, by two schedulers on one
\* session, by rows claimed and taken meanwhile, or by events that arrive in any order.
NoGapForgotten ==
    \A s \in Sessions : \A e \in Meaningful(s) :
        e.n \notin outbox[s] =>
            \A x \in ClosedGap(s, e.n) : Key(x) \in Keys(signals)

\* The evidence of a closed gap stays true (docs/33 section 4.1): no event that
\* arrives later falls between the event before the gap and the one that closed it,
\* for nothing is evaluated above a missing number.
GapEvidenceTrue ==
    \A x \in signals :
        x.rule = "IDLE" /\ x.closing # 0 => x \in ClosedGap(x.session, x.closing)

\* Where the events of a session arrived in order, alerts about overlapping times are
\* windows of one idle time, each alerted of once, and those after the first are the
\* tail's: the outbox does not count again what the tail has alerted of as the first
\* window (docs/33 section 4.1).  A tail that comes too late for the first window leaves
\* it to the outbox, and then two alerts cover the time.
InOrder(s) == \A e, f \in trace[s] : e.n < f.n => e.at <= f.at
Overlap(x, y) == ~(x.to <= y.from \/ y.to <= x.from)
OneAlertPerWindow ==
    \A x, y \in {z \in signals : z.rule = "IDLE"} :
        /\ x # y
        /\ x.session = y.session
        /\ InOrder(x.session)
        /\ Overlap(x, y)
        => /\ x.from = y.from
           /\ x.of # y.of
           /\ x.of > 1 => x.closing = 0

\* A signal keeps the evidence it was written with, and one key names one signal.
EvidenceImmutable ==
    [][/\ signals \subseteq signals'
       /\ \A x, y \in signals' : Key(x) = Key(y) => x = y]_vars

=============================================================================

--------------------------- MODULE TraceRecording ---------------------------
(***************************************************************************)
(* The trace of one coding session: the recorder in the browser, the       *)
(* IndexedDB store it writes to before it sends, the network, the ingest   *)
(* endpoint, and what ends the session.  A life is one opening of the      *)
(* recorder; a reload, a crash or an unmount ends it, and the next one     *)
(* goes on from the store.  With Web Locks one life records at a time.     *)
(* Every action runs between two awaits of the recorder, or is one         *)
(* transaction of the server.  Timers (batch delay, backoff) are free.     *)
(***************************************************************************)
EXTENDS Naturals, FiniteSets, FiniteSetsExt

CONSTANTS
    Lives,        (* bound: openings of the recorder                       *)
    MaxSeq,       (* bound: numbers the recorder gives out; one less where  *)
                  (* the browser is not orderly                            *)
    MaxBatch,     (* events of a request                                   *)
    StoreMayFail, (* whether a write to IndexedDB may fail                 *)
    Orderly,      (* bound: the values of orderly to check                  *)
    None

ASSUME SizesAssumption ==
    /\ {MaxSeq, MaxBatch} \subseteq Nat \ {0}
    /\ {StoreMayFail} \union Orderly \subseteq BOOLEAN

ASSUME NamesAssumption ==
    /\ Lives \intersect {"opened", "submitted", "ended"} = {}
    /\ None \notin Nat

VARIABLES
    trace,        (* trace_events of the session                           *)
    ended,        (* the session has left ACTIVE                           *)
    store,        (* IndexedDB: events not acknowledged yet                *)
    acked,        (* IndexedDB: acked_through, None without session row    *)
    rec,          (* rec[l]: the recorder of life l                        *)
    late,         (* batches nobody waits for that may still arrive        *)
    durable,      (* every event ever written to IndexedDB (history)       *)
    orderly       (* bound, fixed: the browser has Web Locks, and an       *)
                  (* unmount finds no write and no request under way       *)

moving == <<trace, ended, store, acked, rec, late, durable>>
vars == <<trace, ended, store, acked, rec, late, durable, orderly>>

\* An event is its number and its fingerprint: "opened" is PROBLEM_OPENED,
\* the same in every life; what is typed differs from life to life.
Number == 1 .. MaxSeq + 2
ClientEvent == [n : Number, c : Lives \union {"opened"}]
ServerEvent == [n : Number, c : {"submitted", "ended"}]
Event(n, c) == [n |-> n, c |-> c]

Numbers(E) == {e.n : e \in E}
Top(E) == Max(Numbers(E) \union {0})

\* highest_contiguous_sequence: the last number that equals its row number, that
\* is, below which none is missing.
Highest(E) == Max({0} \union {n \in Numbers(E) : 1 .. n \subseteq Numbers(E)})

Phase == {"idle", "sending", "retrying", "closed", "failed", "auth"}
Stopped == {"closed", "failed", "auth"}

\* pc: how far opening is; got: what the server answered; call: the request the
\* recorder awaits; ask: a submit or end, as far as the student got with it; last: the
\* last number when its flush ended.
Recorder == [
    pc : {"unused", "opening", "loaded", "asked", "open", "disposed", "gone"},
    next : 1 .. MaxSeq + 3, queue : SUBSET ClientEvent,
    tried : 0 .. MaxSeq + 2, persisted : 0 .. MaxSeq + 2,
    phase : Phase, call : {"none", "sent", "stored", "answered", "closed", "conflict", "denied"},
    batch : SUBSET ClientEvent, got : 0 .. MaxSeq + 3,
    ask : {"none", "flush", "snapshot", "submit", "end", "done"}, last : 0 .. MaxSeq + 2]

NewRecorder == [
    pc |-> "unused", next |-> 1, queue |-> {}, tried |-> 0, persisted |-> 0,
    phase |-> "idle", call |-> "none", batch |-> {}, got |-> 0,
    ask |-> "none", last |-> 0]

Init ==
    /\ trace = {}
    /\ ended = FALSE
    /\ store = {}
    /\ acked = None
    /\ rec = [l \in Lives |-> NewRecorder]
    /\ late = {}
    /\ durable = {}
    /\ orderly \in Orderly

-----------------------------------------------------------------------------
(* Opening the recorder (init)                                             *)

HoldsLock(l) == rec[l].pc \in {"opening", "loaded", "asked", "open"}

\* The page found the session ACTIVE and got the tab lock, which a browser without
\* Web Locks grants to every tab; the session row is read, or written if it is not
\* there (getMeta, putMeta).
Open(l) ==
    /\ rec[l].pc = "unused"
    /\ ~ ended
    /\ orderly => \A m \in Lives : ~ HoldsLock(m)
    /\ LET known == IF acked = None THEN 0 ELSE acked
       IN  /\ acked' = known
           /\ rec' = [rec EXCEPT ![l].pc = "opening", ![l].next = known + 1]
    /\ UNCHANGED <<trace, ended, store, late, durable>>

\* pending: the queue is what is in the store.
Load(l) ==
    /\ rec[l].pc = "opening"
    /\ rec' = [rec EXCEPT ![l].pc = "loaded", ![l].queue = store,
                          ![l].tried = Top(store), ![l].persisted = Top(store)]
    /\ UNCHANGED <<trace, ended, store, acked, late, durable>>

\* getState: next_expected_sequence, or 1 when the server cannot be reached.
AskState(l) ==
    /\ rec[l].pc = "loaded"
    /\ \E answer \in {Highest(trace) + 1, 1} :
         rec' = [rec EXCEPT ![l].pc = "asked", ![l].got = answer]
    /\ UNCHANGED <<trace, ended, store, acked, late, durable>>

\* Mutant: numbering goes on above the server's answer and acked_through only.
FinishOpenAboveServer(l) ==
    /\ rec[l].pc = "asked"
    /\ LET first == Max({rec[l].got, rec[l].next})
           fresh == first = 1 /\ rec[l].queue = {}
       IN  rec' = [rec EXCEPT ![l].pc = "open", ![l].got = 0,
                              ![l].next = IF fresh THEN 2 ELSE first,
                              ![l].queue = IF fresh THEN {Event(1, "opened")} ELSE @]
    /\ UNCHANGED <<trace, ended, store, acked, late, durable>>

\* Numbering goes on above all three; a session without events begins with
\* PROBLEM_OPENED.
FinishOpen(l) ==
    /\ rec[l].pc = "asked"
    /\ LET first == Max({rec[l].got, rec[l].persisted + 1, rec[l].next})
           fresh == first = 1
       IN  rec' = [rec EXCEPT ![l].pc = "open", ![l].got = 0,
                              ![l].next = IF fresh THEN 2 ELSE first,
                              ![l].queue = IF fresh THEN {Event(1, "opened")} ELSE @]
    /\ UNCHANGED <<trace, ended, store, acked, late, durable>>

-----------------------------------------------------------------------------
(* Recording and writing down                                              *)

Record(l) ==
    /\ rec[l].pc = "open"
    /\ rec[l].phase \notin {"closed", "failed"}
    /\ rec[l].next <= IF orderly THEN MaxSeq ELSE MaxSeq - 1
    /\ rec' = [rec EXCEPT ![l].queue = @ \union {Event(rec[l].next, l)}, ![l].next = @ + 1]
    /\ UNCHANGED <<trace, ended, store, acked, late, durable>>

\* Mutant: the puts are not chained.
AnyToWrite(l) == {e \in rec[l].queue : e.n > rec[l].tried}

\* The writes chain: one put after the other, in the order recorded, also for a
\* recorder that has stopped or was disposed of.
NextToWrite(l) ==
    {e \in rec[l].queue : /\ e.n > rec[l].tried
                          /\ \A f \in rec[l].queue : f.n > rec[l].tried => e.n <= f.n}

Persist(l) ==
    /\ rec[l].pc \in {"open", "disposed"}
    /\ \E e \in NextToWrite(l) :
         /\ store' = {f \in store : f.n # e.n} \union {e}
         /\ durable' = durable \union {e}
         /\ rec' = [rec EXCEPT ![l].tried = e.n, ![l].persisted = e.n]
    /\ UNCHANGED <<trace, ended, acked, late>>

\* stop("failed"); the puts behind it in the chain still run.
PersistFails(l) ==
    /\ StoreMayFail
    /\ rec[l].pc \in {"open", "disposed"}
    /\ \E e \in NextToWrite(l) :
         rec' = [rec EXCEPT ![l].tried = e.n, ![l].phase = "failed",
                            ![l].ask = IF @ = "flush" THEN "none" ELSE @]
    /\ UNCHANGED <<trace, ended, store, acked, late, durable>>

-----------------------------------------------------------------------------
(* Sending                                                                 *)

\* Mutant: also events whose put has not returned.
BatchOfQueue(l) ==
    LET R == rec[l].queue
    IN  {e \in R : Cardinality({f \in R : f.n < e.n}) < MaxBatch}

\* The first MaxBatch events that are written down.
ReadyBatch(l) ==
    LET R == {e \in rec[l].queue : e.n <= rec[l].persisted}
    IN  {e \in R : Cardinality({f \in R : f.n < e.n}) < MaxBatch}

\* Mutant: a failed request is not sent again.
MaySendOnce(l) ==
    /\ rec[l].pc = "open"
    /\ rec[l].phase \in {"idle", "sending"}
    /\ ReadyBatch(l) # {}

MaySend(l) ==
    /\ rec[l].pc = "open"
    /\ rec[l].phase \notin Stopped
    /\ ReadyBatch(l) # {}

\* One request in flight per recorder (pump, run).
Send(l) ==
    /\ MaySend(l)
    /\ rec[l].call = "none"
    /\ rec' = [rec EXCEPT ![l].call = "sent", ![l].phase = "sending", ![l].batch = ReadyBatch(l)]
    /\ UNCHANGED <<trace, ended, store, acked, late, durable>>

\* The keepalive request of pagehide: nobody waits for its answer.
Beacon(l) ==
    /\ MaySend(l)
    /\ late' = late \union {ReadyBatch(l)}
    /\ UNCHANGED <<trace, ended, store, acked, rec, durable>>

\* Mutant: everything written down, also what was written since the request.
ThroughPersisted(l) == rec[l].persisted

\* What an answer acknowledges: no more than was sent.
AckedThrough(l) == Min({Top(rec[l].batch), rec[l].got})

\* run after an answer of 200: delete what is acknowledged, or stop at a gap.
Receive(l) ==
    /\ rec[l].call = "answered"
    /\ LET through == AckedThrough(l)
           left == {e \in rec[l].queue : e.n > through}
           idle == {e \in left : e.n <= rec[l].persisted} = {}
       IN  IF \A e \in rec[l].batch : through < e.n
           THEN /\ rec' = [rec EXCEPT ![l].call = "none", ![l].batch = {}, ![l].got = 0,
                                      ![l].phase = "failed",
                                      ![l].ask = IF @ = "flush" THEN "none" ELSE @]
                /\ UNCHANGED <<store, acked>>
           ELSE /\ store' = {e \in store : e.n > through}
                /\ acked' = IF acked # None /\ acked < through THEN through ELSE acked
                /\ rec' = [rec EXCEPT ![l].call = "none", ![l].batch = {}, ![l].got = 0,
                                      ![l].queue = left,
                                      ![l].phase = IF @ \in Stopped THEN @
                                                   ELSE IF idle THEN "idle" ELSE "sending"]
    /\ UNCHANGED <<trace, ended, late, durable>>

\* classify: 403 closes, 401 waits for a login, 409 fails; a flush is rejected.
Outcome == [closed |-> "closed", denied |-> "auth", conflict |-> "failed"]

ReceiveRefusal(l) ==
    /\ rec[l].call \in DOMAIN Outcome
    /\ rec' = [rec EXCEPT ![l].call = "none", ![l].batch = {},
                          ![l].phase = Outcome[rec[l].call],
                          ![l].ask = IF @ = "flush" THEN "none" ELSE @]
    /\ UNCHANGED <<trace, ended, store, acked, late, durable>>

\* Network error, timeout, 5xx, or the store failed to delete: the recorder will
\* send again, even one that was stopped meanwhile (setPhase does not look); what
\* it sent may have arrived, may still arrive, or may be lost.
GiveUp(l) ==
    /\ rec[l].call # "none"
    /\ late' = IF rec[l].call = "sent" THEN late \union {rec[l].batch} ELSE late
    /\ rec' = [rec EXCEPT ![l].call = "none", ![l].batch = {}, ![l].got = 0,
                          ![l].phase = "retrying"]
    /\ UNCHANGED <<trace, ended, store, acked, durable>>

-----------------------------------------------------------------------------
(* The server                                                              *)

\* A number already holds another fingerprint.
Conflicting(B) == \E e \in B, f \in trace : e.n = f.n /\ e.c # f.c

\* Under FOR KEY SHARE on the session: all of the batch or nothing.
Ingest(l) ==
    /\ rec[l].call = "sent"
    /\ IF ended
       THEN /\ rec' = [rec EXCEPT ![l].call = "closed"]
            /\ UNCHANGED trace
       ELSE IF Conflicting(rec[l].batch)
       THEN /\ rec' = [rec EXCEPT ![l].call = "conflict"]
            /\ UNCHANGED trace
       ELSE /\ rec' = [rec EXCEPT ![l].call = "stored"]
            /\ trace' = trace \union rec[l].batch
    /\ UNCHANGED <<ended, store, acked, late, durable>>

\* The login has expired and could not be refreshed.
Deny(l) ==
    /\ rec[l].call = "sent"
    /\ rec' = [rec EXCEPT ![l].call = "denied"]
    /\ UNCHANGED <<trace, ended, store, acked, late, durable>>

\* get_trace_state, a transaction of its own after the commit.
Reply(l) ==
    /\ rec[l].call = "stored"
    /\ rec' = [rec EXCEPT ![l].call = "answered", ![l].got = Highest(trace)]
    /\ UNCHANGED <<trace, ended, store, acked, late, durable>>

IngestLate == \E B \in late :
    /\ late' = late \ {B}
    /\ trace' = IF ended \/ Conflicting(B) THEN trace ELSE trace \union B
    /\ UNCHANGED <<ended, store, acked, rec, durable>>

\* finalize_session: SESSION_ENDED above everything, after SUBMISSION_CREATED if
\* the session ends with a submission.
AppendEnd(submitted) ==
    /\ ended' = TRUE
    /\ LET top == Top(trace)
       IN  trace' = trace \union
                      IF submitted THEN {Event(top + 1, "submitted"), Event(top + 2, "ended")}
                                   ELSE {Event(top + 1, "ended")}

\* Mutant: the status is not tested again under the lock.
EndsAgain ==
    /\ \E submitted \in BOOLEAN : AppendEnd(submitted)
    /\ UNCHANGED <<store, acked, rec, late, durable>>

\* The exam's timeout, finalize, the stale session policy, a request that was
\* thought lost, or the student elsewhere.
ServerEnds ==
    /\ ~ ended
    /\ \E submitted \in BOOLEAN : AppendEnd(submitted)
    /\ UNCHANGED <<store, acked, rec, late, durable>>

-----------------------------------------------------------------------------
(* Submit and end, from the page (doSubmit, doEnd)                         *)

PressEnd(l) ==
    /\ rec[l].pc = "open"
    /\ rec[l].ask = "none"
    /\ rec' = [rec EXCEPT ![l].ask = "flush"]
    /\ UNCHANGED <<trace, ended, store, acked, late, durable>>

\* Mutant: nothing left to send, though an event may still be on its way to the store.
NothingReady(l) == ReadyBatch(l) = {}

\* What the flush barrier waits for.
NothingQueued(l) == rec[l].queue = {}

\* doEnd goes on at once, doSubmit stores a snapshot of the code first.
Flushed(l) ==
    /\ rec[l].ask = "flush"
    /\ NothingQueued(l)
    /\ \E ask \in {"snapshot", "end"} :
         rec' = [rec EXCEPT ![l].ask = ask, ![l].last = rec[l].next - 1]
    /\ UNCHANGED <<trace, ended, store, acked, late, durable>>

\* createSnapshot has answered.  While doSubmit waits for it the recorder goes on:
\* the periodic checkpoint may record.
SnapshotStored(l) ==
    /\ rec[l].ask = "snapshot"
    /\ rec' = [rec EXCEPT ![l].ask = "submit"]
    /\ UNCHANGED <<trace, ended, store, acked, late, durable>>

\* The flush timed out or the recorder had stopped, the call failed, or its answer
\* was lost: the page says so and the student may try again.
AskFails(l) ==
    /\ rec[l].ask # "none"
    /\ rec' = [rec EXCEPT ![l].ask = "none", ![l].last = 0]
    /\ UNCHANGED <<trace, ended, store, acked, late, durable>>

\* The server ends the session for this call; an end, not a submit, names the
\* last number and is refused if the server holds less (TRACE_NOT_FLUSHED).
EndSession(l) ==
    /\ rec[l].ask \in {"submit", "end"}
    /\ ~ ended
    /\ rec[l].ask = "end" => Top(trace) >= rec[l].last
    /\ AppendEnd(rec[l].ask = "submit")
    /\ rec' = [rec EXCEPT ![l].ask = "done"]
    /\ UNCHANGED <<store, acked, late, durable>>

\* finish: wait for the writes, stop, and forget the session if all is sent.
Finish(l) ==
    /\ rec[l].ask = "done"
    /\ NextToWrite(l) = {}
    /\ rec' = [rec EXCEPT ![l].ask = "none", ![l].last = 0, ![l].phase = "closed"]
    /\ IF rec[l].queue = {}
       THEN store' = {} /\ acked' = None
       ELSE UNCHANGED <<store, acked>>
    /\ UNCHANGED <<trace, ended, late, durable>>

-----------------------------------------------------------------------------
(* The end of a life                                                       *)

\* The component is unmounted: dispose, and the lock is free.  The writes under
\* way go on, and the answers to a batch, a submit or an end still come.
Unmount(l) ==
    /\ rec[l].pc = "open"
    /\ orderly => NextToWrite(l) = {} /\ rec[l].call = "none"
    /\ rec' = [rec EXCEPT ![l].pc = "disposed"]
    /\ UNCHANGED <<trace, ended, store, acked, late, durable>>

\* Reload, closed tab or crash: memory is lost, also half-way through opening.
PageGone(l) ==
    /\ HoldsLock(l) \/ rec[l].pc = "disposed"
    /\ late' = IF rec[l].call = "sent" THEN late \union {rec[l].batch} ELSE late
    /\ rec' = [rec EXCEPT ![l] = [NewRecorder EXCEPT !.pc = "gone"]]
    /\ UNCHANGED <<trace, ended, store, acked, durable>>

-----------------------------------------------------------------------------

Act ==
    \/ \E l \in Lives :
         \/ Open(l) \/ Load(l) \/ AskState(l) \/ FinishOpen(l)
         \/ Record(l) \/ Persist(l) \/ PersistFails(l)
         \/ Send(l) \/ Beacon(l) \/ Receive(l) \/ ReceiveRefusal(l) \/ GiveUp(l)
         \/ Ingest(l) \/ Deny(l) \/ Reply(l)
         \/ PressEnd(l) \/ Flushed(l) \/ SnapshotStored(l) \/ AskFails(l) \/ EndSession(l) \/ Finish(l)
         \/ Unmount(l) \/ PageGone(l)
    \/ IngestLate
    \/ ServerEnds

Next == Act /\ UNCHANGED orderly

Spec == Init /\ [][Next]_vars

\* The recorder's loop runs, and the network does not fail for ever.
FairSpec ==
    /\ Spec
    /\ \A l \in Lives :
         /\ WF_moving(Persist(l))
         /\ WF_moving(Send(l))
         /\ SF_moving(Ingest(l))
         /\ SF_moving(Reply(l))
         /\ SF_moving(Receive(l))
         /\ WF_moving(ReceiveRefusal(l))

-----------------------------------------------------------------------------
(* Properties                                                              *)

\* The trace on the server is numbered 1, 2, 3 and so on without a gap and with
\* one event per number, whatever was lost, repeated or cut differently
\* (docs/46 section 5, third claim).
TraceGapFree ==
    /\ \A e \in trace : 1 .. e.n \subseteq Numbers(trace)
    /\ \A e, f \in trace : e.n = f.n => e = f

\* One event per number also in the browser: no life gives out a number that the
\* server or the store holds with another content, so that 409 and TRACE_GAP,
\* which stop a recorder for good, never happen.  It needs an orderly browser: two tabs
\* without a lock number independently, and what a disposed recorder still writes or
\* deletes can fall between the reads of the next.
RecorderNeverFails == orderly => \A l \in Lives : rec[l].phase # "failed"

\* What was written down in the browser is never lost on the way: it is still in
\* the store or on the server, until the session has ended and is forgotten (needs
\* an orderly browser as well).
NothingLost == orderly => durable \subseteq store \union trace \/ (ended /\ acked = None)

\* Submit and end go to the server only when everything is there that had been recorded
\* when their flush ended; submit relies on it, for the server does not look.  What a
\* checkpoint records while doSubmit waits for its snapshot is not covered.
FlushedBeforeEnd ==
    \A l \in Lives :
        rec[l].ask \in {"snapshot", "submit", "end"} => 1 .. rec[l].last \subseteq Numbers(trace)

\* No client event lands after SESSION_ENDED, and the session ends once.
EndIsFinal == [][ended => trace' = trace]_vars

\* Only in an orderly browser; elsewhere nothing is claimed, and nothing happens there.
Delivery == INSTANCE TraceDelivery WITH
    Events <- ClientEvent,
    written <- IF orderly THEN durable ELSE {},
    delivered <- IF orderly THEN {e \in trace : e.c \notin {"submitted", "ended"}} ELSE {},
    closed <- orderly /\ ended

\* The server always holds a beginning of what the browser wrote down, in order.
ImplementsDelivery == Delivery!Spec

\* Everything recorded reaches the server, unless the page goes, the session ends,
\* the recorder stops because the login expired, or the last write to the store
\* failed.
Delivered ==
    \A l \in Lives : \A n \in 1 .. MaxSeq :
        (rec[l].pc = "open" /\ n \in Numbers(rec[l].queue))
            ~> (n \in Numbers(trace) \/ rec[l].pc # "open" \/ ended
                \/ rec[l].phase \in Stopped \/ rec[l].persisted < rec[l].tried)
=============================================================================

------------------------ MODULE TraceRecordingProofs ------------------------
(***************************************************************************)
(* Proofs about trace recording for every number of lives, of events and   *)
(* of events to a request.  Where a theorem says so, the browser's store   *)
(* does not fail: after a failed put the puts behind it still run, and the *)
(* next life reads a store with a gap.                                     *)
(*                                                                         *)
(* The argument has two layers.  GapFreeInv follows a number from the      *)
(* queue of a life over the store, a request and a late batch to the       *)
(* trace: at each of these places everything below it is there too or on   *)
(* the server.  OneWriterInv adds, where an unmount finds nothing under    *)
(* way and tabs exclude each other, that all that was ever written down    *)
(* has one numbering.                                                      *)
(***************************************************************************)
EXTENDS TraceRecording, FiniteSetTheorems, WellFoundedInduction, TLAPS

-----------------------------------------------------------------------------
(* Lemmas about the operators.                                             *)

\* A set of natural numbers has a least one.
LEMMA NatMin ==
  ASSUME NEW S \in SUBSET Nat, S # {}
  PROVE  Min(S) \in S /\ \A x \in S : Min(S) <= x
<1> DEFINE R == {ss \in Nat \X Nat : ss[1] < ss[2]}
<1>1. IsWellFoundedOn(R, Nat)
  BY NatLessThanWellFounded, Zenon DEF OpToRel
<1>2. \A y, x \in Nat : <<y, x>> \in R <=> y < x
  OBVIOUS
<1> HIDE DEF R
<1>3. PICK x \in S : \A y \in S : ~(<<y, x>> \in R)
  BY <1>1, WFMin
<1>4. \A y \in S : x <= y
  <2> TAKE y \in S
  <2>1. ~(y < x)
    BY <1>2, <1>3, Zenon
  <2> QED BY <2>1
<1> QED BY <1>4 DEF Min

\* A bounded one has a greatest.
LEMMA NatMax ==
  ASSUME NEW S \in SUBSET Nat, S # {}, NEW b \in Nat, \A x \in S : x <= b
  PROVE  Max(S) \in S /\ \A x \in S : x <= Max(S)
<1> DEFINE T == {b - x : x \in S}
<1>1. T \in SUBSET Nat /\ T # {}
  <2>1. \A x \in S : b - x \in Nat
    OBVIOUS
  <2> QED BY <2>1
<1>2. PICK m \in T : \A t \in T : m <= t
  BY <1>1, NatMin
<1>3. PICK x \in S : m = b - x
  OBVIOUS
<1>4. \A y \in S : y <= x
  <2> TAKE y \in S
  <2>1. b - x <= b - y
    BY <1>2, <1>3
  <2> QED BY <2>1
<1> QED BY <1>4 DEF Max

\* The greatest number of a set of events.
LEMMA TopFacts ==
  ASSUME NEW E, NEW b \in Nat, \A e \in E : e.n \in 1 .. b
  PROVE  /\ Top(E) \in 0 .. b
         /\ \A e \in E : e.n <= Top(E)
         /\ Top(E) # 0 => \E e \in E : e.n = Top(E)
<1> DEFINE S == Numbers(E) \union {0}
<1>1. S \in SUBSET Nat /\ S # {} /\ \A x \in S : x <= b
  BY DEF Numbers
<1>2. Max(S) \in S /\ \A x \in S : x <= Max(S)
  BY <1>1, NatMax
<1>3. Top(E) = Max(S)
  BY DEF Top
<1>4. \A e \in E : e.n \in S
  BY DEF Numbers
<1>5. Max(S) = 0 \/ \E e \in E : e.n = Max(S)
  BY <1>2 DEF Numbers
<1> HIDE DEF S
<1> QED BY <1>1, <1>2, <1>3, <1>4, <1>5

\* Below the highest contiguous number none is missing, and it is the last such number.
LEMMA HighestFacts ==
  ASSUME NEW E, NEW b \in Nat, \A e \in E : e.n \in 1 .. b
  PROVE  /\ Highest(E) \in 0 .. b
         /\ 1 .. Highest(E) \subseteq Numbers(E)
         /\ \A k \in Nat : 1 .. k \subseteq Numbers(E) => k <= Highest(E)
<1> DEFINE S == {0} \union {n \in Numbers(E) : 1 .. n \subseteq Numbers(E)}
<1>1. S \in SUBSET Nat /\ S # {} /\ \A x \in S : x <= b
  BY DEF Numbers
<1>2. Max(S) \in S /\ \A x \in S : x <= Max(S)
  BY <1>1, NatMax
<1>3. Highest(E) = Max(S)
  BY DEF Highest
<1>4. \A k \in Nat : 1 .. k \subseteq Numbers(E) => k \in S
  <2> TAKE k \in Nat
  <2>1. CASE k = 0
    BY <2>1
  <2>2. CASE k # 0
    <3>1. k \in 1 .. k
      BY <2>2
    <3> QED BY <3>1
  <2> QED BY <2>1, <2>2
<1>5. Max(S) = 0 \/ 1 .. Max(S) \subseteq Numbers(E)
  BY <1>2
<1> HIDE DEF S
<1> DEFINE m == Max(S)
<1>6. /\ m = Highest(E) /\ m \in S /\ \A x \in S : x <= m
      /\ m = 0 \/ 1 .. m \subseteq Numbers(E)
  BY <1>2, <1>3, <1>5
<1> HIDE DEF m
<1>7. m \in 0 .. b
  BY <1>1, <1>6
<1>8. 1 .. m \subseteq Numbers(E)
  BY <1>6, <1>7
<1> QED BY <1>4, <1>6, <1>7, <1>8

\* A set of events that is not empty has one with the least number.
LEMMA Least ==
  ASSUME NEW E, \A e \in E : e.n \in Nat, E # {}
  PROVE  \E e \in E : \A f \in E : e.n <= f.n
<1> DEFINE S == {e.n : e \in E}
<1>1. S \in SUBSET Nat /\ S # {}
  OBVIOUS
<1>2. Min(S) \in S /\ \A x \in S : Min(S) <= x
  BY <1>1, NatMin
<1>3. PICK e \in E : e.n = Min(S)
  BY <1>2
<1>4. \A f \in E : f.n \in S
  OBVIOUS
<1> HIDE DEF S
<1> QED BY <1>2, <1>3, <1>4

-----------------------------------------------------------------------------
(* Types.                                                                  *)

\* What a recorder numbers.
Recorded == [n : 1 .. MaxSeq, c : Lives \union {"opened"}]
ServerMarks == {"submitted", "ended"}

LivesTypeOK ==
    /\ rec \in [Lives -> Recorder]
    /\ \A l \in Lives : rec[l].queue \subseteq Recorded /\ rec[l].batch \subseteq Recorded

WorldTypeOK ==
    /\ trace \subseteq ClientEvent \union ServerEvent
    /\ ended \in BOOLEAN
    /\ ~ended => trace \subseteq Recorded
    /\ store \subseteq Recorded /\ durable \subseteq Recorded
    /\ acked \in (0 .. MaxSeq) \union {None}
    /\ late \subseteq SUBSET Recorded
    /\ orderly \in BOOLEAN

TypeOK == LivesTypeOK /\ WorldTypeOK

-----------------------------------------------------------------------------
(* No number is missing.                                                   *)

\* The events of the students' browsers in the trace.
ClientTrace == {e \in trace : e.c \notin ServerMarks}

\* Below an event of E every number is in E or on the server.
Covered(E) == \A e \in E : 1 .. e.n \subseteq Numbers(E) \union Numbers(trace)
OnePerNumber(E) == \A e, f \in E : e.n = f.n => e = f

\* What may be stored without a gap, as long as the server still stores anything.
Sound(E) == OnePerNumber(E) /\ (~ended => Covered(E))

\* The numbers given out or taken over, up to k, are in the queue or on the server.
KnownUpTo(r, k) == 1 .. k \subseteq Numbers(r.queue) \union Numbers(trace)

\* Opened after the session had ended, with a store that a finished life had emptied under
\* another one: the queue cannot be sent any more.
Stuck(r) == ended /\ r.queue # {} /\ r.call \notin {"stored", "answered"}

OpeningFits(r) ==
    /\ r.pc \in {"opening", "loaded", "asked"} => 1 .. r.next - 1 \subseteq Numbers(trace)
    /\ r.pc \in {"loaded", "asked"} => r.persisted = Top(r.queue) /\ (~ended => Covered(r.queue))
    /\ r.pc = "asked" => 1 .. r.got - 1 \subseteq Numbers(trace)
    /\ r.pc \notin {"open", "disposed"} => r.call = "none" /\ r.ask = "none"
    /\ r.pc \in {"unused", "opening", "gone"} => r.queue = {} /\ r.persisted = 0

QueueFits(r) ==
    /\ OnePerNumber(r.queue) /\ IsFiniteSet(r.queue)
    /\ r.tried = r.persisted
    /\ r.pc \in {"open", "disposed"} =>
         /\ r.tried < r.next
         /\ \A e \in r.queue : e.n < r.next
         /\ KnownUpTo(r, r.next - 1) \/ Stuck(r)
    /\ ~ended => \A e \in r.queue :
                   e.n <= r.persisted => e.n \in Numbers(store) \union Numbers(trace)

RequestFits(r) ==
    /\ r.call = "sent" => r.batch # {} /\ Sound(r.batch)
    /\ r.call \in {"stored", "answered"} =>
         r.batch # {} /\ \A e \in r.batch : 1 .. e.n \subseteq Numbers(ClientTrace)
    /\ r.call = "answered" => Top(r.batch) <= r.got
    /\ r.ask \in {"snapshot", "submit", "end"} => 1 .. r.last \subseteq Numbers(trace)
    /\ r.ask = "done" => ended

LifeFits(r) == OpeningFits(r) /\ QueueFits(r) /\ RequestFits(r)

StoreFits ==
    /\ Sound(store) /\ IsFiniteSet(store)
    /\ acked # None => 1 .. acked \subseteq Numbers(ClientTrace)

GapFreeInv ==
    /\ TraceGapFree /\ StoreFits
    /\ \A B \in late : Sound(B)
    /\ \A l \in Lives : LifeFits(rec[l])

-----------------------------------------------------------------------------
(* One browser, one numbering.                                             *)

\* Nothing has been forgotten yet.
Kept == orderly /\ ~(ended /\ acked = None)

\* What was written down, on its way or on the server.
Written ==
    /\ IsFiniteSet(durable)
    /\ store \subseteq durable /\ ClientTrace \subseteq durable
    /\ \A B \in late : B \subseteq durable
    /\ \A l \in Lives : /\ {e \in rec[l].queue : e.n <= rec[l].persisted} \subseteq durable
                        /\ rec[l].batch \subseteq durable

Numbering ==
    Kept =>
        /\ OnePerNumber(durable)
        /\ ~ended => Numbers(durable) = 1 .. Cardinality(durable)
        /\ \A e \in durable : e \in store \/ (acked # None /\ e.n <= acked)

\* The one life that records.
OnlyOne == orderly => \A l, m \in Lives : HoldsLock(l) /\ HoldsLock(m) => l = m

Recording(r) ==
    /\ r.pc \in {"opening", "loaded", "asked", "open"} => acked # None
    /\ r.pc \in {"opening", "loaded", "asked"} => r.next = acked + 1
    /\ r.pc \in {"loaded", "asked"} => r.queue = store
    /\ r.pc = "open" =>
         /\ \A d \in durable : d.n < r.next
         /\ \A e \in r.queue, d \in durable : e.n > r.tried => d.n < e.n

Alright(r) ==
    orderly => /\ r.phase # "failed" /\ r.call # "conflict"
               /\ r.pc = "disposed" => r.call = "none" /\ \A e \in r.queue : e.n <= r.tried

OneWriterInv ==
    /\ Written /\ Numbering /\ OnlyOne
    /\ \A l \in Lives : /\ Alright(rec[l])
                        /\ Kept => Recording(rec[l])

-----------------------------------------------------------------------------
(* What the actions do to a life.                                          *)

Only(l) == \A m \in Lives \ {l} : rec'[m] = rec[m]
KeepsQueue(l) ==
    /\ rec'[l].queue = rec[l].queue
    /\ rec'[l].tried = rec[l].tried /\ rec'[l].persisted = rec[l].persisted
KeepsRequest(l) ==
    rec'[l].call = rec[l].call /\ rec'[l].batch = rec[l].batch /\ rec'[l].got = rec[l].got
KeepsAsk(l) == rec'[l].ask = rec[l].ask /\ rec'[l].last = rec[l].last
KeepsPlace(l) == rec'[l].pc = rec[l].pc /\ rec'[l].next = rec[l].next

LEMMA RecordedFacts ==
  /\ Recorded \subseteq ClientEvent
  /\ \A e \in Recorded : e.n \in 1 .. MaxSeq /\ e.c \notin ServerMarks
  /\ MaxSeq \in Nat \ {0}
BY SizesAssumption, NamesAssumption DEF Recorded, ClientEvent, Number, ServerMarks

LEMMA LifeTyped ==
  ASSUME TypeOK, NEW l \in Lives, NEW x \in Recorder, x.queue \subseteq Recorded,
         x.batch \subseteq Recorded, rec' = [rec EXCEPT ![l] = x], WorldTypeOK'
  PROVE  TypeOK' /\ Only(l) /\ rec'[l] = x
BY DEF TypeOK, LivesTypeOK, Only

LEMMA WorldSame ==
  ASSUME TypeOK, UNCHANGED <<trace, ended, store, acked, durable, orderly>>,
         late' = late \/ \E B \in SUBSET Recorded : late' = late \union {B}
  PROVE  WorldTypeOK'
BY DEF TypeOK, WorldTypeOK

LEMMA LoadEffect ==
  ASSUME TypeOK, NEW l \in Lives, Load(l), orderly' = orderly
  PROVE  /\ TypeOK' /\ Only(l)
         /\ rec'[l].pc = "loaded"
         /\ rec'[l].queue = store
         /\ rec'[l].tried = Top(store)
         /\ rec'[l].persisted = Top(store)
         /\ rec'[l].next = rec[l].next /\ rec'[l].phase = rec[l].phase
         /\ KeepsRequest(l) /\ KeepsAsk(l)
<1> DEFINE x == [rec[l] EXCEPT !.pc = "loaded", !.queue = store,
                              !.tried = Top(store), !.persisted = Top(store)]
<1>1. rec[l] \in Recorder /\ rec[l].queue \subseteq Recorded /\ rec[l].batch \subseteq Recorded
  BY DEF TypeOK, LivesTypeOK
<1>2. rec' = [rec EXCEPT ![l] = x] /\ UNCHANGED <<trace, ended, store, acked, durable, late, orderly>>
  BY DEF Load, TypeOK, LivesTypeOK
<1>3. WorldTypeOK'
  BY <1>2, WorldSame
<1>4. Top(store) \in 0 .. MaxSeq + 2 /\ store \subseteq Recorded /\ store \subseteq ClientEvent
  <2>1. store \subseteq Recorded /\ store \subseteq ClientEvent
    BY RecordedFacts DEF TypeOK, WorldTypeOK
  <2>2. MaxSeq \in Nat /\ \A e \in store : e.n \in 1 .. MaxSeq
    BY <2>1, RecordedFacts
  <2>3. Top(store) \in 0 .. MaxSeq
    BY <2>2, TopFacts
  <2> QED BY <2>1, <2>2, <2>3
<1>5. /\ x \in Recorder
      /\ x.pc = "loaded"
      /\ x.queue = store
      /\ x.tried = Top(store)
      /\ x.persisted = Top(store)
      /\ x.next = rec[l].next /\ x.phase = rec[l].phase /\ x.call = rec[l].call
      /\ x.batch = rec[l].batch /\ x.got = rec[l].got /\ x.ask = rec[l].ask
      /\ x.last = rec[l].last
  BY <1>1, <1>4 DEF Recorder, Phase
<1> HIDE DEF x
<1>6. TypeOK' /\ Only(l) /\ rec'[l] = x
  BY <1>1, <1>2, <1>3, <1>4, <1>5, LifeTyped
<1> QED BY <1>5, <1>6 DEF KeepsRequest, KeepsAsk

LEMMA SendEffect ==
  ASSUME TypeOK, NEW l \in Lives, Send(l), orderly' = orderly
  PROVE  /\ TypeOK' /\ Only(l)
         /\ rec'[l].call = "sent"
         /\ rec'[l].phase = "sending"
         /\ rec'[l].batch = ReadyBatch(l)
         /\ rec'[l].got = rec[l].got
         /\ KeepsPlace(l) /\ KeepsQueue(l) /\ KeepsAsk(l)
<1> DEFINE x == [rec[l] EXCEPT !.call = "sent", !.phase = "sending", !.batch = ReadyBatch(l)]
<1>1. rec[l] \in Recorder /\ rec[l].queue \subseteq Recorded /\ rec[l].batch \subseteq Recorded
  BY DEF TypeOK, LivesTypeOK
<1>2. rec' = [rec EXCEPT ![l] = x] /\ UNCHANGED <<trace, ended, store, acked, durable, late, orderly>>
  BY DEF Send, TypeOK, LivesTypeOK
<1>3. WorldTypeOK'
  BY <1>2, WorldSame
<1>4. ReadyBatch(l) \subseteq Recorded /\ ReadyBatch(l) \subseteq ClientEvent
  BY <1>1, RecordedFacts DEF ReadyBatch
<1>5. /\ x \in Recorder
      /\ x.call = "sent"
      /\ x.phase = "sending"
      /\ x.batch = ReadyBatch(l)
      /\ x.pc = rec[l].pc /\ x.next = rec[l].next /\ x.queue = rec[l].queue
      /\ x.tried = rec[l].tried /\ x.persisted = rec[l].persisted /\ x.got = rec[l].got
      /\ x.ask = rec[l].ask /\ x.last = rec[l].last
  BY <1>1, <1>4 DEF Recorder, Phase
<1> HIDE DEF x
<1>6. TypeOK' /\ Only(l) /\ rec'[l] = x
  BY <1>1, <1>2, <1>3, <1>4, <1>5, LifeTyped
<1> QED BY <1>5, <1>6 DEF KeepsPlace, KeepsQueue, KeepsAsk

LEMMA DenyEffect ==
  ASSUME TypeOK, NEW l \in Lives, Deny(l), orderly' = orderly
  PROVE  /\ TypeOK' /\ Only(l)
         /\ rec'[l].call = "denied"
         /\ rec'[l].phase = rec[l].phase /\ rec'[l].batch = rec[l].batch
         /\ rec'[l].got = rec[l].got
         /\ KeepsPlace(l) /\ KeepsQueue(l) /\ KeepsAsk(l)
<1> DEFINE x == [rec[l] EXCEPT !.call = "denied"]
<1>1. rec[l] \in Recorder /\ rec[l].queue \subseteq Recorded /\ rec[l].batch \subseteq Recorded
  BY DEF TypeOK, LivesTypeOK
<1>2. rec' = [rec EXCEPT ![l] = x] /\ UNCHANGED <<trace, ended, store, acked, durable, late, orderly>>
  BY DEF Deny, TypeOK, LivesTypeOK
<1>3. WorldTypeOK'
  BY <1>2, WorldSame
<1>4. /\ x \in Recorder
      /\ x.call = "denied"
      /\ x.pc = rec[l].pc /\ x.next = rec[l].next /\ x.queue = rec[l].queue
      /\ x.tried = rec[l].tried /\ x.persisted = rec[l].persisted
      /\ x.phase = rec[l].phase /\ x.batch = rec[l].batch /\ x.got = rec[l].got
      /\ x.ask = rec[l].ask /\ x.last = rec[l].last
  BY <1>1 DEF Recorder, Phase
<1> HIDE DEF x
<1>5. TypeOK' /\ Only(l) /\ rec'[l] = x
  BY <1>1, <1>2, <1>3, <1>4, LifeTyped
<1> QED BY <1>4, <1>5 DEF KeepsPlace, KeepsQueue, KeepsAsk

LEMMA PressEndEffect ==
  ASSUME TypeOK, NEW l \in Lives, PressEnd(l), orderly' = orderly
  PROVE  /\ TypeOK' /\ Only(l)
         /\ rec'[l].ask = "flush"
         /\ rec'[l].phase = rec[l].phase /\ rec'[l].last = rec[l].last
         /\ KeepsPlace(l) /\ KeepsQueue(l) /\ KeepsRequest(l)
<1> DEFINE x == [rec[l] EXCEPT !.ask = "flush"]
<1>1. rec[l] \in Recorder /\ rec[l].queue \subseteq Recorded /\ rec[l].batch \subseteq Recorded
  BY DEF TypeOK, LivesTypeOK
<1>2. rec' = [rec EXCEPT ![l] = x] /\ UNCHANGED <<trace, ended, store, acked, durable, late, orderly>>
  BY DEF PressEnd, TypeOK, LivesTypeOK
<1>3. WorldTypeOK'
  BY <1>2, WorldSame
<1>4. /\ x \in Recorder
      /\ x.ask = "flush"
      /\ x.pc = rec[l].pc /\ x.next = rec[l].next /\ x.queue = rec[l].queue
      /\ x.tried = rec[l].tried /\ x.persisted = rec[l].persisted
      /\ x.phase = rec[l].phase /\ x.call = rec[l].call /\ x.batch = rec[l].batch
      /\ x.got = rec[l].got /\ x.last = rec[l].last
  BY <1>1 DEF Recorder, Phase
<1> HIDE DEF x
<1>5. TypeOK' /\ Only(l) /\ rec'[l] = x
  BY <1>1, <1>2, <1>3, <1>4, LifeTyped
<1> QED BY <1>4, <1>5 DEF KeepsPlace, KeepsQueue, KeepsRequest

LEMMA AskFailsEffect ==
  ASSUME TypeOK, NEW l \in Lives, AskFails(l), orderly' = orderly
  PROVE  /\ TypeOK' /\ Only(l)
         /\ rec'[l].ask = "none"
         /\ rec'[l].last = 0
         /\ rec'[l].phase = rec[l].phase
         /\ KeepsPlace(l) /\ KeepsQueue(l) /\ KeepsRequest(l)
<1> DEFINE x == [rec[l] EXCEPT !.ask = "none", !.last = 0]
<1>1. rec[l] \in Recorder /\ rec[l].queue \subseteq Recorded /\ rec[l].batch \subseteq Recorded
  BY DEF TypeOK, LivesTypeOK
<1>2. rec' = [rec EXCEPT ![l] = x] /\ UNCHANGED <<trace, ended, store, acked, durable, late, orderly>>
  BY DEF AskFails, TypeOK, LivesTypeOK
<1>3. WorldTypeOK'
  BY <1>2, WorldSame
<1>4. 0 \in 0 .. MaxSeq + 2
  BY SizesAssumption
<1>5. /\ x \in Recorder
      /\ x.ask = "none"
      /\ x.last = 0
      /\ x.pc = rec[l].pc /\ x.next = rec[l].next /\ x.queue = rec[l].queue
      /\ x.tried = rec[l].tried /\ x.persisted = rec[l].persisted
      /\ x.phase = rec[l].phase /\ x.call = rec[l].call /\ x.batch = rec[l].batch
      /\ x.got = rec[l].got
  BY <1>1, <1>4 DEF Recorder, Phase
<1> HIDE DEF x
<1>6. TypeOK' /\ Only(l) /\ rec'[l] = x
  BY <1>1, <1>2, <1>3, <1>4, <1>5, LifeTyped
<1> QED BY <1>5, <1>6 DEF KeepsPlace, KeepsQueue, KeepsRequest

LEMMA FlushedEffect ==
  ASSUME TypeOK, NEW l \in Lives, Flushed(l), orderly' = orderly
  PROVE  /\ TypeOK' /\ Only(l)
         /\ rec'[l].ask \in {"snapshot", "submit", "end"}
         /\ rec'[l].last = rec[l].next - 1
         /\ rec'[l].phase = rec[l].phase
         /\ KeepsPlace(l) /\ KeepsQueue(l) /\ KeepsRequest(l)
<1>0. PICK ask \in {"snapshot", "end"} :
        rec' = [rec EXCEPT ![l].ask = ask, ![l].last = rec[l].next - 1]
  BY DEF Flushed
<1> DEFINE x == [rec[l] EXCEPT !.ask = ask, !.last = rec[l].next - 1]
<1>1. rec[l] \in Recorder /\ rec[l].queue \subseteq Recorded /\ rec[l].batch \subseteq Recorded
  BY DEF TypeOK, LivesTypeOK
<1>2. rec' = [rec EXCEPT ![l] = x] /\ UNCHANGED <<trace, ended, store, acked, durable, late, orderly>>
  BY <1>0 DEF Flushed, TypeOK, LivesTypeOK
<1>3. WorldTypeOK'
  BY <1>2, WorldSame
<1>4. rec[l].next - 1 \in 0 .. MaxSeq + 2
  BY <1>1, SizesAssumption DEF Recorder
<1>5. /\ x \in Recorder
      /\ x.ask = ask
      /\ x.last = rec[l].next - 1
      /\ x.pc = rec[l].pc /\ x.next = rec[l].next /\ x.queue = rec[l].queue
      /\ x.tried = rec[l].tried /\ x.persisted = rec[l].persisted
      /\ x.phase = rec[l].phase /\ x.call = rec[l].call /\ x.batch = rec[l].batch
      /\ x.got = rec[l].got
  BY <1>1, <1>4 DEF Recorder, Phase
<1> HIDE DEF x
<1>6. TypeOK' /\ Only(l) /\ rec'[l] = x
  BY <1>1, <1>2, <1>3, <1>4, <1>5, LifeTyped
<1> QED BY <1>0, <1>5, <1>6 DEF KeepsPlace, KeepsQueue, KeepsRequest

LEMMA SnapshotStoredEffect ==
  ASSUME TypeOK, NEW l \in Lives, SnapshotStored(l), orderly' = orderly
  PROVE  /\ TypeOK' /\ Only(l)
         /\ rec[l].ask \in {"snapshot", "submit", "end"} /\ rec'[l].ask \in {"snapshot", "submit", "end"}
         /\ rec'[l].last = rec[l].last
         /\ rec'[l].phase = rec[l].phase
         /\ KeepsPlace(l) /\ KeepsQueue(l) /\ KeepsRequest(l)
<1> DEFINE x == [rec[l] EXCEPT !.ask = "submit"]
<1>1. rec[l] \in Recorder /\ rec[l].queue \subseteq Recorded /\ rec[l].batch \subseteq Recorded
  BY DEF TypeOK, LivesTypeOK
<1>2. /\ rec' = [rec EXCEPT ![l] = x] /\ rec[l].ask = "snapshot"
      /\ UNCHANGED <<trace, ended, store, acked, durable, late, orderly>>
  BY DEF SnapshotStored, TypeOK, LivesTypeOK
<1>3. WorldTypeOK'
  BY <1>2, WorldSame
<1>4. /\ x \in Recorder
      /\ x.ask = "submit"
      /\ x.last = rec[l].last
      /\ x.pc = rec[l].pc /\ x.next = rec[l].next /\ x.queue = rec[l].queue
      /\ x.tried = rec[l].tried /\ x.persisted = rec[l].persisted
      /\ x.phase = rec[l].phase /\ x.call = rec[l].call /\ x.batch = rec[l].batch
      /\ x.got = rec[l].got
  BY <1>1 DEF Recorder
<1> HIDE DEF x
<1>5. TypeOK' /\ Only(l) /\ rec'[l] = x
  BY <1>1, <1>2, <1>3, <1>4, LifeTyped
<1> QED BY <1>2, <1>4, <1>5 DEF KeepsPlace, KeepsQueue, KeepsRequest

LEMMA UnmountEffect ==
  ASSUME TypeOK, NEW l \in Lives, Unmount(l), orderly' = orderly
  PROVE  /\ TypeOK' /\ Only(l)
         /\ rec'[l].pc = "disposed"
         /\ rec'[l].next = rec[l].next /\ rec'[l].phase = rec[l].phase
         /\ KeepsQueue(l) /\ KeepsRequest(l) /\ KeepsAsk(l)
<1> DEFINE x == [rec[l] EXCEPT !.pc = "disposed"]
<1>1. rec[l] \in Recorder /\ rec[l].queue \subseteq Recorded /\ rec[l].batch \subseteq Recorded
  BY DEF TypeOK, LivesTypeOK
<1>2. rec' = [rec EXCEPT ![l] = x] /\ UNCHANGED <<trace, ended, store, acked, durable, late, orderly>>
  BY DEF Unmount, TypeOK, LivesTypeOK
<1>3. WorldTypeOK'
  BY <1>2, WorldSame
<1>4. /\ x \in Recorder
      /\ x.pc = "disposed"
      /\ x.next = rec[l].next /\ x.queue = rec[l].queue /\ x.tried = rec[l].tried
      /\ x.persisted = rec[l].persisted /\ x.phase = rec[l].phase
      /\ x.call = rec[l].call /\ x.batch = rec[l].batch /\ x.got = rec[l].got
      /\ x.ask = rec[l].ask /\ x.last = rec[l].last
  BY <1>1 DEF Recorder, Phase
<1> HIDE DEF x
<1>5. TypeOK' /\ Only(l) /\ rec'[l] = x
  BY <1>1, <1>2, <1>3, <1>4, LifeTyped
<1> QED BY <1>4, <1>5 DEF KeepsQueue, KeepsRequest, KeepsAsk

LEMMA ReplyEffect ==
  ASSUME TypeOK, NEW l \in Lives, Reply(l), orderly' = orderly
  PROVE  /\ TypeOK' /\ Only(l)
         /\ rec'[l].call = "answered"
         /\ rec'[l].got = Highest(trace)
         /\ rec'[l].phase = rec[l].phase /\ rec'[l].batch = rec[l].batch
         /\ KeepsPlace(l) /\ KeepsQueue(l) /\ KeepsAsk(l)
<1> DEFINE x == [rec[l] EXCEPT !.call = "answered", !.got = Highest(trace)]
<1>1. rec[l] \in Recorder /\ rec[l].queue \subseteq Recorded /\ rec[l].batch \subseteq Recorded
  BY DEF TypeOK, LivesTypeOK
<1>2. rec' = [rec EXCEPT ![l] = x] /\ UNCHANGED <<trace, ended, store, acked, durable, late, orderly>>
  BY DEF Reply, TypeOK, LivesTypeOK
<1>3. WorldTypeOK'
  BY <1>2, WorldSame
<1>4. Highest(trace) \in 0 .. MaxSeq + 3
  <2>1. MaxSeq + 2 \in Nat /\ \A e \in trace : e.n \in 1 .. MaxSeq + 2
    BY SizesAssumption DEF TypeOK, WorldTypeOK, ClientEvent, ServerEvent, Number
  <2>2. Highest(trace) \in 0 .. MaxSeq + 2
    BY <2>1, HighestFacts
  <2> QED BY <2>2, SizesAssumption
<1>5. /\ x \in Recorder
      /\ x.call = "answered"
      /\ x.got = Highest(trace)
      /\ x.pc = rec[l].pc /\ x.next = rec[l].next /\ x.queue = rec[l].queue
      /\ x.tried = rec[l].tried /\ x.persisted = rec[l].persisted
      /\ x.phase = rec[l].phase /\ x.batch = rec[l].batch /\ x.ask = rec[l].ask
      /\ x.last = rec[l].last
  BY <1>1, <1>4 DEF Recorder, Phase
<1> HIDE DEF x
<1>6. TypeOK' /\ Only(l) /\ rec'[l] = x
  BY <1>1, <1>2, <1>3, <1>4, <1>5, LifeTyped
<1> QED BY <1>5, <1>6 DEF KeepsPlace, KeepsQueue, KeepsAsk

LEMMA RecordEffect ==
  ASSUME TypeOK, NEW l \in Lives, Record(l), orderly' = orderly
  PROVE  /\ TypeOK' /\ Only(l)
         /\ rec'[l].queue = rec[l].queue \union {Event(rec[l].next, l)}
         /\ rec'[l].next = rec[l].next + 1
         /\ rec'[l].pc = rec[l].pc /\ rec'[l].tried = rec[l].tried
         /\ rec'[l].persisted = rec[l].persisted /\ rec'[l].phase = rec[l].phase
         /\ KeepsRequest(l) /\ KeepsAsk(l)
<1> DEFINE x == [rec[l] EXCEPT !.queue = rec[l].queue \union {Event(rec[l].next, l)}, !.next = rec[l].next + 1]
<1>1. rec[l] \in Recorder /\ rec[l].queue \subseteq Recorded /\ rec[l].batch \subseteq Recorded
  BY DEF TypeOK, LivesTypeOK
<1>2. rec' = [rec EXCEPT ![l] = x] /\ UNCHANGED <<trace, ended, store, acked, durable, late, orderly>>
  BY DEF Record, TypeOK, LivesTypeOK
<1>3. WorldTypeOK'
  BY <1>2, WorldSame
<1>4. /\ rec[l].queue \union {Event(rec[l].next, l)} \subseteq Recorded
      /\ rec[l].queue \union {Event(rec[l].next, l)} \subseteq ClientEvent
      /\ rec[l].next + 1 \in 1 .. MaxSeq + 3
  <2>1. rec[l].next \in 1 .. MaxSeq
    <3>1. rec[l].next \in 1 .. MaxSeq + 3 /\ MaxSeq \in Nat \ {0}
      BY <1>1, SizesAssumption DEF Recorder
    <3>2. rec[l].next <= MaxSeq \/ rec[l].next <= MaxSeq - 1
      BY DEF Record
    <3> QED BY <3>1, <3>2
  <2>2. Event(rec[l].next, l) \in Recorded
    BY <2>1 DEF Event, Recorded
  <2> QED BY <1>1, <2>1, <2>2, RecordedFacts
<1>5. /\ x \in Recorder
      /\ x.queue = rec[l].queue \union {Event(rec[l].next, l)}
      /\ x.next = rec[l].next + 1
      /\ x.pc = rec[l].pc /\ x.tried = rec[l].tried /\ x.persisted = rec[l].persisted
      /\ x.phase = rec[l].phase /\ x.call = rec[l].call /\ x.batch = rec[l].batch
      /\ x.got = rec[l].got /\ x.ask = rec[l].ask /\ x.last = rec[l].last
  BY <1>1, <1>4 DEF Recorder, Phase
<1> HIDE DEF x
<1>6. TypeOK' /\ Only(l) /\ rec'[l] = x
  BY <1>1, <1>2, <1>3, <1>4, <1>5, LifeTyped
<1> QED BY <1>5, <1>6 DEF KeepsRequest, KeepsAsk

LEMMA TraceNumbers ==
  ASSUME WorldTypeOK
  PROVE  /\ MaxSeq + 2 \in Nat /\ \A e \in trace : e.n \in 1 .. MaxSeq + 2
         /\ Highest(trace) \in 0 .. MaxSeq + 2
         /\ 1 .. Highest(trace) \subseteq Numbers(trace)
         /\ \A k \in Nat : 1 .. k \subseteq Numbers(trace) => k <= Highest(trace)
         /\ Top(trace) \in 0 .. MaxSeq + 2 /\ \A e \in trace : e.n <= Top(trace)
         /\ Top(trace) # 0 => \E e \in trace : e.n = Top(trace)
<1>1. MaxSeq + 2 \in Nat /\ \A e \in trace : e.n \in 1 .. MaxSeq + 2
  BY SizesAssumption DEF WorldTypeOK, ClientEvent, ServerEvent, Number
<1> QED BY <1>1, HighestFacts, TopFacts

LEMMA OpenEffect ==
  ASSUME TypeOK, NEW l \in Lives, Open(l), orderly' = orderly
  PROVE  /\ TypeOK' /\ Only(l)
         /\ rec'[l].pc = "opening" /\ rec'[l].next = acked' + 1
         /\ acked' # None /\ (acked = None => acked' = 0) /\ (acked # None => acked' = acked)
         /\ rec'[l].phase = rec[l].phase
         /\ KeepsQueue(l) /\ KeepsRequest(l) /\ KeepsAsk(l)
<1> DEFINE known == IF acked = None THEN 0 ELSE acked
<1>1. known \in 0 .. MaxSeq /\ known + 1 \in 1 .. MaxSeq + 3 /\ known # None
  BY SizesAssumption, NamesAssumption DEF TypeOK, WorldTypeOK
<1>2. (acked = None => known = 0) /\ (acked # None => known = acked)
  OBVIOUS
<1> DEFINE x == [rec[l] EXCEPT !.pc = "opening", !.next = known + 1]
<1>3. rec[l] \in Recorder /\ rec[l].queue \subseteq Recorded /\ rec[l].batch \subseteq Recorded
  BY DEF TypeOK, LivesTypeOK
<1>4. rec' = [rec EXCEPT ![l] = x] /\ acked' = known
      /\ UNCHANGED <<trace, ended, store, durable, late, orderly>>
  BY DEF Open, TypeOK, LivesTypeOK
<1> HIDE DEF known
<1>5. WorldTypeOK'
  BY <1>1, <1>4 DEF TypeOK, WorldTypeOK
<1>6. /\ x \in Recorder /\ x.pc = "opening" /\ x.next = known + 1
      /\ x.queue = rec[l].queue /\ x.tried = rec[l].tried /\ x.persisted = rec[l].persisted
      /\ x.phase = rec[l].phase /\ x.call = rec[l].call /\ x.batch = rec[l].batch
      /\ x.got = rec[l].got /\ x.ask = rec[l].ask /\ x.last = rec[l].last
  BY <1>1, <1>3 DEF Recorder, Phase
<1> HIDE DEF x
<1>7. TypeOK' /\ Only(l) /\ rec'[l] = x
  BY <1>3, <1>4, <1>5, <1>6, LifeTyped
<1> QED BY <1>1, <1>2, <1>4, <1>6, <1>7 DEF KeepsQueue, KeepsRequest, KeepsAsk

LEMMA AskStateEffect ==
  ASSUME TypeOK, NEW l \in Lives, AskState(l), orderly' = orderly
  PROVE  /\ TypeOK' /\ Only(l)
         /\ rec'[l].pc = "asked" /\ rec'[l].got \in {Highest(trace) + 1, 1}
         /\ rec'[l].next = rec[l].next /\ rec'[l].phase = rec[l].phase
         /\ rec'[l].call = rec[l].call /\ rec'[l].batch = rec[l].batch
         /\ KeepsQueue(l) /\ KeepsAsk(l)
<1>1. PICK answer \in {Highest(trace) + 1, 1} :
        rec' = [rec EXCEPT ![l].pc = "asked", ![l].got = answer]
  BY DEF AskState
<1>2. answer \in 0 .. MaxSeq + 3
  BY TraceNumbers, SizesAssumption DEF TypeOK
<1> DEFINE x == [rec[l] EXCEPT !.pc = "asked", !.got = answer]
<1>3. rec[l] \in Recorder /\ rec[l].queue \subseteq Recorded /\ rec[l].batch \subseteq Recorded
  BY DEF TypeOK, LivesTypeOK
<1>4. rec' = [rec EXCEPT ![l] = x]
  BY <1>1 DEF TypeOK, LivesTypeOK
<1>5. WorldTypeOK'
  BY WorldSame DEF AskState
<1>6. /\ x \in Recorder /\ x.pc = "asked" /\ x.got = answer /\ x.next = rec[l].next
      /\ x.queue = rec[l].queue /\ x.tried = rec[l].tried /\ x.persisted = rec[l].persisted
      /\ x.phase = rec[l].phase /\ x.call = rec[l].call /\ x.batch = rec[l].batch
      /\ x.ask = rec[l].ask /\ x.last = rec[l].last
  BY <1>2, <1>3 DEF Recorder, Phase
<1> HIDE DEF x
<1>7. TypeOK' /\ Only(l) /\ rec'[l] = x
  BY <1>3, <1>4, <1>5, <1>6, LifeTyped
<1> QED BY <1>6, <1>7 DEF KeepsQueue, KeepsAsk

LEMMA FinishOpenEffect ==
  ASSUME TypeOK, NEW l \in Lives, FinishOpen(l), orderly' = orderly
  PROVE  /\ TypeOK' /\ Only(l)
         /\ rec'[l].pc = "open" /\ rec'[l].got = 0
         /\ \E first \in Nat :
               /\ first \in {rec[l].got, rec[l].persisted + 1, rec[l].next}
               /\ rec[l].got <= first /\ rec[l].persisted + 1 <= first
               /\ rec[l].next <= first
               /\ rec'[l].next = (IF first = 1 THEN 2 ELSE first)
               /\ rec'[l].queue = (IF first = 1 THEN {Event(1, "opened")} ELSE rec[l].queue)
         /\ rec'[l].tried = rec[l].tried /\ rec'[l].persisted = rec[l].persisted
         /\ rec'[l].call = rec[l].call /\ rec'[l].batch = rec[l].batch
         /\ rec'[l].phase = rec[l].phase /\ KeepsAsk(l)
<1> DEFINE S == {rec[l].got, rec[l].persisted + 1, rec[l].next}
           first == Max(S)
           next == IF first = 1 THEN 2 ELSE first
           queue == IF first = 1 THEN {Event(1, "opened")} ELSE rec[l].queue
           x == [rec[l] EXCEPT !.pc = "open", !.got = 0, !.next = next, !.queue = queue]
<1>1. rec[l] \in Recorder /\ rec[l].queue \subseteq Recorded /\ rec[l].batch \subseteq Recorded
  BY DEF TypeOK, LivesTypeOK
<1>2. rec' = [rec EXCEPT ![l] = x] /\ UNCHANGED <<trace, ended, store, acked, durable, late, orderly>>
  BY DEF FinishOpen, TypeOK, LivesTypeOK
<1>3. WorldTypeOK'
  BY <1>2, WorldSame
<1>4. MaxSeq \in Nat /\ MaxSeq # 0 /\ 0 \in 0 .. MaxSeq + 3
  BY SizesAssumption
<1>5. /\ S \in SUBSET Nat /\ S # {} /\ \A y \in S : y <= MaxSeq + 3
      /\ rec[l].next # 0
  BY <1>1, <1>4 DEF Recorder
<1>6. Max(S) \in S /\ \A y \in S : y <= Max(S)
  <2>1. MaxSeq + 3 \in Nat
    BY <1>4
  <2> QED BY <1>5, <2>1, NatMax
<1>7. /\ first \in 1 .. MaxSeq + 3 /\ first \in S
      /\ rec[l].got <= first /\ rec[l].persisted + 1 <= first /\ rec[l].next <= first
  <2> HIDE DEF first
  <2>1. /\ first \in S /\ first <= MaxSeq + 3
        /\ rec[l].got <= first /\ rec[l].persisted + 1 <= first /\ rec[l].next <= first
    BY <1>5, <1>6 DEF first
  <2>2. rec[l].next \in Nat \ {0} /\ first \in Nat
    BY <1>1, <1>4, <1>5, <2>1 DEF Recorder
  <2> QED BY <1>4, <2>1, <2>2
<1> HIDE DEF first
<1>8. /\ next \in 1 .. MaxSeq + 3 /\ queue \subseteq Recorded /\ queue \subseteq ClientEvent
  <2>1. Event(1, "opened") \in Recorded
    BY <1>4 DEF Event, Recorded
  <2> QED BY <1>1, <1>4, <1>7, <2>1, RecordedFacts
<1> HIDE DEF next, queue
<1>9. /\ x \in Recorder
      /\ x.pc = "open" /\ x.got = 0 /\ x.next = next /\ x.queue = queue
      /\ x.tried = rec[l].tried /\ x.persisted = rec[l].persisted /\ x.phase = rec[l].phase
      /\ x.call = rec[l].call /\ x.batch = rec[l].batch
      /\ x.ask = rec[l].ask /\ x.last = rec[l].last
  BY <1>1, <1>4, <1>8, Zenon DEF Recorder, Phase
<1> HIDE DEF x
<1>10. TypeOK' /\ Only(l) /\ rec'[l] = x
  BY <1>1, <1>2, <1>3, <1>8, <1>9, LifeTyped
<1>11. first \in Nat
  BY <1>4, <1>7
<1> QED BY <1>7, <1>9, <1>10, <1>11 DEF KeepsAsk, next, queue

LEMMA PersistEffect ==
  ASSUME TypeOK, NEW l \in Lives, Persist(l), orderly' = orderly
  PROVE  /\ TypeOK' /\ Only(l)
         /\ \E e \in NextToWrite(l) :
               /\ rec'[l].tried = e.n /\ rec'[l].persisted = e.n
               /\ store' = {f \in store : f.n # e.n} \union {e}
               /\ durable' = durable \union {e}
         /\ rec'[l].queue = rec[l].queue /\ rec'[l].phase = rec[l].phase
         /\ KeepsPlace(l) /\ KeepsRequest(l) /\ KeepsAsk(l)
<1>1. PICK e \in NextToWrite(l) :
        /\ store' = {f \in store : f.n # e.n} \union {e}
        /\ durable' = durable \union {e}
        /\ rec' = [rec EXCEPT ![l].tried = e.n, ![l].persisted = e.n]
  BY DEF Persist
<1> DEFINE x == [rec[l] EXCEPT !.tried = e.n, !.persisted = e.n]
<1>2. rec[l] \in Recorder /\ rec[l].queue \subseteq Recorded /\ rec[l].batch \subseteq Recorded
  BY DEF TypeOK, LivesTypeOK
<1>3. e \in Recorded /\ e.n \in 0 .. MaxSeq + 2
  BY <1>2, RecordedFacts DEF NextToWrite
<1>4. rec' = [rec EXCEPT ![l] = x] /\ UNCHANGED <<trace, ended, acked, late, orderly>>
  BY <1>1 DEF Persist, TypeOK, LivesTypeOK
<1>5. WorldTypeOK'
  BY <1>1, <1>3, <1>4 DEF TypeOK, WorldTypeOK
<1>6. /\ x \in Recorder /\ x.tried = e.n /\ x.persisted = e.n
      /\ x.pc = rec[l].pc /\ x.next = rec[l].next /\ x.queue = rec[l].queue
      /\ x.phase = rec[l].phase /\ x.call = rec[l].call /\ x.batch = rec[l].batch
      /\ x.got = rec[l].got /\ x.ask = rec[l].ask /\ x.last = rec[l].last
  BY <1>2, <1>3 DEF Recorder, Phase
<1> HIDE DEF x
<1>7. TypeOK' /\ Only(l) /\ rec'[l] = x
  BY <1>2, <1>4, <1>5, <1>6, LifeTyped
<1> QED BY <1>1, <1>6, <1>7 DEF KeepsPlace, KeepsRequest, KeepsAsk

LEMMA BeaconEffect ==
  ASSUME TypeOK, NEW l \in Lives, Beacon(l), orderly' = orderly
  PROVE  TypeOK' /\ rec' = rec /\ late' = late \union {ReadyBatch(l)}
<1>1. ReadyBatch(l) \subseteq Recorded
  BY DEF TypeOK, LivesTypeOK, ReadyBatch
<1>2. WorldTypeOK'
  BY <1>1, WorldSame DEF Beacon
<1> QED BY <1>2 DEF Beacon, TypeOK, LivesTypeOK

LEMMA ReceiveEffect ==
  ASSUME TypeOK, NEW l \in Lives, Receive(l), orderly' = orderly
  PROVE  /\ TypeOK' /\ Only(l)
         /\ rec'[l].call = "none" /\ rec'[l].batch = {} /\ rec'[l].got = 0
         /\ \/ /\ \A e \in rec[l].batch : AckedThrough(l) < e.n
               /\ UNCHANGED <<store, acked>> /\ KeepsQueue(l)
               /\ rec'[l].ask \in {rec[l].ask, "none"}
            \/ /\ store' = {e \in store : e.n > AckedThrough(l)}
               /\ acked' = (IF acked # None /\ acked < AckedThrough(l)
                              THEN AckedThrough(l) ELSE acked)
               /\ rec'[l].queue = {e \in rec[l].queue : e.n > AckedThrough(l)}
               /\ rec'[l].tried = rec[l].tried /\ rec'[l].persisted = rec[l].persisted
               /\ rec'[l].ask = rec[l].ask
               /\ rec'[l].phase = "failed" => rec[l].phase = "failed"
         /\ rec'[l].last = rec[l].last /\ KeepsPlace(l)
         /\ AckedThrough(l) \in 0 .. MaxSeq
         /\ AckedThrough(l) \in {Top(rec[l].batch), rec[l].got}
         /\ AckedThrough(l) <= Top(rec[l].batch) /\ AckedThrough(l) <= rec[l].got
<1> DEFINE through == AckedThrough(l)
           left == {e \in rec[l].queue : e.n > through}
           failed == \A e \in rec[l].batch : through < e.n
           idle == {e \in left : e.n <= rec[l].persisted} = {}
           phase == IF rec[l].phase \in Stopped THEN rec[l].phase
                    ELSE IF idle THEN "idle" ELSE "sending"
           ask == IF rec[l].ask = "flush" THEN "none" ELSE rec[l].ask
           x == [rec[l] EXCEPT !.call = "none", !.batch = {}, !.got = 0,
                               !.phase = "failed", !.ask = ask]
           y == [rec[l] EXCEPT !.call = "none", !.batch = {}, !.got = 0,
                               !.queue = left, !.phase = phase]
<1>1. rec[l] \in Recorder /\ rec[l].queue \subseteq Recorded /\ rec[l].batch \subseteq Recorded
  BY DEF TypeOK, LivesTypeOK
<1>2. MaxSeq \in Nat /\ 0 \in 0 .. MaxSeq + 3
  BY SizesAssumption
<1>3. /\ through \in 0 .. MaxSeq /\ through \in {Top(rec[l].batch), rec[l].got}
      /\ through <= Top(rec[l].batch) /\ through <= rec[l].got
  <2> DEFINE S == {Top(rec[l].batch), rec[l].got}
  <2>1. Top(rec[l].batch) \in 0 .. MaxSeq
    BY <1>1, <1>2, TopFacts, RecordedFacts
  <2>2. S \in SUBSET Nat /\ S # {}
    BY <1>1, <1>2, <2>1 DEF Recorder
  <2>3. Min(S) \in S /\ \A z \in S : Min(S) <= z
    BY <2>2, NatMin
  <2>4. through = Min(S)
    BY DEF AckedThrough
  <2> HIDE DEF through
  <2>5. through \in Nat /\ through \in S /\ through <= Top(rec[l].batch) /\ through <= rec[l].got
    BY <2>2, <2>3, <2>4
  <2> QED BY <1>2, <2>1, <2>5
<1>4. UNCHANGED <<trace, ended, late, durable, orderly>>
  BY DEF Receive
<1> HIDE DEF through
<1>5. left \subseteq Recorded /\ left \subseteq ClientEvent /\ left \in SUBSET ClientEvent
  BY <1>1, RecordedFacts
<1>6. ask \in {"none", "flush", "snapshot", "submit", "end", "done"} /\ ask \in {rec[l].ask, "none"}
  BY <1>1 DEF Recorder
<1>7. phase \in Phase /\ (phase = "failed" => rec[l].phase = "failed")
  BY <1>1 DEF Recorder, Phase
<1>8. CASE failed
  <2>1. rec' = [rec EXCEPT ![l] = x] /\ UNCHANGED <<store, acked>>
    BY <1>8 DEF Receive, TypeOK, LivesTypeOK, through
  <2>2. WorldTypeOK'
    BY <1>4, <2>1, WorldSame
  <2> HIDE DEF ask
  <2>3. /\ x \in Recorder /\ x.call = "none" /\ x.batch = {} /\ x.got = 0 /\ x.ask = ask
        /\ x.pc = rec[l].pc /\ x.next = rec[l].next /\ x.queue = rec[l].queue
        /\ x.tried = rec[l].tried /\ x.persisted = rec[l].persisted /\ x.last = rec[l].last
    <3>1. x \in Recorder
      <4>1. PICK a \in {"none", "flush", "snapshot", "submit", "end", "done"},
                 f \in Phase, g \in 0 .. MaxSeq + 3 :
              x = [rec[l] EXCEPT !.call = "none", !.batch = {}, !.got = g, !.phase = f, !.ask = a]
        <5>1. "failed" \in Phase
          BY DEF Phase
        <5> QED BY <1>2, <1>6, <5>1
      <4> HIDE DEF x
      <4> QED BY <1>1, <4>1 DEF Recorder
    <3>2. x.call = "none" /\ x.batch = {} /\ x.got = 0 /\ x.ask = ask
      BY <1>1, Zenon DEF Recorder
    <3>3. /\ x.pc = rec[l].pc /\ x.next = rec[l].next /\ x.queue = rec[l].queue
          /\ x.tried = rec[l].tried /\ x.persisted = rec[l].persisted
          /\ x.last = rec[l].last
      BY <1>1, Zenon DEF Recorder
    <3> QED BY <3>1, <3>2, <3>3
  <2> HIDE DEF x
  <2>4. TypeOK' /\ Only(l) /\ rec'[l] = x
    BY <1>1, <2>1, <2>2, <2>3, LifeTyped
  <2> HIDE DEF failed
  <2> QED BY <1>3, <1>6, <1>8, <2>1, <2>3, <2>4 DEF KeepsQueue, KeepsPlace, failed, through
<1>9. CASE ~failed
  <2>1. /\ rec' = [rec EXCEPT ![l] = y]
        /\ store' = {e \in store : e.n > through}
        /\ acked' = IF acked # None /\ acked < through THEN through ELSE acked
    BY <1>9 DEF Receive, TypeOK, LivesTypeOK, through
  <2>2. WorldTypeOK'
    BY <1>3, <1>4, <2>1 DEF TypeOK, WorldTypeOK
  <2> HIDE DEF left, phase
  <2>3. /\ y \in Recorder /\ y.call = "none" /\ y.batch = {} /\ y.got = 0 /\ y.queue = left
        /\ y.pc = rec[l].pc /\ y.next = rec[l].next /\ y.ask = rec[l].ask /\ y.phase = phase
        /\ y.tried = rec[l].tried /\ y.persisted = rec[l].persisted /\ y.last = rec[l].last
    BY <1>1, <1>2, <1>5, <1>7 DEF Recorder
  <2> HIDE DEF y
  <2>4. TypeOK' /\ Only(l) /\ rec'[l] = y
    BY <1>1, <1>5, <2>1, <2>2, <2>3, LifeTyped
  <2>5. /\ rec'[l].queue = {e \in rec[l].queue : e.n > through}
        /\ rec'[l].phase = "failed" => rec[l].phase = "failed"
    BY <1>7, <2>3, <2>4 DEF left
  <2> QED BY <1>3, <2>1, <2>3, <2>4, <2>5 DEF KeepsPlace, through
<1> QED BY <1>8, <1>9

LEMMA ReceiveRefusalEffect ==
  ASSUME TypeOK, NEW l \in Lives, ReceiveRefusal(l), orderly' = orderly
  PROVE  /\ TypeOK' /\ Only(l)
         /\ rec[l].call \in {"closed", "denied", "conflict"}
         /\ rec'[l].call = "none" /\ rec'[l].batch = {} /\ rec'[l].got = rec[l].got
         /\ rec'[l].phase = "failed" => rec[l].call = "conflict"
         /\ rec'[l].ask \in {rec[l].ask, "none"} /\ rec'[l].last = rec[l].last
         /\ KeepsPlace(l) /\ KeepsQueue(l)
<1> DEFINE ask == IF rec[l].ask = "flush" THEN "none" ELSE rec[l].ask
           phase == Outcome[rec[l].call]
           x == [rec[l] EXCEPT !.call = "none", !.batch = {}, !.phase = phase, !.ask = ask]
<1>1. rec[l] \in Recorder /\ rec[l].queue \subseteq Recorded /\ rec[l].batch \subseteq Recorded
  BY DEF TypeOK, LivesTypeOK
<1>2. rec' = [rec EXCEPT ![l] = x] /\ UNCHANGED <<trace, ended, store, acked, durable, late, orderly>>
  BY DEF ReceiveRefusal, TypeOK, LivesTypeOK
<1>3. WorldTypeOK'
  BY <1>2, WorldSame
<1>4. /\ rec[l].call \in {"closed", "denied", "conflict"}
      /\ phase \in Phase /\ (phase = "failed" => rec[l].call = "conflict")
  <2>1. rec[l].call \in {"closed", "denied", "conflict"}
    BY DEF ReceiveRefusal, Outcome
  <2> QED BY <2>1 DEF Outcome, Phase
<1>5. ask \in {"none", "flush", "snapshot", "submit", "end", "done"} /\ ask \in {rec[l].ask, "none"}
  BY <1>1 DEF Recorder
<1> HIDE DEF ask, phase
<1>6. /\ x \in Recorder /\ x.call = "none" /\ x.batch = {} /\ x.phase = phase /\ x.ask = ask
      /\ x.pc = rec[l].pc /\ x.next = rec[l].next /\ x.queue = rec[l].queue
      /\ x.tried = rec[l].tried /\ x.persisted = rec[l].persisted
      /\ x.got = rec[l].got /\ x.last = rec[l].last
  BY <1>1, <1>4, <1>5 DEF Recorder
<1> HIDE DEF x
<1>7. TypeOK' /\ Only(l) /\ rec'[l] = x
  BY <1>1, <1>2, <1>3, <1>6, LifeTyped
<1> QED BY <1>4, <1>5, <1>6, <1>7 DEF KeepsPlace, KeepsQueue

LEMMA GiveUpEffect ==
  ASSUME TypeOK, NEW l \in Lives, GiveUp(l), orderly' = orderly
  PROVE  /\ TypeOK' /\ Only(l)
         /\ rec'[l].call = "none" /\ rec'[l].batch = {} /\ rec'[l].phase = "retrying"
         /\ late' = late \/ (rec[l].call = "sent" /\ late' = late \union {rec[l].batch})
         /\ KeepsPlace(l) /\ KeepsQueue(l) /\ KeepsAsk(l)
<1> DEFINE x == [rec[l] EXCEPT !.call = "none", !.batch = {}, !.got = 0, !.phase = "retrying"]
<1>1. rec[l] \in Recorder /\ rec[l].queue \subseteq Recorded /\ rec[l].batch \subseteq Recorded
  BY DEF TypeOK, LivesTypeOK
<1>2. /\ rec' = [rec EXCEPT ![l] = x] /\ UNCHANGED <<trace, ended, store, acked, durable, orderly>>
      /\ late' = late \/ (rec[l].call = "sent" /\ late' = late \union {rec[l].batch})
  BY DEF GiveUp, TypeOK, LivesTypeOK
<1>3. WorldTypeOK'
  BY <1>1, <1>2, WorldSame
<1>4. 0 \in 0 .. MaxSeq + 3
  BY SizesAssumption
<1>5. /\ x \in Recorder /\ x.call = "none" /\ x.batch = {} /\ x.phase = "retrying"
      /\ x.pc = rec[l].pc /\ x.next = rec[l].next /\ x.queue = rec[l].queue
      /\ x.tried = rec[l].tried /\ x.persisted = rec[l].persisted
      /\ x.ask = rec[l].ask /\ x.last = rec[l].last
  BY <1>1, <1>4, Zenon DEF Recorder, Phase
<1> HIDE DEF x
<1>6. TypeOK' /\ Only(l) /\ rec'[l] = x
  BY <1>1, <1>2, <1>3, <1>5, LifeTyped
<1> QED BY <1>2, <1>5, <1>6 DEF KeepsPlace, KeepsQueue, KeepsAsk

LEMMA IngestEffect ==
  ASSUME TypeOK, NEW l \in Lives, Ingest(l), orderly' = orderly
  PROVE  /\ TypeOK' /\ Only(l) /\ rec[l].call = "sent"
         /\ \/ ended /\ rec'[l].call = "closed" /\ trace' = trace
            \/ /\ ~ended /\ Conflicting(rec[l].batch)
               /\ rec'[l].call = "conflict" /\ trace' = trace
            \/ /\ ~ended /\ ~Conflicting(rec[l].batch)
               /\ rec'[l].call = "stored" /\ trace' = trace \union rec[l].batch
         /\ rec'[l].batch = rec[l].batch /\ rec'[l].got = rec[l].got
         /\ rec'[l].phase = rec[l].phase /\ KeepsPlace(l) /\ KeepsQueue(l) /\ KeepsAsk(l)
<1>1. PICK c \in {"closed", "conflict", "stored"} :
        /\ rec' = [rec EXCEPT ![l].call = c]
        /\ \/ ended /\ c = "closed" /\ trace' = trace
           \/ ~ended /\ Conflicting(rec[l].batch) /\ c = "conflict" /\ trace' = trace
           \/ /\ ~ended /\ ~Conflicting(rec[l].batch)
              /\ c = "stored" /\ trace' = trace \union rec[l].batch
  BY Zenon DEF Ingest
<1> DEFINE x == [rec[l] EXCEPT !.call = c]
<1>2. rec[l] \in Recorder /\ rec[l].queue \subseteq Recorded /\ rec[l].batch \subseteq Recorded
  BY DEF TypeOK, LivesTypeOK
<1>3. rec' = [rec EXCEPT ![l] = x]
  BY <1>1 DEF TypeOK, LivesTypeOK
<1>4. WorldTypeOK'
  BY <1>1, <1>2, RecordedFacts DEF Ingest, TypeOK, WorldTypeOK
<1>5. /\ x \in Recorder /\ x.call = c /\ x.batch = rec[l].batch /\ x.phase = rec[l].phase
      /\ x.pc = rec[l].pc /\ x.next = rec[l].next /\ x.queue = rec[l].queue
      /\ x.tried = rec[l].tried /\ x.persisted = rec[l].persisted
      /\ x.got = rec[l].got /\ x.ask = rec[l].ask /\ x.last = rec[l].last
  BY <1>2 DEF Recorder
<1> HIDE DEF x
<1>6. TypeOK' /\ Only(l) /\ rec'[l] = x
  BY <1>2, <1>3, <1>4, <1>5, LifeTyped
<1>7. rec[l].call = "sent"
  BY DEF Ingest
<1> QED BY <1>1, <1>5, <1>6, <1>7 DEF KeepsPlace, KeepsQueue, KeepsAsk

LEMMA IngestLateEffect ==
  ASSUME TypeOK, IngestLate, orderly' = orderly
  PROVE  /\ TypeOK' /\ rec' = rec
         /\ \E B \in late :
               /\ late' = late \ {B}
               /\ \/ trace' = trace
                  \/ ~ended /\ ~Conflicting(B) /\ trace' = trace \union B
<1>1. PICK B \in late :
        /\ late' = late \ {B}
        /\ trace' = IF ended \/ Conflicting(B) THEN trace ELSE trace \union B
        /\ UNCHANGED <<ended, store, acked, rec, durable>>
  BY DEF IngestLate
<1>2. B \subseteq Recorded
  BY DEF TypeOK, WorldTypeOK
<1>3. trace' = trace \/ (~ended /\ ~Conflicting(B) /\ trace' = trace \union B)
  BY <1>1, Zenon
<1>4. WorldTypeOK'
  BY <1>1, <1>2, <1>3, RecordedFacts DEF TypeOK, WorldTypeOK
<1> QED BY <1>1, <1>3, <1>4 DEF TypeOK, LivesTypeOK

\* What the end of a session adds: one or two marks of the server above everything.
LEMMA AppendEndEffect ==
  ASSUME WorldTypeOK, ~ended, NEW submitted \in BOOLEAN, AppendEnd(submitted),
         UNCHANGED <<store, acked, durable, late, orderly>>
  PROVE  /\ WorldTypeOK' /\ ended' /\ trace \subseteq trace'
         /\ \E M : /\ trace' = trace \union M
                   /\ \A e \in M : e.c \in ServerMarks
                   /\ \/ \E e : M = {e} /\ e.n = Top(trace) + 1
                      \/ \E e, f : M = {e, f} /\ e.n = Top(trace) + 1 /\ f.n = Top(trace) + 2
<1> DEFINE top == Top(trace)
           d == Event(top + 1, "submitted")
           e == Event(top + 2, "ended")
           f == Event(top + 1, "ended")
<1>1. top \in 0 .. MaxSeq /\ MaxSeq \in Nat
  <2>1. MaxSeq \in Nat /\ \A a \in trace : a.n \in 1 .. MaxSeq
    BY RecordedFacts DEF WorldTypeOK
  <2> QED BY <2>1, TopFacts
<1>2. ended' = TRUE /\ trace' = trace \union (IF submitted THEN {d, e} ELSE {f})
  BY DEF AppendEnd
<1> HIDE DEF top
<1>3. /\ {d, e, f} \subseteq ServerEvent
      /\ d.n = top + 1 /\ e.n = top + 2 /\ f.n = top + 1
      /\ \A a \in {d, e, f} : a.c \in ServerMarks
  BY <1>1 DEF Event, ServerEvent, Number, ServerMarks
<1> HIDE DEF d, e, f
<1>4. WorldTypeOK'
  BY <1>2, <1>3 DEF WorldTypeOK
<1>5. CASE submitted
  BY <1>2, <1>3, <1>4, <1>5 DEF top
<1>6. CASE ~submitted
  BY <1>2, <1>3, <1>4, <1>6 DEF top
<1> QED BY <1>5, <1>6

LEMMA EndSessionEffect ==
  ASSUME TypeOK, NEW l \in Lives, EndSession(l), orderly' = orderly
  PROVE  /\ TypeOK' /\ Only(l) /\ ~ended /\ \E submitted \in BOOLEAN : AppendEnd(submitted)
         /\ rec'[l].ask = "done"
         /\ rec'[l].last = rec[l].last /\ rec'[l].phase = rec[l].phase
         /\ KeepsPlace(l) /\ KeepsQueue(l) /\ KeepsRequest(l)
<1> DEFINE x == [rec[l] EXCEPT !.ask = "done"]
<1>1. rec[l] \in Recorder /\ rec[l].queue \subseteq Recorded /\ rec[l].batch \subseteq Recorded
  BY DEF TypeOK, LivesTypeOK
<1>2. /\ rec' = [rec EXCEPT ![l] = x] /\ UNCHANGED <<store, acked, durable, late, orderly>>
      /\ ~ended /\ \E submitted \in BOOLEAN : AppendEnd(submitted)
  <2>1. (rec[l].ask = "submit") \in BOOLEAN
    OBVIOUS
  <2> QED BY <2>1 DEF EndSession, TypeOK, LivesTypeOK
<1>3. WorldTypeOK'
  BY <1>2, AppendEndEffect DEF TypeOK
<1>4. /\ x \in Recorder /\ x.ask = "done" /\ x.last = rec[l].last /\ x.phase = rec[l].phase
      /\ x.pc = rec[l].pc /\ x.next = rec[l].next /\ x.queue = rec[l].queue
      /\ x.tried = rec[l].tried /\ x.persisted = rec[l].persisted
      /\ x.call = rec[l].call /\ x.batch = rec[l].batch /\ x.got = rec[l].got
  BY <1>1 DEF Recorder
<1> HIDE DEF x
<1>5. TypeOK' /\ Only(l) /\ rec'[l] = x
  BY <1>1, <1>2, <1>3, <1>4, LifeTyped
<1> QED BY <1>2, <1>4, <1>5 DEF KeepsPlace, KeepsQueue, KeepsRequest

LEMMA ServerEndsEffect ==
  ASSUME TypeOK, ServerEnds, orderly' = orderly
  PROVE  /\ TypeOK' /\ rec' = rec /\ ~ended /\ \E submitted \in BOOLEAN : AppendEnd(submitted)
         /\ UNCHANGED <<store, acked, durable, late>>
<1>1. WorldTypeOK'
  BY AppendEndEffect DEF ServerEnds, TypeOK
<1> QED BY <1>1 DEF ServerEnds, TypeOK, LivesTypeOK

LEMMA FinishEffect ==
  ASSUME TypeOK, NEW l \in Lives, Finish(l), orderly' = orderly
  PROVE  /\ TypeOK' /\ Only(l) /\ rec[l].ask = "done"
         /\ rec'[l].ask = "none" /\ rec'[l].last = 0 /\ rec'[l].phase = "closed"
         /\ \/ rec[l].queue = {} /\ store' = {} /\ acked' = None
            \/ UNCHANGED <<store, acked>>
         /\ KeepsPlace(l) /\ KeepsQueue(l) /\ KeepsRequest(l)
<1> DEFINE x == [rec[l] EXCEPT !.ask = "none", !.last = 0, !.phase = "closed"]
<1>1. rec[l] \in Recorder /\ rec[l].queue \subseteq Recorded /\ rec[l].batch \subseteq Recorded
  BY DEF TypeOK, LivesTypeOK
<1>2. /\ rec' = [rec EXCEPT ![l] = x] /\ UNCHANGED <<trace, ended, durable, late, orderly>>
      /\ rec[l].ask = "done"
      /\ \/ rec[l].queue = {} /\ store' = {} /\ acked' = None
         \/ UNCHANGED <<store, acked>>
  BY DEF Finish, TypeOK, LivesTypeOK
<1>3. WorldTypeOK'
  BY <1>2 DEF TypeOK, WorldTypeOK
<1>4. 0 \in 0 .. MaxSeq + 2
  BY SizesAssumption
<1>5. /\ x \in Recorder /\ x.ask = "none" /\ x.last = 0 /\ x.phase = "closed"
      /\ x.pc = rec[l].pc /\ x.next = rec[l].next /\ x.queue = rec[l].queue
      /\ x.tried = rec[l].tried /\ x.persisted = rec[l].persisted
      /\ x.call = rec[l].call /\ x.batch = rec[l].batch /\ x.got = rec[l].got
  BY <1>1, <1>4, Zenon DEF Recorder, Phase
<1> HIDE DEF x
<1>6. TypeOK' /\ Only(l) /\ rec'[l] = x
  BY <1>1, <1>2, <1>3, <1>5, LifeTyped
<1> QED BY <1>2, <1>5, <1>6 DEF KeepsPlace, KeepsQueue, KeepsRequest

LEMMA NewRecorderFacts ==
  /\ NewRecorder \in Recorder /\ NewRecorder.pc = "unused" /\ NewRecorder.queue = {}
  /\ NewRecorder.tried = 0 /\ NewRecorder.persisted = 0 /\ NewRecorder.phase = "idle"
  /\ NewRecorder.call = "none" /\ NewRecorder.batch = {} /\ NewRecorder.ask = "none"
BY SizesAssumption DEF NewRecorder, Recorder, Phase

LEMMA PageGoneEffect ==
  ASSUME TypeOK, NEW l \in Lives, PageGone(l), orderly' = orderly
  PROVE  /\ TypeOK' /\ Only(l)
         /\ rec'[l].pc = "gone" /\ rec'[l].queue = {} /\ rec'[l].tried = 0
         /\ rec'[l].persisted = 0
         /\ rec'[l].phase = "idle" /\ rec'[l].call = "none" /\ rec'[l].batch = {}
         /\ rec'[l].ask = "none"
         /\ late' = late \/ (rec[l].call = "sent" /\ late' = late \union {rec[l].batch})
<1> DEFINE x == [NewRecorder EXCEPT !.pc = "gone"]
<1>1. rec[l].batch \subseteq Recorded
  BY DEF TypeOK, LivesTypeOK
<1>2. /\ rec' = [rec EXCEPT ![l] = x] /\ UNCHANGED <<trace, ended, store, acked, durable, orderly>>
      /\ late' = late \/ (rec[l].call = "sent" /\ late' = late \union {rec[l].batch})
  BY DEF PageGone, TypeOK, LivesTypeOK
<1>3. WorldTypeOK'
  BY <1>1, <1>2, WorldSame
<1>4. /\ x \in Recorder /\ x.pc = "gone" /\ x.queue = {} /\ x.tried = 0 /\ x.persisted = 0
      /\ x.phase = "idle" /\ x.call = "none" /\ x.batch = {} /\ x.ask = "none"
  BY NewRecorderFacts DEF Recorder
<1> HIDE DEF x
<1>5. TypeOK' /\ Only(l) /\ rec'[l] = x
  BY <1>2, <1>3, <1>4, LifeTyped
<1> QED BY <1>2, <1>4, <1>5

-----------------------------------------------------------------------------
(* What the lives share only grows.                                        *)

Grows ==
    /\ trace \subseteq trace' /\ (ended => ended')
    /\ ~ended' => Numbers(store) \subseteq Numbers(store') \union Numbers(trace')

LEMMA GrowsFacts ==
  ASSUME Grows
  PROVE  Numbers(trace) \subseteq Numbers(trace') /\ Numbers(ClientTrace) \subseteq Numbers(ClientTrace')
BY DEF Grows, Numbers, ClientTrace

\* What was sound stays so.
LEMMA SoundKept ==
  ASSUME Grows, NEW B, Sound(B)
  PROVE  Sound(B)'
BY GrowsFacts DEF Grows, Sound, Covered, OnePerNumber

\* A life that does nothing.
LEMMA LifeKept ==
  ASSUME NEW m \in Lives, LifeFits(rec[m]), Grows, rec'[m] = rec[m]
  PROVE  LifeFits(rec[m])'
<1>1. /\ Numbers(trace) \subseteq Numbers(trace')
      /\ Numbers(ClientTrace) \subseteq Numbers(ClientTrace')
      /\ ended => ended'
      /\ ~ended' => Numbers(store) \subseteq Numbers(store') \union Numbers(trace')
  BY GrowsFacts DEF Grows
<1>2. OpeningFits(rec[m])'
  BY <1>1 DEF LifeFits, OpeningFits, Covered
<1>3. QueueFits(rec[m])'
  BY <1>1 DEF LifeFits, QueueFits, OnePerNumber, KnownUpTo, Stuck
<1>4. RequestFits(rec[m])'
  BY <1>1, SoundKept DEF LifeFits, RequestFits
<1> QED BY <1>2, <1>3, <1>4 DEF LifeFits

\* A step of one life, and the rest.
LEMMA OneLife ==
  ASSUME GapFreeInv, NEW l \in Lives, Only(l), Grows, LifeFits(rec[l])',
         TraceGapFree', StoreFits', \A B \in late' : Sound(B)'
  PROVE  GapFreeInv'
<1>1. ASSUME NEW m \in Lives PROVE LifeFits(rec[m])'
  <2>1. CASE m = l
    BY <2>1
  <2>2. CASE m # l
    <3>1. LifeFits(rec[m]) /\ rec'[m] = rec[m]
      BY <2>2 DEF GapFreeInv, Only
    <3> QED BY <3>1, LifeKept
  <2> QED BY <2>1, <2>2
<1> QED BY <1>1 DEF GapFreeInv

\* A step that touches neither the store nor the server.
LEMMA Inside ==
  ASSUME GapFreeInv, NEW l \in Lives, Only(l), LifeFits(rec[l])',
         UNCHANGED <<trace, ended, store, acked>>,
         late' = late \/ \E B : Sound(B) /\ late' = late \union {B}
  PROVE  GapFreeInv'
<1>1. Grows
  BY DEF Grows
<1>2. TraceGapFree'
  BY DEF GapFreeInv, TraceGapFree
<1>3. StoreFits'
  BY <1>1, SoundKept DEF GapFreeInv, StoreFits, ClientTrace
<1>4. \A B \in late' : Sound(B)
  BY DEF GapFreeInv
<1>5. \A B \in late' : Sound(B)'
  BY <1>1, <1>4, SoundKept
<1> QED BY <1>1, <1>2, <1>3, <1>5, OneLife

\* The batch is a beginning of what is written down of the queue.
LEMMA ReadyBatchFacts ==
  ASSUME TypeOK, NEW l \in Lives, IsFiniteSet(rec[l].queue)
  PROVE  /\ ReadyBatch(l) \subseteq rec[l].queue
         /\ \A e \in ReadyBatch(l) : e.n <= rec[l].persisted
         /\ \A e \in ReadyBatch(l), f \in rec[l].queue : f.n <= e.n => f \in ReadyBatch(l)
<1> DEFINE R == {e \in rec[l].queue : e.n <= rec[l].persisted}
           Below(e) == {f \in R : f.n < e.n}
<1>1. ReadyBatch(l) = {e \in R : Cardinality(Below(e)) < MaxBatch}
  BY DEF ReadyBatch
<1>2. IsFiniteSet(R)
  BY FS_Subset
<1>3. ASSUME NEW e \in ReadyBatch(l), NEW f \in rec[l].queue, f.n <= e.n
      PROVE  f \in ReadyBatch(l)
  <2>1. rec[l].persisted \in Nat /\ \A g \in rec[l].queue : g.n \in Nat
    BY RecordedFacts DEF TypeOK, LivesTypeOK, Recorder
  <2>2. e \in rec[l].queue /\ e.n <= rec[l].persisted /\ Cardinality(Below(e)) < MaxBatch
    BY <1>1
  <2>3. f \in R
    BY <1>3, <2>1, <2>2
  <2>4. Below(f) \subseteq Below(e)
    BY <1>3, <2>1, <2>2
  <2>5. Below(e) \subseteq R
    OBVIOUS
  <2> HIDE DEF Below, R
  <2>6. /\ IsFiniteSet(Below(e)) /\ Cardinality(Below(e)) \in Nat
        /\ IsFiniteSet(Below(f)) /\ Cardinality(Below(f)) \in Nat
        /\ Cardinality(Below(f)) <= Cardinality(Below(e))
    BY <1>2, <2>4, <2>5, FS_Subset, FS_CardinalityType
  <2> QED BY <1>1, <2>2, <2>3, <2>6, SizesAssumption
<1> QED BY <1>1, <1>3

LEMMA ReadyBatchSound ==
  ASSUME TypeOK, NEW l \in Lives, LifeFits(rec[l]), rec[l].pc = "open"
  PROVE  Sound(ReadyBatch(l))
<1>1. /\ OnePerNumber(rec[l].queue) /\ IsFiniteSet(rec[l].queue)
      /\ \A e \in rec[l].queue : e.n < rec[l].next
      /\ KnownUpTo(rec[l], rec[l].next - 1) \/ Stuck(rec[l])
  BY DEF LifeFits, QueueFits
<1>2. /\ ReadyBatch(l) \subseteq rec[l].queue
      /\ \A e \in ReadyBatch(l), f \in rec[l].queue : f.n <= e.n => f \in ReadyBatch(l)
  BY <1>1, ReadyBatchFacts
<1>3. OnePerNumber(ReadyBatch(l))
  BY <1>1, <1>2 DEF OnePerNumber
<1>4. ASSUME ~ended, NEW e \in ReadyBatch(l), NEW k \in 1 .. e.n
      PROVE  k \in Numbers(ReadyBatch(l)) \union Numbers(trace)
  <2>1. e \in rec[l].queue /\ e.n < rec[l].next /\ e.n \in Nat /\ rec[l].next \in Nat
    BY <1>1, <1>2, RecordedFacts DEF TypeOK, LivesTypeOK, Recorder
  <2>2. k \in Numbers(rec[l].queue) \union Numbers(trace)
    BY <1>1, <1>4, <2>1 DEF KnownUpTo, Stuck
  <2>3. ASSUME NEW f \in rec[l].queue, f.n = k
        PROVE  k \in Numbers(ReadyBatch(l))
    BY <1>2, <2>1, <2>3 DEF Numbers
  <2> QED BY <2>2, <2>3 DEF Numbers
<1> QED BY <1>3, <1>4 DEF Sound, Covered

LEMMA EventEq ==
  \A e, f \in ClientEvent \union ServerEvent : e.n = f.n /\ e.c = f.c => e = f
BY DEF ClientEvent, ServerEvent

-----------------------------------------------------------------------------
(* Every action keeps the trace free of gaps.                              *)

\* A life at work that leaves its queue alone.
LEMMA WorkKept ==
  ASSUME NEW l \in Lives, LifeFits(rec[l]), Grows, KeepsQueue(l),
         rec'[l].pc \in {"open", "disposed"}, rec[l].pc \in {"open", "disposed"},
         rec'[l].next = rec[l].next,
         rec'[l].call \in {"stored", "answered"} =>
             rec[l].call \in {"stored", "answered"} \/ ~ended
  PROVE  OpeningFits(rec[l])' /\ QueueFits(rec[l])'
<1>1. /\ Numbers(trace) \subseteq Numbers(trace') /\ (ended => ended')
      /\ ~ended' => Numbers(store) \subseteq Numbers(store') \union Numbers(trace')
  BY GrowsFacts DEF Grows
<1>2. OpeningFits(rec[l])'
  BY DEF OpeningFits
<1>3. QueueFits(rec[l])'
  BY <1>1 DEF KeepsQueue, LifeFits, QueueFits, OnePerNumber, KnownUpTo, Stuck
<1> QED BY <1>2, <1>3

\* A life whose request or submit is not over is at work.
LEMMA AtWork ==
  ASSUME NEW l \in Lives, LifeFits(rec[l]), rec[l].call # "none" \/ rec[l].ask # "none"
  PROVE  rec[l].pc \in {"open", "disposed"}
BY DEF LifeFits, OpeningFits

LEMMA OpenFits ==
  ASSUME TypeOK, GapFreeInv, NEW l \in Lives, Open(l), orderly' = orderly
  PROVE  GapFreeInv'
<1>1. /\ LifeFits(rec[l]) /\ Only(l) /\ UNCHANGED <<trace, ended, store, late>>
      /\ rec[l].pc = "unused" /\ rec'[l].pc = "opening" /\ rec'[l].next = acked' + 1
      /\ acked' # None /\ (acked = None => acked' = 0) /\ (acked # None => acked' = acked)
      /\ rec'[l].queue = rec[l].queue /\ rec'[l].tried = rec[l].tried
      /\ rec'[l].persisted = rec[l].persisted /\ rec'[l].call = rec[l].call
      /\ rec'[l].ask = rec[l].ask
  BY OpenEffect DEF Open, GapFreeInv, KeepsQueue, KeepsRequest, KeepsAsk
<1>2. Grows
  BY <1>1 DEF Grows
<1>3. 1 .. acked' \subseteq Numbers(ClientTrace) /\ ClientTrace' = ClientTrace
      /\ acked' \in Nat
  BY <1>1, RecordedFacts DEF GapFreeInv, StoreFits, ClientTrace, TypeOK, WorldTypeOK
<1>4. 1 .. acked' \subseteq Numbers(trace)
  BY <1>3 DEF ClientTrace, Numbers
<1>5. LifeFits(rec[l])'
  <2>1. OpeningFits(rec[l])'
    <3>1. acked' \in Nat /\ rec'[l].next = acked' + 1
      BY <1>1, <1>3
    <3>2. rec'[l].next - 1 = acked'
      <4>1. PICK k \in Nat : k = acked' /\ rec'[l].next = k + 1
        BY <3>1
      <4>2. \A x : x = k + 1 => x - 1 = k
        OBVIOUS
      <4>3. rec'[l].next - 1 = k
        BY <4>1, <4>2, Zenon
      <4> QED BY <4>1, <4>3
    <3> QED BY <1>1, <1>4, <3>2 DEF LifeFits, OpeningFits
  <2>2. QueueFits(rec[l])'
    BY <1>1 DEF LifeFits, OpeningFits, QueueFits, OnePerNumber
  <2>3. RequestFits(rec[l])'
    BY <1>1 DEF LifeFits, OpeningFits, RequestFits
  <2> QED BY <2>1, <2>2, <2>3 DEF LifeFits
<1>6. StoreFits'
  BY <1>1, <1>2, <1>3, SoundKept DEF GapFreeInv, StoreFits
<1>7. TraceGapFree' /\ \A B \in late' : Sound(B)'
  BY <1>1, <1>2, SoundKept DEF GapFreeInv, TraceGapFree
<1> QED BY <1>1, <1>2, <1>5, <1>6, <1>7, OneLife

LEMMA LoadFits ==
  ASSUME TypeOK, GapFreeInv, NEW l \in Lives, Load(l), orderly' = orderly
  PROVE  GapFreeInv'
<1>1. /\ LifeFits(rec[l]) /\ Only(l) /\ UNCHANGED <<trace, ended, store, acked, late>>
      /\ rec[l].pc = "opening" /\ rec'[l].pc = "loaded" /\ rec'[l].next = rec[l].next
      /\ rec'[l].queue = store /\ rec'[l].tried = Top(store) /\ rec'[l].persisted = Top(store)
      /\ rec'[l].call = rec[l].call /\ rec'[l].ask = rec[l].ask
  BY LoadEffect DEF Load, GapFreeInv, KeepsRequest, KeepsAsk
<1>2. OnePerNumber(store) /\ IsFiniteSet(store) /\ (~ended => Covered(store))
  BY DEF GapFreeInv, StoreFits, Sound
<1>3. OpeningFits(rec[l])'
  BY <1>1, <1>2 DEF LifeFits, OpeningFits, Covered
<1>4. QueueFits(rec[l])'
  BY <1>1, <1>2 DEF QueueFits, OnePerNumber, Numbers
<1>5. RequestFits(rec[l])'
  BY <1>1 DEF LifeFits, OpeningFits, RequestFits
<1> QED BY <1>1, <1>3, <1>4, <1>5, Inside DEF LifeFits

LEMMA AskStateFits ==
  ASSUME TypeOK, GapFreeInv, NEW l \in Lives, AskState(l), orderly' = orderly
  PROVE  GapFreeInv'
<1>1. /\ LifeFits(rec[l]) /\ Only(l) /\ UNCHANGED <<trace, ended, store, acked, late>>
      /\ rec[l].pc = "loaded" /\ rec'[l].pc = "asked" /\ rec'[l].next = rec[l].next
      /\ rec'[l].queue = rec[l].queue /\ rec'[l].tried = rec[l].tried
      /\ rec'[l].persisted = rec[l].persisted
      /\ rec'[l].call = rec[l].call /\ rec'[l].ask = rec[l].ask
      /\ rec'[l].got \in {Highest(trace) + 1, 1}
  BY AskStateEffect DEF AskState, GapFreeInv, KeepsQueue, KeepsAsk
<1>2. 1 .. rec'[l].got - 1 \subseteq Numbers(trace)
  <2>1. Highest(trace) \in Nat /\ 1 .. Highest(trace) \subseteq Numbers(trace)
    BY TraceNumbers DEF TypeOK
  <2> QED BY <1>1, <2>1
<1>3. OpeningFits(rec[l])'
  BY <1>1, <1>2 DEF LifeFits, OpeningFits, Covered
<1>4. QueueFits(rec[l])'
  BY <1>1 DEF LifeFits, QueueFits, OnePerNumber
<1>5. RequestFits(rec[l])'
  BY <1>1 DEF LifeFits, OpeningFits, RequestFits
<1> QED BY <1>1, <1>3, <1>4, <1>5, Inside DEF LifeFits

LEMMA FinishOpenFits ==
  ASSUME TypeOK, GapFreeInv, NEW l \in Lives, FinishOpen(l), orderly' = orderly
  PROVE  GapFreeInv'
<1>1. /\ LifeFits(rec[l]) /\ Only(l) /\ UNCHANGED <<trace, ended, store, acked, late>>
      /\ rec[l].pc = "asked" /\ rec'[l].pc = "open"
      /\ rec'[l].tried = rec[l].tried /\ rec'[l].persisted = rec[l].persisted
      /\ rec'[l].call = rec[l].call /\ rec'[l].ask = rec[l].ask
  BY FinishOpenEffect DEF FinishOpen, GapFreeInv, KeepsAsk
<1>2. PICK first \in Nat :
        /\ first \in {rec[l].got, rec[l].persisted + 1, rec[l].next}
        /\ rec[l].got <= first /\ rec[l].persisted + 1 <= first /\ rec[l].next <= first
        /\ rec'[l].next = (IF first = 1 THEN 2 ELSE first)
        /\ rec'[l].queue = (IF first = 1 THEN {Event(1, "opened")} ELSE rec[l].queue)
  BY FinishOpenEffect
<1>3. /\ rec[l].persisted \in Nat /\ rec[l].next \in Nat /\ rec[l].got \in Nat
      /\ rec[l].next # 0 /\ rec[l].queue \subseteq Recorded /\ MaxSeq \in Nat
  BY SizesAssumption DEF TypeOK, LivesTypeOK, Recorder
<1>4. /\ rec[l].persisted = Top(rec[l].queue) /\ (~ended => Covered(rec[l].queue))
      /\ 1 .. rec[l].next - 1 \subseteq Numbers(trace)
      /\ 1 .. rec[l].got - 1 \subseteq Numbers(trace)
      /\ rec[l].call = "none" /\ rec[l].ask = "none"
      /\ OnePerNumber(rec[l].queue) /\ IsFiniteSet(rec[l].queue)
      /\ rec[l].tried = rec[l].persisted
      /\ ~ended => \A e \in rec[l].queue :
                     e.n <= rec[l].persisted => e.n \in Numbers(store) \union Numbers(trace)
  BY <1>1 DEF LifeFits, OpeningFits, QueueFits
<1>5. /\ \A e \in rec[l].queue : e.n \in Nat /\ e.n # 0 /\ e.n <= rec[l].persisted
      /\ rec[l].persisted # 0 => \E e \in rec[l].queue : e.n = rec[l].persisted
  <2>1. \A e \in rec[l].queue : e.n \in 1 .. MaxSeq
    BY <1>3, RecordedFacts
  <2>2. /\ \A e \in rec[l].queue : e.n <= Top(rec[l].queue)
        /\ Top(rec[l].queue) # 0 => \E e \in rec[l].queue : e.n = Top(rec[l].queue)
    BY <1>3, <2>1, TopFacts
  <2> QED BY <1>4, <2>1, <2>2
<1>6. OpeningFits(rec[l])'
  BY <1>1 DEF OpeningFits
<1>7. RequestFits(rec[l])'
  BY <1>1, <1>4 DEF RequestFits
<1>8. QueueFits(rec[l])'
  <2>1. CASE first = 1
    <3> DEFINE e == Event(1, "opened")
    <3>1. rec'[l].next = 2 /\ rec'[l].queue = {e} /\ rec[l].persisted = 0
      BY <1>2, <1>3, <2>1
    <3>2. e.n = 1 /\ IsFiniteSet({e})
      BY FS_Singleton DEF Event
    <3> HIDE DEF e
    <3>3. Numbers({e}) = {1}
      BY <3>2 DEF Numbers
    <3>4. \A k \in 1 .. 1 : k = 1
      OBVIOUS
    <3>5. OnePerNumber(rec'[l].queue) /\ IsFiniteSet(rec'[l].queue)
      BY <3>1, <3>2 DEF OnePerNumber
    <3>6. KnownUpTo(rec[l], rec[l].next - 1)'
      BY <3>1, <3>3, <3>4 DEF KnownUpTo
    <3>7. \A f \in rec'[l].queue : f.n = 1
      BY <3>1, <3>2
    <3>8. rec'[l].persisted = 0 /\ rec'[l].tried = 0
      BY <1>1, <1>4, <3>1
    <3> QED BY <3>1, <3>5, <3>6, <3>7, <3>8 DEF QueueFits, OnePerNumber
  <2>2. CASE first # 1
    <3>1. rec'[l].next = first /\ rec'[l].queue = rec[l].queue
      BY <1>2, <2>2
    <3>2. rec[l].persisted < first /\ \A e \in rec[l].queue : e.n < first
      BY <1>2, <1>3, <1>5
    <3>3. 1 .. first - 1 \subseteq Numbers(rec[l].queue) \union Numbers(trace)
            \/ (ended /\ rec[l].queue # {})
      <4>1. CASE first = rec[l].got
        BY <1>4, <4>1
      <4>2. CASE first = rec[l].next
        BY <1>4, <4>2
      <4>3. CASE first = rec[l].persisted + 1
        <5>1. PICK e \in rec[l].queue : e.n = rec[l].persisted
          BY <1>3, <1>5, <2>2, <4>3
        <5>2. first - 1 = e.n
          BY <1>3, <4>3, <5>1
        <5>3. ended \/ 1 .. e.n \subseteq Numbers(rec[l].queue) \union Numbers(trace)
          BY <1>4, <5>1 DEF Covered
        <5> QED BY <5>1, <5>2, <5>3
      <4> QED BY <1>2, <4>1, <4>2, <4>3
    <3> QED BY <1>1, <1>4, <3>1, <3>2, <3>3 DEF QueueFits, OnePerNumber, KnownUpTo, Stuck
  <2> QED BY <2>1, <2>2
<1> QED BY <1>1, <1>6, <1>7, <1>8, Inside DEF LifeFits

LEMMA RecordFits ==
  ASSUME TypeOK, GapFreeInv, NEW l \in Lives, Record(l), orderly' = orderly
  PROVE  GapFreeInv'
<1> DEFINE e == Event(rec[l].next, l)
<1>1. /\ LifeFits(rec[l]) /\ Only(l) /\ UNCHANGED <<trace, ended, store, acked, late>>
      /\ rec[l].pc = "open" /\ rec'[l].pc = "open" /\ rec'[l].next = rec[l].next + 1
      /\ rec'[l].queue = rec[l].queue \union {e}
      /\ rec'[l].tried = rec[l].tried /\ rec'[l].persisted = rec[l].persisted
      /\ rec'[l].call = rec[l].call /\ rec'[l].ask = rec[l].ask
      /\ rec'[l].batch = rec[l].batch /\ rec'[l].got = rec[l].got
      /\ rec'[l].last = rec[l].last
  BY RecordEffect DEF Record, GapFreeInv, KeepsRequest, KeepsAsk
<1>2. e.n = rec[l].next /\ rec[l].next \in Nat /\ rec[l].tried \in Nat
      /\ \A f \in rec[l].queue : f.n \in Nat
  BY RecordedFacts DEF Event, TypeOK, LivesTypeOK, Recorder
<1> HIDE DEF e
<1>3. OpeningFits(rec[l])'
  BY <1>1 DEF OpeningFits
<1>4. RequestFits(rec[l])'
  BY <1>1 DEF LifeFits, RequestFits, Sound, OnePerNumber, Covered, ClientTrace
<1>5. /\ OnePerNumber(rec[l].queue) /\ IsFiniteSet(rec[l].queue)
      /\ rec[l].tried = rec[l].persisted /\ rec[l].tried < rec[l].next
      /\ \A f \in rec[l].queue : f.n < rec[l].next
      /\ KnownUpTo(rec[l], rec[l].next - 1) \/ Stuck(rec[l])
      /\ ~ended => \A f \in rec[l].queue :
                     f.n <= rec[l].persisted => f.n \in Numbers(store) \union Numbers(trace)
  BY <1>1 DEF LifeFits, QueueFits
<1>6. OnePerNumber(rec'[l].queue) /\ IsFiniteSet(rec'[l].queue)
  BY <1>1, <1>2, <1>5, FS_AddElement DEF OnePerNumber
<1>7. KnownUpTo(rec[l], rec[l].next - 1) =>
        1 .. rec'[l].next - 1 \subseteq Numbers(rec'[l].queue) \union Numbers(trace)
  <2>1. Numbers(rec'[l].queue) = Numbers(rec[l].queue) \union {rec[l].next}
    BY <1>1, <1>2 DEF Numbers
  <2>2. \A k \in 1 .. rec'[l].next - 1 : k \in 1 .. rec[l].next - 1 \/ k = rec[l].next
    BY <1>1, <1>2
  <2> QED BY <2>1, <2>2 DEF KnownUpTo
<1>8. /\ rec'[l].tried < rec'[l].next /\ \A f \in rec'[l].queue : f.n < rec'[l].next
      /\ ~ended => \A f \in rec'[l].queue :
                     f.n <= rec'[l].persisted => f.n \in Numbers(store) \union Numbers(trace)
  BY <1>1, <1>2, <1>5
<1>9. Stuck(rec[l]) => Stuck(rec[l])'
  BY <1>1 DEF Stuck
<1>10. QueueFits(rec[l])'
  BY <1>1, <1>5, <1>6, <1>7, <1>8, <1>9 DEF QueueFits, KnownUpTo, OnePerNumber
<1> QED BY <1>1, <1>3, <1>4, <1>10, Inside DEF LifeFits

\* The event that is written next, and what its number says.
LEMMA NextToWriteFacts ==
  ASSUME TypeOK, NEW l \in Lives, LifeFits(rec[l]), NEW e \in NextToWrite(l)
  PROVE  /\ e \in rec[l].queue /\ e.n \in Nat /\ e.n > rec[l].tried
         /\ rec[l].tried = rec[l].persisted /\ rec[l].persisted \in Nat
         /\ \A f \in rec[l].queue : f.n \in Nat /\ (f.n <= rec[l].persisted \/ f = e \/ f.n > e.n)
<1>1. rec[l].tried \in Nat /\ \A f \in rec[l].queue : f.n \in Nat
  BY RecordedFacts DEF TypeOK, LivesTypeOK, Recorder
<1>2. rec[l].tried = rec[l].persisted /\ OnePerNumber(rec[l].queue)
  BY DEF LifeFits, QueueFits
<1>3. /\ e \in rec[l].queue /\ e.n > rec[l].tried
      /\ \A f \in rec[l].queue : f.n > rec[l].tried => e.n <= f.n
  BY DEF NextToWrite
<1> QED BY <1>1, <1>2, <1>3 DEF OnePerNumber

LEMMA PersistFits ==
  ASSUME TypeOK, GapFreeInv, NEW l \in Lives, Persist(l), orderly' = orderly
  PROVE  GapFreeInv'
<1>1. PICK e \in NextToWrite(l) :
        /\ rec'[l].tried = e.n /\ rec'[l].persisted = e.n
        /\ store' = {f \in store : f.n # e.n} \union {e}
  BY PersistEffect
<1>2. /\ LifeFits(rec[l]) /\ Only(l) /\ UNCHANGED <<trace, ended, acked, late>>
      /\ rec[l].pc \in {"open", "disposed"} /\ rec'[l].pc = rec[l].pc
      /\ rec'[l].next = rec[l].next /\ rec'[l].queue = rec[l].queue
      /\ rec'[l].call = rec[l].call /\ rec'[l].batch = rec[l].batch
      /\ rec'[l].got = rec[l].got
      /\ rec'[l].ask = rec[l].ask /\ rec'[l].last = rec[l].last
  BY PersistEffect DEF Persist, GapFreeInv, KeepsPlace, KeepsRequest, KeepsAsk
<1>3. /\ e \in rec[l].queue /\ e.n \in Nat
      /\ \A f \in rec[l].queue : f.n \in Nat /\ (f.n <= rec[l].persisted \/ f = e \/ f.n > e.n)
  BY <1>2, NextToWriteFacts
<1>4. Numbers(store') = Numbers(store) \union {e.n}
  BY <1>1 DEF Numbers
<1>5. Grows
  BY <1>2, <1>4 DEF Grows
<1>6. /\ OnePerNumber(rec[l].queue) /\ IsFiniteSet(rec[l].queue)
      /\ \A f \in rec[l].queue : f.n < rec[l].next
      /\ KnownUpTo(rec[l], rec[l].next - 1) \/ Stuck(rec[l])
      /\ ~ended => \A f \in rec[l].queue :
                     f.n <= rec[l].persisted => f.n \in Numbers(store) \union Numbers(trace)
  BY <1>2 DEF LifeFits, QueueFits
<1>7. ~ended => \A f \in rec[l].queue : f.n <= e.n => f.n \in Numbers(store') \union Numbers(trace)
  BY <1>3, <1>4, <1>6
<1>8. OpeningFits(rec[l])'
  BY <1>2 DEF OpeningFits
<1>9. QueueFits(rec[l])'
  <2>1. KnownUpTo(rec[l], rec[l].next - 1)' \/ Stuck(rec[l])'
    BY <1>2, <1>6 DEF KnownUpTo, Stuck
  <2>2. e.n < rec[l].next
    BY <1>3, <1>6
  <2> QED BY <1>1, <1>2, <1>6, <1>7, <2>1, <2>2 DEF QueueFits, OnePerNumber
<1>10. RequestFits(rec[l])'
  BY <1>2 DEF LifeFits, RequestFits, Sound, OnePerNumber, Covered, ClientTrace
<1>11. StoreFits'
  <2>1. Sound(store) /\ IsFiniteSet(store) /\ (acked # None => 1 .. acked \subseteq Numbers(ClientTrace))
    BY DEF GapFreeInv, StoreFits
  <2>2. OnePerNumber(store')
    BY <1>1, <2>1 DEF Sound, OnePerNumber
  <2>3. IsFiniteSet(store')
    <3>1. IsFiniteSet({f \in store : f.n # e.n})
      BY <2>1, FS_Subset
    <3> QED BY <1>1, <3>1, FS_AddElement
  <2>4. ASSUME ~ended, NEW f \in store'
        PROVE  1 .. f.n \subseteq Numbers(store') \union Numbers(trace)
    <3>1. CASE f \in store
      BY <1>4, <2>1, <2>4, <3>1 DEF Sound, Covered
    <3>2. CASE f = e
      <4> SUFFICES ASSUME NEW k \in 1 .. e.n PROVE k \in Numbers(store') \union Numbers(trace)
        BY <3>2
      <4>1. rec[l].next \in Nat /\ k <= e.n /\ k \in Nat /\ k # 0
        BY <1>3 DEF TypeOK, LivesTypeOK, Recorder
      <4>2. k \in Numbers(rec[l].queue) \union Numbers(trace)
        BY <1>3, <1>6, <2>4, <4>1 DEF KnownUpTo, Stuck
      <4>3. ASSUME NEW q \in rec[l].queue, q.n = k PROVE k \in Numbers(store') \union Numbers(trace)
        BY <1>7, <2>4, <4>1, <4>3
      <4> QED BY <4>2, <4>3 DEF Numbers
    <3> QED BY <1>1, <2>4, <3>1, <3>2
  <2> QED BY <1>2, <2>1, <2>2, <2>3, <2>4 DEF StoreFits, Sound, Covered, OnePerNumber,
             ClientTrace
<1>12. TraceGapFree' /\ \A B \in late' : Sound(B)'
  BY <1>2, <1>5, SoundKept DEF GapFreeInv, TraceGapFree
<1> QED BY <1>2, <1>5, <1>8, <1>9, <1>10, <1>11, <1>12, OneLife DEF LifeFits

\* Nothing is given out for the life, the world is still: what remains is the request.
LEMMA RequestStep ==
  ASSUME GapFreeInv, NEW l \in Lives, Only(l), UNCHANGED <<trace, ended, store, acked>>,
         late' = late \/ \E B : Sound(B) /\ late' = late \union {B},
         KeepsQueue(l), rec'[l].pc \in {"open", "disposed"}, rec[l].pc \in {"open", "disposed"},
         rec'[l].next = rec[l].next,
         rec'[l].call \in {"stored", "answered"} =>
             rec[l].call \in {"stored", "answered"} \/ ~ended,
         RequestFits(rec[l])'
  PROVE  GapFreeInv'
<1>1. LifeFits(rec[l]) /\ Grows
  BY DEF GapFreeInv, Grows
<1>2. OpeningFits(rec[l])' /\ QueueFits(rec[l])'
  BY <1>1, WorkKept
<1> QED BY <1>2, Inside DEF LifeFits

LEMMA SendFits ==
  ASSUME TypeOK, GapFreeInv, NEW l \in Lives, Send(l), orderly' = orderly
  PROVE  GapFreeInv'
<1>1. /\ LifeFits(rec[l]) /\ Only(l) /\ UNCHANGED <<trace, ended, store, acked, late>>
      /\ rec[l].pc = "open" /\ ReadyBatch(l) # {}
      /\ rec'[l].call = "sent" /\ rec'[l].batch = ReadyBatch(l)
      /\ KeepsPlace(l) /\ KeepsQueue(l) /\ KeepsAsk(l)
  BY SendEffect DEF Send, MaySend, GapFreeInv
<1>2. Sound(ReadyBatch(l))
  BY <1>1, ReadyBatchSound
<1>3. RequestFits(rec[l])'
  BY <1>1, <1>2 DEF LifeFits, RequestFits, Sound, OnePerNumber, Covered, KeepsAsk
<1> QED BY <1>1, <1>3, RequestStep DEF KeepsPlace

LEMMA BeaconFits ==
  ASSUME TypeOK, GapFreeInv, NEW l \in Lives, Beacon(l), orderly' = orderly
  PROVE  GapFreeInv'
<1>1. /\ LifeFits(rec[l]) /\ UNCHANGED <<trace, ended, store, acked, rec>>
      /\ rec[l].pc = "open" /\ late' = late \union {ReadyBatch(l)}
  BY DEF Beacon, MaySend, GapFreeInv
<1>2. Sound(ReadyBatch(l)) /\ Grows
  BY <1>1, ReadyBatchSound DEF Grows
<1>3. Only(l) /\ LifeFits(rec[l])'
  BY <1>1, <1>2, LifeKept DEF Only
<1> QED BY <1>1, <1>2, <1>3, Inside

LEMMA DenyFits ==
  ASSUME TypeOK, GapFreeInv, NEW l \in Lives, Deny(l), orderly' = orderly
  PROVE  GapFreeInv'
<1>1. /\ LifeFits(rec[l]) /\ Only(l) /\ UNCHANGED <<trace, ended, store, acked, late>>
      /\ rec[l].call = "sent" /\ rec'[l].call = "denied" /\ rec'[l].batch = rec[l].batch
      /\ KeepsPlace(l) /\ KeepsQueue(l) /\ KeepsAsk(l)
  BY DenyEffect DEF Deny, GapFreeInv
<1>2. RequestFits(rec[l])'
  BY <1>1 DEF LifeFits, RequestFits, KeepsAsk
<1> QED BY <1>1, <1>2, AtWork, RequestStep DEF KeepsPlace

LEMMA ReplyFits ==
  ASSUME TypeOK, GapFreeInv, NEW l \in Lives, Reply(l), orderly' = orderly
  PROVE  GapFreeInv'
<1>1. /\ LifeFits(rec[l]) /\ Only(l) /\ UNCHANGED <<trace, ended, store, acked, late>>
      /\ rec[l].call = "stored" /\ rec'[l].call = "answered" /\ rec'[l].batch = rec[l].batch
      /\ rec'[l].got = Highest(trace)
      /\ KeepsPlace(l) /\ KeepsQueue(l) /\ KeepsAsk(l)
  BY ReplyEffect DEF Reply, GapFreeInv
<1>2. rec[l].batch # {} /\ \A e \in rec[l].batch : 1 .. e.n \subseteq Numbers(ClientTrace)
  BY <1>1 DEF LifeFits, RequestFits
<1>3. Top(rec[l].batch) <= Highest(trace)
  <2>1. MaxSeq \in Nat /\ \A e \in rec[l].batch : e.n \in 1 .. MaxSeq
    BY RecordedFacts DEF TypeOK, LivesTypeOK
  <2>2. /\ Top(rec[l].batch) \in Nat
        /\ Top(rec[l].batch) # 0 => \E e \in rec[l].batch : e.n = Top(rec[l].batch)
    BY <2>1, TopFacts
  <2>3. Numbers(ClientTrace) \subseteq Numbers(trace)
    BY DEF Numbers, ClientTrace
  <2>4. Top(rec[l].batch) = 0 \/ 1 .. Top(rec[l].batch) \subseteq Numbers(trace)
    BY <1>2, <2>2, <2>3
  <2>5. Highest(trace) \in Nat /\ \A k \in Nat : 1 .. k \subseteq Numbers(trace) => k <= Highest(trace)
    BY TraceNumbers DEF TypeOK
  <2> QED BY <2>2, <2>4, <2>5
<1>4. RequestFits(rec[l])'
  BY <1>1, <1>2, <1>3 DEF LifeFits, RequestFits, KeepsAsk, ClientTrace
<1> QED BY <1>1, <1>4, AtWork, RequestStep DEF KeepsPlace

LEMMA ReceiveRefusalFits ==
  ASSUME TypeOK, GapFreeInv, NEW l \in Lives, ReceiveRefusal(l), orderly' = orderly
  PROVE  GapFreeInv'
<1>1. /\ LifeFits(rec[l]) /\ Only(l) /\ UNCHANGED <<trace, ended, store, acked, late>>
      /\ rec[l].call \in {"closed", "denied", "conflict"} /\ rec'[l].call = "none"
      /\ rec'[l].ask \in {rec[l].ask, "none"} /\ rec'[l].last = rec[l].last
      /\ KeepsPlace(l) /\ KeepsQueue(l)
  BY ReceiveRefusalEffect DEF ReceiveRefusal, GapFreeInv
<1>2. RequestFits(rec[l])'
  BY <1>1 DEF LifeFits, RequestFits
<1> QED BY <1>1, <1>2, AtWork, RequestStep DEF KeepsPlace

LEMMA GiveUpFits ==
  ASSUME TypeOK, GapFreeInv, NEW l \in Lives, GiveUp(l), orderly' = orderly
  PROVE  GapFreeInv'
<1>1. /\ LifeFits(rec[l]) /\ Only(l) /\ UNCHANGED <<trace, ended, store, acked>>
      /\ rec[l].call # "none" /\ rec'[l].call = "none"
      /\ KeepsPlace(l) /\ KeepsQueue(l) /\ KeepsAsk(l)
      /\ late' = late \/ (rec[l].call = "sent" /\ late' = late \union {rec[l].batch})
  BY GiveUpEffect DEF GiveUp, GapFreeInv
<1>2. RequestFits(rec[l])' /\ (rec[l].call = "sent" => Sound(rec[l].batch))
  BY <1>1 DEF LifeFits, RequestFits, KeepsAsk
<1> QED BY <1>1, <1>2, AtWork, RequestStep DEF KeepsPlace

LEMMA PressEndFits ==
  ASSUME TypeOK, GapFreeInv, NEW l \in Lives, PressEnd(l), orderly' = orderly
  PROVE  GapFreeInv'
<1>1. /\ LifeFits(rec[l]) /\ Only(l) /\ UNCHANGED <<trace, ended, store, acked, late>>
      /\ rec[l].pc = "open" /\ rec'[l].ask = "flush"
      /\ KeepsPlace(l) /\ KeepsQueue(l) /\ KeepsRequest(l)
  BY PressEndEffect DEF PressEnd, GapFreeInv
<1>2. RequestFits(rec[l])'
  BY <1>1 DEF LifeFits, RequestFits, KeepsRequest, Sound, OnePerNumber, Covered, ClientTrace
<1> QED BY <1>1, <1>2, RequestStep DEF KeepsPlace, KeepsRequest

LEMMA AskFailsFits ==
  ASSUME TypeOK, GapFreeInv, NEW l \in Lives, AskFails(l), orderly' = orderly
  PROVE  GapFreeInv'
<1>1. /\ LifeFits(rec[l]) /\ Only(l) /\ UNCHANGED <<trace, ended, store, acked, late>>
      /\ rec[l].ask # "none" /\ rec'[l].ask = "none"
      /\ KeepsPlace(l) /\ KeepsQueue(l) /\ KeepsRequest(l)
  BY AskFailsEffect DEF AskFails, GapFreeInv
<1>2. RequestFits(rec[l])'
  BY <1>1 DEF LifeFits, RequestFits, KeepsRequest, Sound, OnePerNumber, Covered, ClientTrace
<1> QED BY <1>1, <1>2, AtWork, RequestStep DEF KeepsPlace, KeepsRequest

LEMMA FlushedFits ==
  ASSUME TypeOK, GapFreeInv, NEW l \in Lives, Flushed(l), orderly' = orderly
  PROVE  GapFreeInv'
<1>1. /\ LifeFits(rec[l]) /\ Only(l) /\ UNCHANGED <<trace, ended, store, acked, late>>
      /\ rec[l].ask = "flush" /\ rec[l].queue = {}
      /\ rec'[l].ask \in {"snapshot", "submit", "end"} /\ rec'[l].last = rec[l].next - 1
      /\ KeepsPlace(l) /\ KeepsQueue(l) /\ KeepsRequest(l)
  BY FlushedEffect DEF Flushed, NothingQueued, GapFreeInv
<1>2. rec[l].pc \in {"open", "disposed"}
  BY <1>1, AtWork
<1>3. 1 .. rec[l].next - 1 \subseteq Numbers(trace)
  <2>1. Numbers(rec[l].queue) = {}
    BY <1>1 DEF Numbers
  <2> QED BY <1>1, <1>2, <2>1 DEF LifeFits, QueueFits, KnownUpTo, Stuck
<1>4. RequestFits(rec[l])'
  BY <1>1, <1>3 DEF LifeFits, RequestFits, KeepsRequest, Sound, OnePerNumber, Covered,
     ClientTrace
<1> QED BY <1>1, <1>2, <1>4, RequestStep DEF KeepsPlace, KeepsRequest

LEMMA SnapshotStoredFits ==
  ASSUME TypeOK, GapFreeInv, NEW l \in Lives, SnapshotStored(l), orderly' = orderly
  PROVE  GapFreeInv'
<1>1. /\ LifeFits(rec[l]) /\ Only(l) /\ UNCHANGED <<trace, ended, store, acked, late>>
      /\ rec[l].ask \in {"snapshot", "submit", "end"} /\ rec'[l].ask \in {"snapshot", "submit", "end"} /\ rec'[l].last = rec[l].last
      /\ KeepsPlace(l) /\ KeepsQueue(l) /\ KeepsRequest(l)
  BY SnapshotStoredEffect DEF SnapshotStored, GapFreeInv
<1>2. rec[l].ask # "none"
  BY <1>1
<1>3. RequestFits(rec[l])'
  BY <1>1 DEF LifeFits, RequestFits, KeepsRequest, Sound, OnePerNumber, Covered, ClientTrace
<1> QED BY <1>1, <1>2, <1>3, AtWork, RequestStep DEF KeepsPlace, KeepsRequest

LEMMA UnmountFits ==
  ASSUME TypeOK, GapFreeInv, NEW l \in Lives, Unmount(l), orderly' = orderly
  PROVE  GapFreeInv'
<1>1. /\ LifeFits(rec[l]) /\ Only(l) /\ UNCHANGED <<trace, ended, store, acked, late>>
      /\ rec[l].pc = "open" /\ rec'[l].pc = "disposed" /\ rec'[l].next = rec[l].next
      /\ KeepsQueue(l) /\ KeepsRequest(l) /\ KeepsAsk(l)
  BY UnmountEffect DEF Unmount, GapFreeInv
<1>2. RequestFits(rec[l])'
  BY <1>1 DEF LifeFits, RequestFits, KeepsRequest, KeepsAsk, Sound, OnePerNumber, Covered,
     ClientTrace
<1> QED BY <1>1, <1>2, RequestStep DEF KeepsRequest

LEMMA PageGoneFits ==
  ASSUME TypeOK, GapFreeInv, NEW l \in Lives, PageGone(l), orderly' = orderly
  PROVE  GapFreeInv'
<1>1. /\ LifeFits(rec[l]) /\ Only(l) /\ UNCHANGED <<trace, ended, store, acked>>
      /\ rec'[l].pc = "gone" /\ rec'[l].queue = {} /\ rec'[l].tried = 0
      /\ rec'[l].persisted = 0
      /\ rec'[l].call = "none" /\ rec'[l].ask = "none"
      /\ late' = late \/ (rec[l].call = "sent" /\ late' = late \union {rec[l].batch})
  BY PageGoneEffect DEF PageGone, GapFreeInv
<1>2. rec[l].call = "sent" => Sound(rec[l].batch)
  BY <1>1 DEF LifeFits, RequestFits
<1>3. OpeningFits(rec[l])'
  BY <1>1 DEF OpeningFits
<1>4. QueueFits(rec[l])'
  <2>1. IsFiniteSet({})
    BY FS_EmptySet
  <2> QED BY <1>1, <2>1 DEF QueueFits, OnePerNumber
<1>5. RequestFits(rec[l])'
  BY <1>1 DEF RequestFits
<1> QED BY <1>1, <1>2, <1>3, <1>4, <1>5, Inside DEF LifeFits

\* An answer covers its batch whole, and nothing above it.
LEMMA AnswerFacts ==
  ASSUME TypeOK, NEW l \in Lives, LifeFits(rec[l]), Receive(l), orderly' = orderly
  PROVE  /\ AckedThrough(l) \in Nat
         /\ 1 .. AckedThrough(l) \subseteq Numbers(ClientTrace)
         /\ ~ \A e \in rec[l].batch : AckedThrough(l) < e.n
<1>1. /\ AckedThrough(l) \in {Top(rec[l].batch), rec[l].got}
      /\ AckedThrough(l) <= Top(rec[l].batch) /\ AckedThrough(l) <= rec[l].got
  BY ReceiveEffect
<1>2. MaxSeq \in Nat /\ \A e \in rec[l].batch : e.n \in 1 .. MaxSeq
  BY RecordedFacts DEF TypeOK, LivesTypeOK
<1>3. /\ Top(rec[l].batch) \in Nat /\ rec[l].got \in Nat
      /\ \A e \in rec[l].batch : e.n <= Top(rec[l].batch)
      /\ Top(rec[l].batch) # 0 => \E e \in rec[l].batch : e.n = Top(rec[l].batch)
  BY <1>2, TopFacts DEF TypeOK, LivesTypeOK, Recorder
<1>4. /\ rec[l].batch # {} /\ \A e \in rec[l].batch : 1 .. e.n \subseteq Numbers(ClientTrace)
      /\ Top(rec[l].batch) <= rec[l].got
  BY DEF Receive, LifeFits, RequestFits
<1>5. AckedThrough(l) = Top(rec[l].batch)
  BY <1>1, <1>3, <1>4
<1>6. PICK e \in rec[l].batch : e.n = Top(rec[l].batch)
  BY <1>2, <1>3, <1>4
<1> QED BY <1>3, <1>4, <1>5, <1>6

LEMMA ReceiveFits ==
  ASSUME TypeOK, GapFreeInv, NEW l \in Lives, Receive(l), orderly' = orderly
  PROVE  GapFreeInv'
<1> DEFINE through == AckedThrough(l)
<1>1. /\ LifeFits(rec[l]) /\ Only(l) /\ UNCHANGED <<trace, ended, late>>
      /\ rec[l].call = "answered" /\ rec'[l].call = "none"
      /\ rec'[l].tried = rec[l].tried /\ rec'[l].persisted = rec[l].persisted
      /\ rec'[l].last = rec[l].last /\ KeepsPlace(l)
  BY ReceiveEffect DEF Receive, GapFreeInv, KeepsQueue
<1>2. through \in Nat /\ 1 .. through \subseteq Numbers(ClientTrace)
  BY <1>1, AnswerFacts
<1>3. /\ store' = {e \in store : e.n > through}
      /\ acked' = (IF acked # None /\ acked < through THEN through ELSE acked)
      /\ rec'[l].queue = {e \in rec[l].queue : e.n > through}
      /\ rec'[l].ask = rec[l].ask
  BY <1>1, AnswerFacts, ReceiveEffect
<1> HIDE DEF through
<1>4. 1 .. through \subseteq Numbers(trace)
  BY <1>2 DEF ClientTrace, Numbers
<1>5. /\ \A e \in store : e.n \in Nat /\ e.n # 0
      /\ \A e \in rec[l].queue : e.n \in Nat /\ e.n # 0
  BY RecordedFacts DEF TypeOK, LivesTypeOK, WorldTypeOK
<1>6. /\ Numbers(store) \subseteq Numbers(store') \union Numbers(trace)
      /\ Numbers(rec[l].queue) \subseteq Numbers(rec'[l].queue) \union Numbers(trace)
  <2>1. \A e \in store : e \in store' \/ e.n \in 1 .. through
    BY <1>2, <1>3, <1>5
  <2>2. \A e \in rec[l].queue : e \in rec'[l].queue \/ e.n \in 1 .. through
    BY <1>2, <1>3, <1>5
  <2> QED BY <1>4, <2>1, <2>2 DEF Numbers
<1>7. Grows
  BY <1>1, <1>6 DEF Grows
<1>8. rec[l].pc \in {"open", "disposed"}
  BY <1>1, AtWork
<1>9. OpeningFits(rec[l])'
  BY <1>1, <1>8 DEF OpeningFits, KeepsPlace
<1>10. QueueFits(rec[l])'
  <2>1. /\ OnePerNumber(rec[l].queue) /\ IsFiniteSet(rec[l].queue)
        /\ rec[l].tried = rec[l].persisted /\ rec[l].tried < rec[l].next
        /\ \A f \in rec[l].queue : f.n < rec[l].next
        /\ KnownUpTo(rec[l], rec[l].next - 1)
        /\ ~ended => \A f \in rec[l].queue :
                       f.n <= rec[l].persisted => f.n \in Numbers(store) \union Numbers(trace)
    BY <1>1, <1>8 DEF LifeFits, QueueFits, Stuck
  <2>2. rec'[l].queue \subseteq rec[l].queue
    BY <1>3
  <2>3. OnePerNumber(rec'[l].queue) /\ IsFiniteSet(rec'[l].queue)
    BY <2>1, <2>2, FS_Subset DEF OnePerNumber
  <2>4. KnownUpTo(rec[l], rec[l].next - 1)'
    BY <1>1, <1>6, <2>1 DEF KnownUpTo, KeepsPlace
  <2> QED BY <1>1, <1>6, <2>1, <2>2, <2>3, <2>4 DEF QueueFits, OnePerNumber, KeepsPlace
<1>11. RequestFits(rec[l])'
  BY <1>1, <1>3 DEF LifeFits, RequestFits
<1>12. StoreFits'
  <2>1. Sound(store) /\ IsFiniteSet(store) /\ (acked # None => 1 .. acked \subseteq Numbers(ClientTrace))
    BY DEF GapFreeInv, StoreFits
  <2>2. store' \subseteq store /\ ClientTrace' = ClientTrace
    BY <1>1, <1>3 DEF ClientTrace
  <2>3. OnePerNumber(store') /\ IsFiniteSet(store')
    BY <2>1, <2>2, FS_Subset DEF OnePerNumber, Sound
  <2>4. ~ended => Covered(store)'
    BY <1>1, <1>6, <2>1, <2>2 DEF Sound, Covered
  <2>5. acked' # None => 1 .. acked' \subseteq Numbers(ClientTrace)
    BY <1>2, <1>3, <2>1
  <2> QED BY <1>1, <2>2, <2>3, <2>4, <2>5 DEF StoreFits, Sound, OnePerNumber
<1>13. TraceGapFree' /\ \A B \in late' : Sound(B)'
  BY <1>1, <1>7, SoundKept DEF GapFreeInv, TraceGapFree
<1> QED BY <1>1, <1>7, <1>9, <1>10, <1>11, <1>12, <1>13, OneLife DEF LifeFits

\* A sound batch without a conflict leaves the trace without a gap.
LEMMA BatchLands ==
  ASSUME TypeOK, GapFreeInv, ~ended, NEW B \in SUBSET Recorded, Sound(B), ~Conflicting(B),
         trace' = trace \union B, UNCHANGED <<ended, store, acked>>
  PROVE  /\ Grows /\ TraceGapFree' /\ StoreFits'
         /\ \A e \in B : 1 .. e.n \subseteq Numbers(ClientTrace')
<1>1. Grows
  BY DEF Grows
<1>2. trace \subseteq Recorded /\ ClientTrace = trace /\ ClientTrace' = trace'
  BY RecordedFacts DEF TypeOK, WorldTypeOK, ClientTrace
<1>3. Numbers(trace') = Numbers(trace) \union Numbers(B)
  BY DEF Numbers
<1>4. \A e \in trace' : 1 .. e.n \subseteq Numbers(trace')
  BY <1>3 DEF GapFreeInv, TraceGapFree, Sound, Covered
<1>5. \A e, f \in trace' : e.n = f.n => e = f
  <2>1. \A e \in B, f \in trace : e.n = f.n => e = f
    <3>1. \A e \in B, f \in trace : e.n = f.n => e.c = f.c
      BY DEF Conflicting
    <3> QED BY <1>2, <3>1, RecordedFacts, EventEq
  <2> QED BY <2>1 DEF GapFreeInv, TraceGapFree, Sound, OnePerNumber
<1>6. StoreFits'
  BY <1>1, GrowsFacts, SoundKept DEF GapFreeInv, StoreFits
<1> QED BY <1>1, <1>2, <1>4, <1>5, <1>6 DEF TraceGapFree

LEMMA IngestFits ==
  ASSUME TypeOK, GapFreeInv, NEW l \in Lives, Ingest(l), orderly' = orderly
  PROVE  GapFreeInv'
<1>1. /\ LifeFits(rec[l]) /\ Only(l) /\ UNCHANGED <<ended, store, acked, late>>
      /\ rec[l].call = "sent" /\ rec'[l].batch = rec[l].batch
      /\ KeepsPlace(l) /\ KeepsQueue(l) /\ KeepsAsk(l)
      /\ \/ rec'[l].call \in {"closed", "conflict"} /\ trace' = trace
         \/ /\ ~ended /\ ~Conflicting(rec[l].batch)
            /\ rec'[l].call = "stored" /\ trace' = trace \union rec[l].batch
  BY IngestEffect DEF Ingest, GapFreeInv
<1>2. rec[l].pc \in {"open", "disposed"}
  BY <1>1, AtWork
<1>3. CASE rec'[l].call \in {"closed", "conflict"} /\ trace' = trace
  <2>1. RequestFits(rec[l])'
    BY <1>1, <1>3 DEF LifeFits, RequestFits, KeepsAsk
  <2> QED BY <1>1, <1>2, <1>3, <2>1, RequestStep DEF KeepsPlace
<1>4. CASE /\ ~ended /\ ~Conflicting(rec[l].batch)
           /\ rec'[l].call = "stored" /\ trace' = trace \union rec[l].batch
  <2>1. rec[l].batch \in SUBSET Recorded /\ Sound(rec[l].batch) /\ rec[l].batch # {}
    BY <1>1 DEF LifeFits, RequestFits, TypeOK, LivesTypeOK
  <2>2. /\ Grows /\ TraceGapFree' /\ StoreFits'
        /\ \A e \in rec[l].batch : 1 .. e.n \subseteq Numbers(ClientTrace')
    BY <1>1, <1>4, <2>1, BatchLands
  <2>3. OpeningFits(rec[l])' /\ QueueFits(rec[l])'
    BY <1>1, <1>2, <1>4, <2>2, WorkKept DEF KeepsPlace
  <2>4. RequestFits(rec[l])'
    <3>1. rec[l].ask \in {"snapshot", "submit", "end"} => 1 .. rec[l].last \subseteq Numbers(trace')
      BY <1>1, <2>2, GrowsFacts DEF LifeFits, RequestFits
    <3> QED BY <1>1, <1>4, <2>1, <2>2, <3>1 DEF LifeFits, RequestFits, KeepsAsk
  <2>5. \A B \in late' : Sound(B)'
    BY <1>1, <2>2, SoundKept DEF GapFreeInv
  <2> QED BY <1>1, <2>2, <2>3, <2>4, <2>5, OneLife DEF LifeFits
<1> QED BY <1>1, <1>3, <1>4

\* Steps of the server alone.
LEMMA ServerStep ==
  ASSUME GapFreeInv, Grows, rec' = rec, TraceGapFree', StoreFits', late' \subseteq late
  PROVE  GapFreeInv'
<1>1. \A m \in Lives : LifeFits(rec[m])'
  BY LifeKept DEF GapFreeInv
<1>2. \A B \in late' : Sound(B)'
  BY SoundKept DEF GapFreeInv
<1> QED BY <1>1, <1>2 DEF GapFreeInv

LEMMA IngestLateFits ==
  ASSUME TypeOK, GapFreeInv, IngestLate, orderly' = orderly
  PROVE  GapFreeInv'
<1>1. PICK B \in late :
        /\ late' = late \ {B}
        /\ trace' = trace \/ (~ended /\ ~Conflicting(B) /\ trace' = trace \union B)
  BY IngestLateEffect
<1>2. rec' = rec /\ UNCHANGED <<ended, store, acked>>
  BY DEF IngestLate
<1>3. CASE trace' = trace
  <2>1. Grows
    BY <1>2, <1>3 DEF Grows
  <2>2. TraceGapFree' /\ StoreFits'
    BY <1>2, <1>3, <2>1, SoundKept DEF GapFreeInv, TraceGapFree, StoreFits, ClientTrace
  <2> QED BY <1>1, <1>2, <2>1, <2>2, ServerStep
<1>4. CASE ~ended /\ ~Conflicting(B) /\ trace' = trace \union B
  <2>1. B \in SUBSET Recorded /\ Sound(B)
    BY DEF TypeOK, WorldTypeOK, GapFreeInv
  <2>2. Grows /\ TraceGapFree' /\ StoreFits'
    BY <1>2, <1>4, <2>1, BatchLands
  <2> QED BY <1>1, <1>2, <2>2, ServerStep
<1> QED BY <1>1, <1>3, <1>4

\* The marks of the end stand above everything, without a gap.
LEMMA EndLands ==
  ASSUME TypeOK, GapFreeInv, ~ended, NEW submitted \in BOOLEAN, AppendEnd(submitted),
         UNCHANGED <<store, acked, durable, late, orderly>>
  PROVE  ended' /\ Grows /\ TraceGapFree' /\ StoreFits' /\ ClientTrace' = ClientTrace
<1>1. PICK M :
        /\ trace' = trace \union M /\ ended'
        /\ \A e \in M : e.c \in ServerMarks
        /\ \/ \E e : M = {e} /\ e.n = Top(trace) + 1
           \/ \E e, f : M = {e, f} /\ e.n = Top(trace) + 1 /\ f.n = Top(trace) + 2
  BY AppendEndEffect DEF TypeOK
<1> DEFINE top == Top(trace)
<1>2. /\ top \in Nat /\ \A e \in trace : e.n \in Nat /\ e.n <= top
      /\ top # 0 => \E e \in trace : e.n = top
  BY TraceNumbers DEF TypeOK
<1>3. Grows
  BY <1>1 DEF Grows
<1>4. ClientTrace' = ClientTrace
  BY <1>1 DEF ClientTrace
<1>5. StoreFits'
  BY <1>3, <1>4, SoundKept DEF GapFreeInv, StoreFits
<1>6. 1 .. top \subseteq Numbers(trace)
  <2>1. top = 0 \/ 1 .. top \subseteq Numbers(trace)
    BY <1>2 DEF GapFreeInv, TraceGapFree
  <2>2. \A k \in 1 .. 0 : FALSE
    OBVIOUS
  <2> QED BY <2>1, <2>2
<1> HIDE DEF top
<1>7. /\ \A e \in trace' : e \in trace \/ e.n = top + 1 \/ (e.n = top + 2 /\ top + 1 \in Numbers(M))
      /\ \A e, f \in M : e.n = f.n => e = f
      /\ \A e \in M : e.n = top + 1 \/ e.n = top + 2
  <2>1. CASE \E e : M = {e} /\ e.n = top + 1
    BY <1>1, <2>1
  <2>2. CASE \E e, f : M = {e, f} /\ e.n = top + 1 /\ f.n = top + 2
    <3>1. PICK e, f : M = {e, f} /\ e.n = top + 1 /\ f.n = top + 2
      BY <2>2
    <3>2. e.n # f.n
      BY <1>2, <3>1
    <3>3. top + 1 \in Numbers(M)
      BY <3>1 DEF Numbers
    <3> QED BY <1>1, <3>1, <3>2, <3>3
  <2> QED BY <1>1, <2>1, <2>2 DEF top
<1>8. Numbers(trace') = Numbers(trace) \union Numbers(M)
  BY <1>1 DEF Numbers
<1>9. ASSUME NEW e \in trace'
      PROVE  1 .. e.n \subseteq Numbers(trace')
  <2>1. CASE e \in trace
    BY <1>8, <2>1 DEF GapFreeInv, TraceGapFree
  <2>2. CASE e \notin trace
    <3>1. e.n \in Numbers(trace')
      BY DEF Numbers
    <3>2. ASSUME NEW k \in 1 .. e.n PROVE k \in 1 .. top \/ k = e.n \/ (k = top + 1 /\ e.n = top + 2)
      BY <1>2, <1>7, <2>2
    <3>3. ASSUME NEW k \in 1 .. e.n PROVE k \in Numbers(trace')
      BY <1>2, <1>6, <1>7, <1>8, <2>2, <3>1, <3>2
    <3> QED BY <3>3
  <2> QED BY <2>1, <2>2
<1>10. ASSUME NEW e \in trace', NEW f \in trace', e.n = f.n
       PROVE  e = f
  <2>1. \A x \in M : x.n > top /\ x.n \in Nat
    BY <1>2, <1>7
  <2>2. CASE e \in trace /\ f \in trace
    BY <1>10, <2>2 DEF GapFreeInv, TraceGapFree
  <2>3. CASE e \in M /\ f \in M
    BY <1>7, <1>10, <2>3
  <2>4. CASE (e \in trace /\ f \in M) \/ (e \in M /\ f \in trace)
    BY <1>2, <1>10, <2>1, <2>4
  <2> QED BY <1>1, <2>2, <2>3, <2>4
<1> QED BY <1>1, <1>3, <1>4, <1>5, <1>9, <1>10 DEF TraceGapFree

LEMMA ServerEndsFits ==
  ASSUME TypeOK, GapFreeInv, ServerEnds, orderly' = orderly
  PROVE  GapFreeInv'
<1>1. Grows /\ TraceGapFree' /\ StoreFits'
  BY EndLands DEF ServerEnds
<1> QED BY <1>1, ServerStep DEF ServerEnds

LEMMA EndSessionFits ==
  ASSUME TypeOK, GapFreeInv, NEW l \in Lives, EndSession(l), orderly' = orderly
  PROVE  GapFreeInv'
<1>1. /\ LifeFits(rec[l]) /\ Only(l) /\ UNCHANGED <<store, acked, durable, late, orderly>>
      /\ ~ended /\ \E submitted \in BOOLEAN : AppendEnd(submitted)
      /\ rec[l].ask # "none" /\ rec'[l].ask = "done"
      /\ KeepsPlace(l) /\ KeepsQueue(l) /\ KeepsRequest(l)
  BY EndSessionEffect DEF EndSession, GapFreeInv
<1>2. ended' /\ Grows /\ TraceGapFree' /\ StoreFits' /\ ClientTrace' = ClientTrace
  BY <1>1, EndLands
<1>3. OpeningFits(rec[l])' /\ QueueFits(rec[l])'
  BY <1>1, <1>2, AtWork, WorkKept DEF KeepsPlace, KeepsRequest
<1>4. RequestFits(rec[l])'
  <2>1. rec[l].call = "sent" => Sound(rec[l].batch)'
    <3>1. rec[l].call = "sent" => OnePerNumber(rec[l].batch)
      BY <1>1 DEF LifeFits, RequestFits, Sound
    <3> QED BY <1>1, <1>2, <3>1 DEF Sound, OnePerNumber, KeepsRequest
  <2> QED BY <1>1, <1>2, <2>1 DEF LifeFits, RequestFits, KeepsRequest
<1>5. \A B \in late' : Sound(B)'
  BY <1>1, <1>2, SoundKept DEF GapFreeInv
<1> QED BY <1>1, <1>2, <1>3, <1>4, <1>5, OneLife DEF LifeFits

LEMMA FinishFits ==
  ASSUME TypeOK, GapFreeInv, NEW l \in Lives, Finish(l), orderly' = orderly
  PROVE  GapFreeInv'
<1>1. /\ LifeFits(rec[l]) /\ Only(l) /\ UNCHANGED <<trace, ended, late>>
      /\ rec[l].ask = "done" /\ rec'[l].ask = "none"
      /\ (rec[l].queue = {} /\ store' = {} /\ acked' = None) \/ UNCHANGED <<store, acked>>
      /\ KeepsPlace(l) /\ KeepsQueue(l) /\ KeepsRequest(l)
  BY FinishEffect DEF Finish, GapFreeInv
<1>2. ended /\ Grows
  BY <1>1 DEF LifeFits, RequestFits, Grows
<1>3. OpeningFits(rec[l])' /\ QueueFits(rec[l])'
  BY <1>1, <1>2, AtWork, WorkKept DEF KeepsPlace, KeepsRequest
<1>4. RequestFits(rec[l])'
  BY <1>1, <1>2 DEF LifeFits, RequestFits, KeepsRequest, Sound, OnePerNumber, ClientTrace
<1>5. StoreFits'
  <2>1. CASE store' = {} /\ acked' = None
    <3>1. IsFiniteSet({})
      BY FS_EmptySet
    <3> QED BY <2>1, <3>1 DEF StoreFits, Sound, OnePerNumber, Covered
  <2>2. CASE UNCHANGED <<store, acked>>
    BY <1>1, <1>2, <2>2, SoundKept DEF GapFreeInv, StoreFits, ClientTrace
  <2> QED BY <1>1, <2>1, <2>2
<1>6. TraceGapFree' /\ \A B \in late' : Sound(B)'
  BY <1>1, <1>2, SoundKept DEF GapFreeInv, TraceGapFree
<1> QED BY <1>1, <1>2, <1>3, <1>4, <1>5, <1>6, OneLife DEF LifeFits

-----------------------------------------------------------------------------
(* What holds of every step.                                               *)

LEMMA InitTypeOK == Init => TypeOK
<1>1. ASSUME Init PROVE TypeOK
  <2>1. rec \in [Lives -> Recorder] /\ \A l \in Lives : rec[l] = NewRecorder
    BY <1>1, NewRecorderFacts DEF Init
  <2>2. LivesTypeOK
    BY <2>1, NewRecorderFacts DEF LivesTypeOK
  <2>3. WorldTypeOK
    BY <1>1, SizesAssumption DEF Init, WorldTypeOK
  <2> QED BY <2>2, <2>3 DEF TypeOK
<1> QED BY <1>1

LEMMA StepTypeOK ==
  ASSUME ~StoreMayFail, TypeOK, Next
  PROVE  TypeOK'
<1> orderly' = orderly
  BY DEF Next
<1>1. ASSUME NEW l \in Lives,
             Open(l) \/ Load(l) \/ AskState(l) \/ FinishOpen(l) \/ Record(l) \/ Persist(l)
      PROVE  TypeOK'
  BY <1>1, OpenEffect, LoadEffect, AskStateEffect, FinishOpenEffect, RecordEffect,
     PersistEffect
<1>2. ASSUME NEW l \in Lives,
             \/ Send(l) \/ Beacon(l) \/ Receive(l) \/ ReceiveRefusal(l) \/ GiveUp(l)
             \/ Ingest(l) \/ Deny(l) \/ Reply(l)
      PROVE  TypeOK'
  BY <1>2, SendEffect, BeaconEffect, ReceiveEffect, ReceiveRefusalEffect, GiveUpEffect,
     IngestEffect, DenyEffect, ReplyEffect
<1>3. ASSUME NEW l \in Lives,
             \/ PressEnd(l) \/ Flushed(l) \/ SnapshotStored(l) \/ AskFails(l) \/ EndSession(l)
             \/ Finish(l) \/ Unmount(l) \/ PageGone(l)
      PROVE  TypeOK'
  BY <1>3, PressEndEffect, FlushedEffect, SnapshotStoredEffect, AskFailsEffect, EndSessionEffect,
     FinishEffect, UnmountEffect, PageGoneEffect
<1>4. ASSUME IngestLate \/ ServerEnds PROVE TypeOK'
  BY <1>4, IngestLateEffect, ServerEndsEffect
<1>5. \A l \in Lives : ~PersistFails(l)
  BY DEF PersistFails
<1> QED BY <1>1, <1>2, <1>3, <1>4, <1>5 DEF Next, Act

LEMMA InitGapFree == Init => GapFreeInv
<1>1. ASSUME Init PROVE GapFreeInv
  <2>1. \A l \in Lives : rec[l] = NewRecorder
    BY <1>1 DEF Init
  <2>2. IsFiniteSet({})
    BY FS_EmptySet
  <2>3. ASSUME NEW l \in Lives PROVE LifeFits(rec[l])
    BY <2>1, <2>2, NewRecorderFacts
    DEF LifeFits, OpeningFits, QueueFits, RequestFits, OnePerNumber
  <2>4. TraceGapFree /\ StoreFits /\ late = {}
    BY <1>1, <2>2 DEF Init, TraceGapFree, StoreFits, Sound, OnePerNumber, Covered
  <2> QED BY <2>3, <2>4 DEF GapFreeInv
<1> QED BY <1>1

LEMMA StepGapFree ==
  ASSUME ~StoreMayFail, TypeOK, GapFreeInv, Next
  PROVE  GapFreeInv'
<1> orderly' = orderly
  BY DEF Next
<1>1. ASSUME NEW l \in Lives,
             Open(l) \/ Load(l) \/ AskState(l) \/ FinishOpen(l) \/ Record(l) \/ Persist(l)
      PROVE  GapFreeInv'
  BY <1>1, OpenFits, LoadFits, AskStateFits, FinishOpenFits, RecordFits, PersistFits
<1>2. ASSUME NEW l \in Lives,
             \/ Send(l) \/ Beacon(l) \/ Receive(l) \/ ReceiveRefusal(l) \/ GiveUp(l)
             \/ Ingest(l) \/ Deny(l) \/ Reply(l)
      PROVE  GapFreeInv'
  BY <1>2, SendFits, BeaconFits, ReceiveFits, ReceiveRefusalFits, GiveUpFits,
     IngestFits, DenyFits, ReplyFits
<1>3. ASSUME NEW l \in Lives,
             \/ PressEnd(l) \/ Flushed(l) \/ SnapshotStored(l) \/ AskFails(l) \/ EndSession(l)
             \/ Finish(l) \/ Unmount(l) \/ PageGone(l)
      PROVE  GapFreeInv'
  BY <1>3, PressEndFits, FlushedFits, SnapshotStoredFits, AskFailsFits, EndSessionFits,
     FinishFits, UnmountFits, PageGoneFits
<1>4. ASSUME IngestLate \/ ServerEnds PROVE GapFreeInv'
  BY <1>4, IngestLateFits, ServerEndsFits
<1>5. \A l \in Lives : ~PersistFails(l)
  BY DEF PersistFails
<1> QED BY <1>1, <1>2, <1>3, <1>4, <1>5 DEF Next, Act

LEMMA StillGapFree ==
  ASSUME TypeOK, GapFreeInv, UNCHANGED vars
  PROVE  TypeOK' /\ GapFreeInv'
<1>1. UNCHANGED <<trace, ended, store, acked, rec, late, durable, orderly>>
  BY DEF vars
<1>2. Grows
  BY <1>1 DEF Grows
<1>3. TraceGapFree' /\ StoreFits'
  BY <1>1, <1>2, SoundKept DEF GapFreeInv, TraceGapFree, StoreFits, ClientTrace
<1> QED BY <1>1, <1>2, <1>3, ServerStep DEF TypeOK, LivesTypeOK, WorldTypeOK

LEMMA AlwaysGapFree == ~StoreMayFail => (Spec => [](TypeOK /\ GapFreeInv))
<1> SUFFICES ASSUME ~StoreMayFail PROVE Spec => [](TypeOK /\ GapFreeInv)
  OBVIOUS
<1>1. Init => TypeOK /\ GapFreeInv
  BY InitTypeOK, InitGapFree
<1>2. TypeOK /\ GapFreeInv /\ [Next]_vars => (TypeOK /\ GapFreeInv)'
  BY StepTypeOK, StepGapFree, StillGapFree
<1> QED BY <1>1, <1>2, PTL DEF Spec

\* Whatever is lost, repeated, cut differently or crashes, the trace on the server has every
\* number from 1 on, once (append_trace_batch and finalize_session against recorder.ts), as
\* long as the browser's store does not fail.
THEOREM TraceHasNoGap == ~StoreMayFail => (Spec => []TraceGapFree)
<1>1. TypeOK /\ GapFreeInv => TraceGapFree
  BY DEF GapFreeInv
<1> QED BY <1>1, AlwaysGapFree, PTL

\* When submit or end goes to the server, everything is there that had been recorded when
\* their flush ended (flushBarrier before doSubmit and doEnd); not what is recorded while
\* doSubmit then waits for its snapshot.
THEOREM EndFollowsFlush == ~StoreMayFail => (Spec => []FlushedBeforeEnd)
<1>1. TypeOK /\ GapFreeInv => FlushedBeforeEnd
  BY DEF GapFreeInv, LifeFits, RequestFits, FlushedBeforeEnd
<1> QED BY <1>1, AlwaysGapFree, PTL

\* No step of browser, network or server adds to the trace of a session that has ended, a
\* failing store included.
THEOREM NothingAfterEnd == Spec => EndIsFinal
<1>1. ASSUME [Next]_vars, ended PROVE trace' = trace
  <2>1. ASSUME NEW l \in Lives,
               Open(l) \/ Load(l) \/ AskState(l) \/ FinishOpen(l) \/ Record(l) \/ Persist(l)
                 \/ PersistFails(l)
        PROVE  trace' = trace
    BY <2>1 DEF Open, Load, AskState, FinishOpen, Record, Persist, PersistFails
  <2>2. ASSUME NEW l \in Lives,
               \/ Send(l) \/ Beacon(l) \/ Receive(l) \/ ReceiveRefusal(l) \/ GiveUp(l)
               \/ Deny(l) \/ Reply(l)
        PROVE  trace' = trace
    BY <2>2 DEF Send, Beacon, Receive, ReceiveRefusal, GiveUp, Deny, Reply
  <2>3. ASSUME NEW l \in Lives,
               \/ PressEnd(l) \/ Flushed(l) \/ SnapshotStored(l) \/ AskFails(l) \/ EndSession(l)
               \/ Finish(l) \/ Unmount(l) \/ PageGone(l)
        PROVE  trace' = trace
    BY <1>1, <2>3 DEF PressEnd, Flushed, SnapshotStored, AskFails, EndSession, Finish,
       Unmount, PageGone
  <2>4. ASSUME NEW l \in Lives, Ingest(l) PROVE trace' = trace
    BY <1>1, <2>4, Zenon DEF Ingest
  <2>5. ASSUME IngestLate \/ ServerEnds PROVE trace' = trace
    <3>1. ASSUME IngestLate PROVE trace' = trace
      BY <1>1, <3>1, Zenon DEF IngestLate
    <3>2. ~ServerEnds
      BY <1>1 DEF ServerEnds
    <3> QED BY <2>5, <3>1, <3>2
  <2>6. CASE UNCHANGED vars
    BY <2>6 DEF vars
  <2> QED BY <1>1, <2>1, <2>2, <2>3, <2>4, <2>5, <2>6, Zenon DEF Next, Act
<1>2. [Next]_vars => [ended => trace' = trace]_vars
  BY <1>1
<1> QED BY <1>2, PTL DEF Spec, EndIsFinal

-----------------------------------------------------------------------------
(* One browser: no number is given out twice.                              *)

LEMMA OneWriter ==
  ASSUME OneWriterInv, NEW l \in Lives, Only(l), orderly' = orderly,
         Written', Numbering', Alright(rec[l])',
         HoldsLock(l)' => HoldsLock(l) \/ (orderly => \A m \in Lives : ~HoldsLock(m)),
         Kept' => /\ Kept /\ Recording(rec[l])'
                  /\ \/ UNCHANGED <<store, acked, durable>>
                     \/ \A m \in Lives \ {l} : ~HoldsLock(m)
  PROVE  OneWriterInv'
<1>1. \A m \in Lives \ {l} : rec'[m] = rec[m]
  BY DEF Only
<1>2. OnlyOne'
  BY <1>1 DEF OneWriterInv, OnlyOne, HoldsLock
<1>3. ASSUME NEW m \in Lives, m # l PROVE Alright(rec[m])'
  BY <1>1, <1>3 DEF OneWriterInv, Alright
<1>4. ASSUME NEW m \in Lives, m # l, Kept' PROVE Recording(rec[m])'
  <2>1. Recording(rec[m]) /\ rec'[m] = rec[m]
    BY <1>1, <1>4 DEF OneWriterInv
  <2>2. CASE UNCHANGED <<store, acked, durable>>
    BY <2>1, <2>2 DEF Recording
  <2>3. CASE ~HoldsLock(m)
    BY <2>1, <2>3 DEF Recording, HoldsLock
  <2> QED BY <1>4, <2>2, <2>3
<1> QED BY <1>2, <1>3, <1>4 DEF OneWriterInv

\* What a step inside one life has to keep.
LEMMA WriterInside ==
  ASSUME OneWriterInv, NEW l \in Lives, Only(l), orderly' = orderly,
         UNCHANGED <<trace, ended, store, acked, durable>>,
         late' = late \/ \E B : B \subseteq durable /\ late' = late \union {B},
         {e \in rec'[l].queue : e.n <= rec'[l].persisted} \subseteq durable,
         rec'[l].batch \subseteq durable, Alright(rec[l])',
         HoldsLock(l)' => HoldsLock(l), Kept => Recording(rec[l])'
  PROVE  OneWriterInv'
<1>1. \A m \in Lives \ {l} : rec'[m] = rec[m]
  BY DEF Only
<1>2. Written'
  <2>1. /\ IsFiniteSet(durable) /\ store \subseteq durable /\ ClientTrace \subseteq durable
        /\ \A B \in late : B \subseteq durable
        /\ \A m \in Lives : /\ {e \in rec[m].queue : e.n <= rec[m].persisted} \subseteq durable
                            /\ rec[m].batch \subseteq durable
    BY DEF OneWriterInv, Written
  <2>2. ClientTrace' = ClientTrace
    BY DEF ClientTrace
  <2>3. \A B \in late' : B \subseteq durable
    BY <2>1
  <2>4. \A m \in Lives : /\ {e \in rec'[m].queue : e.n <= rec'[m].persisted} \subseteq durable
                         /\ rec'[m].batch \subseteq durable
    BY <1>1, <2>1
  <2> QED BY <2>1, <2>2, <2>3, <2>4 DEF Written
<1>3. Kept' <=> Kept
  BY DEF Kept
<1>4. Numbering'
  BY <1>3 DEF OneWriterInv, Numbering, OnePerNumber
<1> QED BY <1>2, <1>3, <1>4, OneWriter

\* A step that leaves the place and the queue of its life alone.
LEMMA WriterWork ==
  ASSUME OneWriterInv, NEW l \in Lives, Only(l), orderly' = orderly,
         UNCHANGED <<trace, ended, store, acked, durable>>,
         late' = late \/ \E B : B \subseteq durable /\ late' = late \union {B},
         KeepsPlace(l), KeepsQueue(l), rec'[l].batch \subseteq durable, Alright(rec[l])'
  PROVE  OneWriterInv'
<1>1. {e \in rec'[l].queue : e.n <= rec'[l].persisted} \subseteq durable
  BY DEF KeepsQueue, OneWriterInv, Written
<1>2. HoldsLock(l)' => HoldsLock(l)
  BY DEF HoldsLock, KeepsPlace
<1>3. Kept => Recording(rec[l])'
  BY DEF OneWriterInv, Recording, KeepsPlace, KeepsQueue
<1> QED BY <1>1, <1>2, <1>3, WriterInside

LEMMA OpenWriter ==
  ASSUME TypeOK, GapFreeInv, OneWriterInv, NEW l \in Lives, Open(l), orderly' = orderly
  PROVE  OneWriterInv'
<1>1. /\ Only(l) /\ UNCHANGED <<trace, ended, store, late, durable>> /\ ~ended
      /\ orderly => \A m \in Lives : ~HoldsLock(m)
      /\ rec'[l].pc = "opening" /\ rec'[l].next = acked' + 1
      /\ acked' # None /\ (acked = None => acked' = 0) /\ (acked # None => acked' = acked)
      /\ KeepsQueue(l) /\ KeepsRequest(l) /\ rec'[l].phase = rec[l].phase
  BY OpenEffect DEF Open
<1>2. Written'
  <2>1. /\ \A m \in Lives \ {l} : rec'[m] = rec[m]
        /\ rec'[l].queue = rec[l].queue /\ rec'[l].persisted = rec[l].persisted
        /\ rec'[l].batch = rec[l].batch
    BY <1>1 DEF Only, KeepsQueue, KeepsRequest
  <2>2. \A m \in Lives : /\ rec'[m].queue = rec[m].queue /\ rec'[m].persisted = rec[m].persisted
                         /\ rec'[m].batch = rec[m].batch
    BY <2>1
  <2>3. ClientTrace' = ClientTrace
    BY <1>1 DEF ClientTrace
  <2> QED BY <1>1, <2>2, <2>3 DEF OneWriterInv, Written
<1>3. Kept' => Kept
  BY <1>1 DEF Kept
<1>4. Numbering'
  BY <1>1, <1>3 DEF OneWriterInv, Numbering, OnePerNumber
<1>5. Alright(rec[l])'
  BY <1>1 DEF OneWriterInv, Alright, KeepsRequest
<1>6. Recording(rec[l])'
  BY <1>1 DEF Recording
<1>7. Kept => \A m \in Lives \ {l} : ~HoldsLock(m)
  BY <1>1 DEF Kept
<1> QED BY <1>1, <1>2, <1>3, <1>4, <1>5, <1>6, <1>7, OneWriter

LEMMA LoadWriter ==
  ASSUME TypeOK, GapFreeInv, OneWriterInv, NEW l \in Lives, Load(l), orderly' = orderly
  PROVE  OneWriterInv'
<1>1. /\ Only(l) /\ UNCHANGED <<trace, ended, store, acked, late, durable>>
      /\ rec[l].pc = "opening" /\ rec'[l].pc = "loaded" /\ rec'[l].next = rec[l].next
      /\ rec'[l].queue = store /\ rec'[l].phase = rec[l].phase /\ KeepsRequest(l)
  BY LoadEffect DEF Load
<1>2. Alright(rec[l])'
  BY <1>1 DEF OneWriterInv, Alright, KeepsRequest
<1>3. Kept => Recording(rec[l])'
  BY <1>1 DEF OneWriterInv, Recording
<1>4. HoldsLock(l)
  BY <1>1 DEF HoldsLock
<1>5. /\ {e \in rec'[l].queue : e.n <= rec'[l].persisted} \subseteq durable
      /\ rec'[l].batch \subseteq durable
  BY <1>1 DEF OneWriterInv, Written, KeepsRequest
<1> QED BY <1>1, <1>2, <1>3, <1>4, <1>5, WriterInside

LEMMA AskStateWriter ==
  ASSUME TypeOK, GapFreeInv, OneWriterInv, NEW l \in Lives, AskState(l), orderly' = orderly
  PROVE  OneWriterInv'
<1>1. /\ Only(l) /\ UNCHANGED <<trace, ended, store, acked, late, durable>>
      /\ rec[l].pc = "loaded" /\ rec'[l].pc = "asked" /\ rec'[l].next = rec[l].next
      /\ rec'[l].phase = rec[l].phase /\ KeepsQueue(l)
      /\ rec'[l].call = rec[l].call /\ rec'[l].batch = rec[l].batch
  BY AskStateEffect DEF AskState
<1>2. Alright(rec[l])'
  BY <1>1 DEF OneWriterInv, Alright
<1>3. Kept => Recording(rec[l])'
  BY <1>1 DEF OneWriterInv, Recording, KeepsQueue
<1>4. HoldsLock(l)
  BY <1>1 DEF HoldsLock
<1>5. /\ {e \in rec'[l].queue : e.n <= rec'[l].persisted} \subseteq durable
      /\ rec'[l].batch \subseteq durable
  BY <1>1 DEF OneWriterInv, Written, KeepsQueue
<1> QED BY <1>1, <1>2, <1>3, <1>4, <1>5, WriterInside

\* The numbering goes on above everything that was ever written down.
LEMMA FinishOpenWriter ==
  ASSUME TypeOK, GapFreeInv, OneWriterInv, NEW l \in Lives, FinishOpen(l), orderly' = orderly
  PROVE  OneWriterInv'
<1>1. /\ LifeFits(rec[l]) /\ Only(l) /\ UNCHANGED <<trace, ended, store, acked, late, durable>>
      /\ rec[l].pc = "asked" /\ rec'[l].pc = "open"
      /\ rec'[l].tried = rec[l].tried /\ rec'[l].persisted = rec[l].persisted
      /\ rec'[l].call = rec[l].call /\ rec'[l].batch = rec[l].batch
      /\ rec'[l].phase = rec[l].phase
  BY FinishOpenEffect DEF FinishOpen, GapFreeInv
<1>2. PICK first \in Nat :
        /\ rec[l].got <= first /\ rec[l].persisted + 1 <= first /\ rec[l].next <= first
        /\ rec'[l].next = (IF first = 1 THEN 2 ELSE first)
        /\ rec'[l].queue = (IF first = 1 THEN {Event(1, "opened")} ELSE rec[l].queue)
  BY FinishOpenEffect
<1>3. /\ rec[l].persisted \in Nat /\ rec[l].next \in Nat /\ rec[l].next # 0
      /\ rec[l].tried = rec[l].persisted
      /\ \A e \in rec[l].queue : e.n \in Nat /\ e.n <= rec[l].persisted
      /\ \A d \in durable : d.n \in Nat /\ d.n # 0
      /\ acked # None => acked \in Nat
  <2>1. /\ rec[l].persisted \in Nat /\ rec[l].next \in Nat /\ rec[l].next # 0
        /\ rec[l].queue \subseteq Recorded /\ durable \subseteq Recorded /\ MaxSeq \in Nat
        /\ acked # None => acked \in Nat
    BY SizesAssumption DEF TypeOK, LivesTypeOK, WorldTypeOK, Recorder
  <2>2. rec[l].persisted = Top(rec[l].queue) /\ rec[l].tried = rec[l].persisted
    BY <1>1 DEF LifeFits, OpeningFits, QueueFits
  <2>3. \A e \in rec[l].queue : e.n \in 1 .. MaxSeq
    BY <2>1, RecordedFacts
  <2>4. \A e \in rec[l].queue : e.n <= Top(rec[l].queue)
    BY <2>1, <2>3, TopFacts
  <2> QED BY <2>1, <2>2, <2>3, <2>4, RecordedFacts
<1>4. {e \in rec'[l].queue : e.n <= rec'[l].persisted} \subseteq durable
  <2>1. {e \in rec[l].queue : e.n <= rec[l].persisted} \subseteq durable
    BY DEF OneWriterInv, Written
  <2>2. CASE first = 1
    BY <1>1, <1>2, <1>3, <2>2 DEF Event
  <2>3. CASE first # 1
    BY <1>1, <1>2, <2>1, <2>3
  <2> QED BY <2>2, <2>3
<1>5. ASSUME Kept PROVE Recording(rec[l])'
  <2>1. /\ acked # None /\ rec[l].next = acked + 1 /\ rec[l].queue = store
        /\ \A d \in durable : d \in store \/ d.n <= acked
    BY <1>1, <1>5 DEF OneWriterInv, Recording, Numbering
  <2>2. acked \in Nat
    BY <1>3, <2>1
  <2>3. \A d \in durable : d.n < first
    BY <1>2, <1>3, <2>1, <2>2
  <2>4. \A d \in durable : d.n < rec'[l].next
    BY <1>2, <1>3, <2>3
  <2>5. \A e \in rec'[l].queue, d \in durable : e.n > rec'[l].tried => d.n < e.n
    <3>1. CASE first = 1
      BY <1>3, <2>3, <3>1
    <3>2. CASE first # 1
      BY <1>1, <1>2, <1>3, <3>2
    <3> QED BY <3>1, <3>2
  <2> QED BY <1>1, <2>1, <2>4, <2>5 DEF Recording
<1>6. Alright(rec[l])'
  BY <1>1 DEF OneWriterInv, Alright
<1>7. HoldsLock(l) /\ rec'[l].batch \subseteq durable
  BY <1>1 DEF HoldsLock, OneWriterInv, Written
<1> QED BY <1>1, <1>4, <1>5, <1>6, <1>7, WriterInside

LEMMA RecordWriter ==
  ASSUME TypeOK, GapFreeInv, OneWriterInv, NEW l \in Lives, Record(l), orderly' = orderly
  PROVE  OneWriterInv'
<1> DEFINE e == Event(rec[l].next, l)
<1>1. /\ LifeFits(rec[l]) /\ Only(l) /\ UNCHANGED <<trace, ended, store, acked, late, durable>>
      /\ rec[l].pc = "open" /\ rec'[l].pc = "open" /\ rec'[l].next = rec[l].next + 1
      /\ rec'[l].queue = rec[l].queue \union {e}
      /\ rec'[l].tried = rec[l].tried /\ rec'[l].persisted = rec[l].persisted
      /\ rec'[l].phase = rec[l].phase
      /\ rec'[l].call = rec[l].call /\ rec'[l].batch = rec[l].batch
  BY RecordEffect DEF Record, GapFreeInv, KeepsRequest
<1>2. /\ e.n = rec[l].next /\ rec[l].next \in Nat /\ rec[l].persisted \in Nat
      /\ rec[l].persisted < rec[l].next
  BY <1>1 DEF Event, TypeOK, LivesTypeOK, Recorder, LifeFits, QueueFits
<1> HIDE DEF e
<1>3. {f \in rec'[l].queue : f.n <= rec'[l].persisted} \subseteq durable
  BY <1>1, <1>2 DEF OneWriterInv, Written
<1>4. ASSUME Kept PROVE Recording(rec[l])'
  <2>1. /\ acked # None /\ \A d \in durable : d.n < rec[l].next /\ d.n \in Nat
        /\ \A f \in rec[l].queue, d \in durable : f.n > rec[l].tried => d.n < f.n
    BY <1>1, <1>4, RecordedFacts DEF OneWriterInv, Recording, TypeOK, WorldTypeOK
  <2> QED BY <1>1, <1>2, <2>1 DEF Recording
<1>5. Alright(rec[l])'
  BY <1>1 DEF OneWriterInv, Alright
<1>6. HoldsLock(l) /\ rec'[l].batch \subseteq durable
  BY <1>1 DEF HoldsLock, OneWriterInv, Written
<1> QED BY <1>1, <1>3, <1>4, <1>5, <1>6, WriterInside

\* What is written is the event after everything written before.
LEMMA WrittenInOrder ==
  ASSUME TypeOK, GapFreeInv, OneWriterInv, NEW l \in Lives, rec[l].pc = "open",
         NEW e \in NextToWrite(l), Kept, ~ended
  PROVE  e.n = Cardinality(durable) + 1 /\ \A d \in durable : d.n < e.n
<1> DEFINE C == Cardinality(durable)
<1>1. /\ e \in rec[l].queue /\ e.n \in Nat /\ e.n > rec[l].tried
      /\ rec[l].tried = rec[l].persisted /\ rec[l].persisted \in Nat
      /\ \A f \in rec[l].queue : f.n \in Nat /\ (f.n <= rec[l].persisted \/ f = e \/ f.n > e.n)
  BY NextToWriteFacts DEF GapFreeInv
<1>2. \A d \in durable : d.n < e.n /\ d.n \in Nat
  BY <1>1, RecordedFacts DEF OneWriterInv, Recording, TypeOK, WorldTypeOK
<1>3. C \in Nat /\ Numbers(durable) = 1 .. C
  BY FS_CardinalityType DEF OneWriterInv, Written, Numbering
<1> HIDE DEF C
<1>4. C < e.n
  <2>1. CASE C = 0
    BY <1>1, <2>1
  <2>2. CASE C # 0
    <3>1. C \in Numbers(durable)
      BY <1>3, <2>2
    <3> QED BY <1>2, <3>1 DEF Numbers
  <2> QED BY <2>1, <2>2
<1>5. e.n <= C + 1
  <2> SUFFICES ASSUME e.n > C + 1 PROVE FALSE
    BY <1>1, <1>3
  <2>1. /\ rec[l].next \in Nat /\ e.n < rec[l].next
        /\ 1 .. rec[l].next - 1 \subseteq Numbers(rec[l].queue) \union Numbers(trace)
    BY <1>1 DEF GapFreeInv, LifeFits, QueueFits, KnownUpTo, Stuck, TypeOK, LivesTypeOK,
       Recorder
  <2>2. C + 1 \in Numbers(rec[l].queue) \union Numbers(trace)
    BY <1>1, <1>3, <2>1
  <2>3. trace \subseteq durable
    BY RecordedFacts DEF OneWriterInv, Written, ClientTrace, TypeOK, WorldTypeOK
  <2>4. C + 1 \notin Numbers(durable)
    BY <1>3
  <2>5. PICK q \in rec[l].queue : q.n = C + 1
    BY <2>2, <2>3, <2>4 DEF Numbers
  <2>6. q.n <= rec[l].persisted
    BY <1>1, <1>3, <2>5
  <2>7. q \in durable
    BY <2>6 DEF OneWriterInv, Written
  <2> QED BY <2>4, <2>5, <2>7 DEF Numbers
<1> QED BY <1>1, <1>2, <1>3, <1>4, <1>5 DEF C

LEMMA PersistWriter ==
  ASSUME TypeOK, GapFreeInv, OneWriterInv, NEW l \in Lives, Persist(l), orderly' = orderly
  PROVE  OneWriterInv'
<1>1. PICK e \in NextToWrite(l) :
        /\ rec'[l].tried = e.n /\ rec'[l].persisted = e.n
        /\ store' = {f \in store : f.n # e.n} \union {e}
        /\ durable' = durable \union {e}
  BY PersistEffect
<1>2. /\ LifeFits(rec[l]) /\ Only(l) /\ UNCHANGED <<trace, ended, acked, late>>
      /\ rec[l].pc \in {"open", "disposed"} /\ rec'[l].pc = rec[l].pc
      /\ rec'[l].next = rec[l].next /\ rec'[l].queue = rec[l].queue
      /\ rec'[l].phase = rec[l].phase
      /\ rec'[l].call = rec[l].call /\ rec'[l].batch = rec[l].batch
  BY PersistEffect DEF Persist, GapFreeInv, KeepsPlace, KeepsRequest
<1>3. /\ e \in rec[l].queue /\ e.n \in Nat /\ e.n > rec[l].tried
      /\ rec[l].tried = rec[l].persisted /\ rec[l].persisted \in Nat
      /\ \A f \in rec[l].queue : f.n \in Nat /\ (f.n <= rec[l].persisted \/ f = e \/ f.n > e.n)
  BY <1>2, NextToWriteFacts
<1>4. \A m \in Lives \ {l} : rec'[m] = rec[m]
  BY <1>2 DEF Only
<1>5. orderly => rec[l].pc = "open"
  BY <1>2, <1>3 DEF OneWriterInv, Alright
<1>6. Written'
  <2>1. IsFiniteSet(durable')
    BY <1>1, FS_AddElement DEF OneWriterInv, Written
  <2>2. store' \subseteq durable' /\ durable \subseteq durable'
    BY <1>1 DEF OneWriterInv, Written
  <2>3. ClientTrace' \subseteq durable' /\ \A B \in late' : B \subseteq durable'
    BY <1>2, <2>2 DEF OneWriterInv, Written, ClientTrace
  <2>4. {f \in rec'[l].queue : f.n <= rec'[l].persisted} \subseteq durable'
    <3>1. {f \in rec[l].queue : f.n <= rec[l].persisted} \subseteq durable
      BY DEF OneWriterInv, Written
    <3> QED BY <1>1, <1>2, <1>3, <3>1
  <2>5. \A m \in Lives : rec[m].batch \subseteq durable'
    BY <2>2 DEF OneWriterInv, Written
  <2>6. \A m \in Lives \ {l} : {f \in rec[m].queue : f.n <= rec[m].persisted} \subseteq durable'
    BY <2>2 DEF OneWriterInv, Written
  <2>7. \A m \in Lives : /\ {f \in rec'[m].queue : f.n <= rec'[m].persisted} \subseteq durable'
                         /\ rec'[m].batch \subseteq durable'
    BY <1>2, <1>4, <2>4, <2>5, <2>6
  <2> QED BY <2>1, <2>2, <2>3, <2>7 DEF Written
<1>7. Kept' <=> Kept
  BY <1>2 DEF Kept
<1>8. ASSUME Kept
      PROVE  /\ rec[l].pc = "open" /\ acked # None
             /\ \A d \in durable : d.n < e.n /\ d.n \in Nat /\ d.n < rec[l].next
             /\ e.n < rec[l].next
             /\ OnePerNumber(durable) /\ \A d \in durable : d \in store \/ d.n <= acked
  <2>1. rec[l].pc = "open"
    BY <1>5, <1>8 DEF Kept
  <2>2. Recording(rec[l]) /\ Numbering
    BY <1>8 DEF OneWriterInv
  <2>3. e.n < rec[l].next
    BY <1>2, <1>3, <2>1 DEF LifeFits, QueueFits
  <2>4. \A d \in durable : d.n \in Nat
    BY RecordedFacts DEF TypeOK, WorldTypeOK
  <2> QED BY <1>3, <1>8, <2>1, <2>2, <2>3, <2>4 DEF Recording, Numbering
<1>9. ASSUME Kept PROVE Numbering'
  <2>1. OnePerNumber(durable')
    BY <1>1, <1>8, <1>9 DEF OnePerNumber
  <2>2. ~ended => Numbers(durable') = 1 .. Cardinality(durable')
    <3> SUFFICES ASSUME ~ended PROVE Numbers(durable') = 1 .. Cardinality(durable')
      OBVIOUS
    <3> DEFINE C == Cardinality(durable)
    <3>1. e.n = C + 1
      BY <1>8, <1>9, WrittenInOrder
    <3>2. IsFiniteSet(durable) /\ C \in Nat /\ Numbers(durable) = 1 .. C
      BY <1>9, FS_CardinalityType DEF OneWriterInv, Written, Numbering
    <3>3. e \notin durable
      BY <1>3, <1>8, <1>9
    <3>4. Cardinality(durable') = C + 1
      BY <1>1, <3>2, <3>3, FS_AddElement
    <3> HIDE DEF C
    <3>5. Numbers(durable') = (1 .. C) \union {C + 1}
      BY <1>1, <3>1, <3>2 DEF Numbers
    <3> QED BY <3>2, <3>4, <3>5
  <2>3. \A d \in durable' : d \in store' \/ (acked # None /\ d.n <= acked)
    BY <1>1, <1>3, <1>8, <1>9
  <2> QED BY <1>2, <2>1, <2>2, <2>3 DEF Numbering, OnePerNumber
<1>10. Numbering'
  <2>1. ~Kept => Numbering'
    BY <1>7 DEF Numbering
  <2> QED BY <1>9, <2>1
<1>11. Alright(rec[l])'
  BY <1>2, <1>5 DEF OneWriterInv, Alright
<1>12. ASSUME Kept PROVE Recording(rec[l])'
  <2>1. \A q \in rec[l].queue, d \in durable' : q.n > e.n => d.n < q.n
    BY <1>1, <1>3, <1>8, <1>12
  <2> QED BY <1>1, <1>2, <1>8, <1>12, <2>1 DEF Recording
<1>13. HoldsLock(l)' => HoldsLock(l)
  BY <1>2 DEF HoldsLock
<1>14. Kept => \A m \in Lives \ {l} : ~HoldsLock(m)
  BY <1>8 DEF OneWriterInv, OnlyOne, HoldsLock, Kept
<1> QED BY <1>2, <1>6, <1>7, <1>10, <1>11, <1>12, <1>13, <1>14, OneWriter

LEMMA SendWriter ==
  ASSUME TypeOK, GapFreeInv, OneWriterInv, NEW l \in Lives, Send(l), orderly' = orderly
  PROVE  OneWriterInv'
<1>1. /\ LifeFits(rec[l]) /\ Only(l) /\ UNCHANGED <<trace, ended, store, acked, late, durable>>
      /\ rec[l].pc = "open" /\ rec'[l].call = "sent" /\ rec'[l].phase = "sending"
      /\ rec'[l].batch = ReadyBatch(l) /\ KeepsPlace(l) /\ KeepsQueue(l)
  BY SendEffect DEF Send, MaySend, GapFreeInv
<1>2. ReadyBatch(l) \subseteq durable
  BY DEF ReadyBatch, OneWriterInv, Written
<1>3. Alright(rec[l])'
  BY <1>1 DEF Alright, KeepsPlace
<1> QED BY <1>1, <1>2, <1>3, WriterWork

LEMMA BeaconWriter ==
  ASSUME TypeOK, GapFreeInv, OneWriterInv, NEW l \in Lives, Beacon(l), orderly' = orderly
  PROVE  OneWriterInv'
<1>1. /\ UNCHANGED <<trace, ended, store, acked, durable, rec>>
      /\ late' = late \union {ReadyBatch(l)}
  BY DEF Beacon
<1>2. ReadyBatch(l) \subseteq durable /\ rec[l].batch \subseteq durable
  BY DEF ReadyBatch, OneWriterInv, Written
<1>3. Only(l) /\ KeepsPlace(l) /\ KeepsQueue(l) /\ Alright(rec[l])'
  BY <1>1 DEF OneWriterInv, Only, KeepsPlace, KeepsQueue, Alright
<1> QED BY <1>1, <1>2, <1>3, WriterWork

LEMMA DenyWriter ==
  ASSUME TypeOK, GapFreeInv, OneWriterInv, NEW l \in Lives, Deny(l), orderly' = orderly
  PROVE  OneWriterInv'
<1>1. /\ Only(l) /\ UNCHANGED <<trace, ended, store, acked, late, durable>>
      /\ rec[l].call = "sent" /\ rec'[l].call = "denied" /\ rec'[l].batch = rec[l].batch
      /\ rec'[l].phase = rec[l].phase /\ KeepsPlace(l) /\ KeepsQueue(l)
  BY DenyEffect DEF Deny
<1>2. rec'[l].batch \subseteq durable /\ Alright(rec[l])'
  BY <1>1 DEF OneWriterInv, Written, Alright, KeepsPlace, KeepsQueue
<1> QED BY <1>1, <1>2, WriterWork

LEMMA ReplyWriter ==
  ASSUME TypeOK, GapFreeInv, OneWriterInv, NEW l \in Lives, Reply(l), orderly' = orderly
  PROVE  OneWriterInv'
<1>1. /\ Only(l) /\ UNCHANGED <<trace, ended, store, acked, late, durable>>
      /\ rec[l].call = "stored" /\ rec'[l].call = "answered" /\ rec'[l].batch = rec[l].batch
      /\ rec'[l].phase = rec[l].phase /\ KeepsPlace(l) /\ KeepsQueue(l)
  BY ReplyEffect DEF Reply
<1>2. rec'[l].batch \subseteq durable /\ Alright(rec[l])'
  BY <1>1 DEF OneWriterInv, Written, Alright, KeepsPlace, KeepsQueue
<1> QED BY <1>1, <1>2, WriterWork

LEMMA ReceiveRefusalWriter ==
  ASSUME TypeOK, GapFreeInv, OneWriterInv, NEW l \in Lives, ReceiveRefusal(l), orderly' = orderly
  PROVE  OneWriterInv'
<1>1. /\ Only(l) /\ UNCHANGED <<trace, ended, store, acked, late, durable>>
      /\ rec[l].call \in {"closed", "denied", "conflict"}
      /\ rec'[l].call = "none" /\ rec'[l].batch = {}
      /\ rec'[l].phase = "failed" => rec[l].call = "conflict"
      /\ KeepsPlace(l) /\ KeepsQueue(l)
  BY ReceiveRefusalEffect DEF ReceiveRefusal
<1>2. rec'[l].batch \subseteq durable /\ Alright(rec[l])'
  BY <1>1 DEF OneWriterInv, Alright, KeepsPlace, KeepsQueue
<1> QED BY <1>1, <1>2, WriterWork

LEMMA GiveUpWriter ==
  ASSUME TypeOK, GapFreeInv, OneWriterInv, NEW l \in Lives, GiveUp(l), orderly' = orderly
  PROVE  OneWriterInv'
<1>1. /\ Only(l) /\ UNCHANGED <<trace, ended, store, acked, durable>>
      /\ rec'[l].call = "none" /\ rec'[l].batch = {} /\ rec'[l].phase = "retrying"
      /\ late' = late \/ late' = late \union {rec[l].batch}
      /\ KeepsPlace(l) /\ KeepsQueue(l)
  BY GiveUpEffect DEF GiveUp
<1>2. rec[l].batch \subseteq durable /\ rec'[l].batch \subseteq durable /\ Alright(rec[l])'
  BY <1>1 DEF OneWriterInv, Written, Alright, KeepsPlace, KeepsQueue
<1> QED BY <1>1, <1>2, WriterWork

\* The steps of submit and end that only the page sees.
LEMMA AskWriter ==
  ASSUME TypeOK, GapFreeInv, OneWriterInv, NEW l \in Lives,
         PressEnd(l) \/ Flushed(l) \/ SnapshotStored(l) \/ AskFails(l), orderly' = orderly
  PROVE  OneWriterInv'
<1>1. /\ Only(l) /\ UNCHANGED <<trace, ended, store, acked, late, durable>>
      /\ rec'[l].phase = rec[l].phase /\ KeepsPlace(l) /\ KeepsQueue(l) /\ KeepsRequest(l)
  BY PressEndEffect, FlushedEffect, SnapshotStoredEffect, AskFailsEffect
     DEF PressEnd, Flushed, SnapshotStored, AskFails
<1>2. rec'[l].batch \subseteq durable /\ Alright(rec[l])'
  BY <1>1 DEF OneWriterInv, Written, Alright, KeepsPlace, KeepsQueue, KeepsRequest
<1> QED BY <1>1, <1>2, WriterWork

LEMMA UnmountWriter ==
  ASSUME TypeOK, GapFreeInv, OneWriterInv, NEW l \in Lives, Unmount(l), orderly' = orderly
  PROVE  OneWriterInv'
<1>1. /\ Only(l) /\ UNCHANGED <<trace, ended, store, acked, late, durable>>
      /\ rec[l].pc = "open" /\ rec'[l].pc = "disposed" /\ rec'[l].phase = rec[l].phase
      /\ KeepsQueue(l) /\ KeepsRequest(l)
      /\ orderly => NextToWrite(l) = {} /\ rec[l].call = "none"
  BY UnmountEffect DEF Unmount
<1>2. orderly => \A e \in rec[l].queue : e.n <= rec[l].tried
  <2> DEFINE E == {e \in rec[l].queue : e.n > rec[l].tried}
  <2>1. rec[l].tried \in Nat /\ \A e \in rec[l].queue : e.n \in Nat
    BY RecordedFacts DEF TypeOK, LivesTypeOK, Recorder
  <2>2. E # {} => \E e \in E : \A f \in E : e.n <= f.n
    BY <2>1, Least
  <2>3. E # {} => NextToWrite(l) # {}
    BY <2>2 DEF NextToWrite
  <2>4. \A e \in rec[l].queue : e.n <= rec[l].tried \/ e \in E
    BY <2>1
  <2> HIDE DEF E
  <2> QED BY <1>1, <2>3, <2>4
<1>3. Alright(rec[l])'
  BY <1>1, <1>2 DEF OneWriterInv, Alright, KeepsQueue, KeepsRequest
<1>4. /\ {e \in rec'[l].queue : e.n <= rec'[l].persisted} \subseteq durable
      /\ rec'[l].batch \subseteq durable
  BY <1>1 DEF OneWriterInv, Written, KeepsQueue, KeepsRequest
<1>5. ~HoldsLock(l)' /\ Recording(rec[l])'
  BY <1>1 DEF HoldsLock, Recording
<1> QED BY <1>1, <1>3, <1>4, <1>5, WriterInside

LEMMA PageGoneWriter ==
  ASSUME TypeOK, GapFreeInv, OneWriterInv, NEW l \in Lives, PageGone(l), orderly' = orderly
  PROVE  OneWriterInv'
<1>1. /\ Only(l) /\ UNCHANGED <<trace, ended, store, acked, durable>>
      /\ rec'[l].pc = "gone" /\ rec'[l].queue = {} /\ rec'[l].phase = "idle"
      /\ rec'[l].call = "none" /\ rec'[l].batch = {}
      /\ late' = late \/ late' = late \union {rec[l].batch}
  BY PageGoneEffect DEF PageGone
<1>2. Alright(rec[l])' /\ ~HoldsLock(l)' /\ Recording(rec[l])'
  BY <1>1 DEF Alright, HoldsLock, Recording
<1>3. rec[l].batch \subseteq durable
  BY DEF OneWriterInv, Written
<1> QED BY <1>1, <1>2, <1>3, WriterInside

LEMMA ReceiveWriter ==
  ASSUME TypeOK, GapFreeInv, OneWriterInv, NEW l \in Lives, Receive(l), orderly' = orderly
  PROVE  OneWriterInv'
<1> DEFINE through == AckedThrough(l)
<1>1. /\ LifeFits(rec[l]) /\ Only(l) /\ UNCHANGED <<trace, ended, late, durable>>
      /\ rec[l].call = "answered" /\ rec'[l].call = "none" /\ rec'[l].batch = {}
      /\ rec'[l].tried = rec[l].tried /\ rec'[l].persisted = rec[l].persisted
      /\ KeepsPlace(l)
  BY ReceiveEffect DEF Receive, GapFreeInv, KeepsQueue
<1>2. through \in Nat
  BY <1>1, AnswerFacts
<1>3. /\ store' = {e \in store : e.n > through}
      /\ acked' = (IF acked # None /\ acked < through THEN through ELSE acked)
      /\ rec'[l].queue = {e \in rec[l].queue : e.n > through}
      /\ rec'[l].phase = "failed" => rec[l].phase = "failed"
  BY <1>1, AnswerFacts, ReceiveEffect
<1> HIDE DEF through
<1>4. /\ acked # None => acked \in Nat
      /\ \A d \in durable : d.n \in Nat
      /\ None \notin Nat
  BY RecordedFacts, NamesAssumption DEF TypeOK, WorldTypeOK
<1>5. orderly => rec[l].pc = "open"
  BY <1>1, AtWork DEF OneWriterInv, Alright
<1>6. Written'
  <2>1. store' \subseteq durable /\ ClientTrace' \subseteq durable /\ IsFiniteSet(durable)
        /\ \A B \in late : B \subseteq durable
    BY <1>1, <1>3 DEF OneWriterInv, Written, ClientTrace
  <2>2. \A m \in Lives : /\ {e \in rec[m].queue : e.n <= rec[m].persisted} \subseteq durable
                         /\ rec[m].batch \subseteq durable
    BY DEF OneWriterInv, Written
  <2>3. {e \in rec'[l].queue : e.n <= rec'[l].persisted} \subseteq durable
    BY <1>1, <1>3, <2>2
  <2>4. \A m \in Lives : /\ {e \in rec'[m].queue : e.n <= rec'[m].persisted} \subseteq durable
                         /\ rec'[m].batch \subseteq durable
    BY <1>1, <2>2, <2>3 DEF Only
  <2> QED BY <1>1, <2>1, <2>4 DEF Written
<1>7. Kept' => Kept
  BY <1>1, <1>3 DEF Kept
<1>8. ASSUME Kept
      PROVE  /\ rec[l].pc = "open" /\ acked # None /\ acked' # None
             /\ acked \in Nat /\ acked' \in Nat /\ acked <= acked' /\ through <= acked'
  <2>1. rec[l].pc = "open"
    BY <1>5, <1>8 DEF Kept
  <2>2. acked # None
    BY <1>8, <2>1 DEF OneWriterInv, Recording
  <2> QED BY <1>2, <1>3, <1>4, <2>1, <2>2
<1>9. ASSUME Kept PROVE Numbering'
  <2>1. /\ OnePerNumber(durable) /\ (~ended => Numbers(durable) = 1 .. Cardinality(durable))
        /\ \A d \in durable : d \in store \/ (acked # None /\ d.n <= acked)
    BY <1>9 DEF OneWriterInv, Numbering
  <2>2. \A d \in durable : d \in store' \/ d.n <= acked'
    BY <1>2, <1>3, <1>4, <1>8, <1>9, <2>1
  <2> QED BY <1>1, <1>8, <1>9, <2>1, <2>2 DEF Numbering, OnePerNumber
<1>10. Numbering'
  BY <1>7, <1>9 DEF Numbering
<1>11. Alright(rec[l])'
  BY <1>1, <1>3, <1>5 DEF OneWriterInv, Alright, KeepsPlace
<1>12. ASSUME Kept PROVE Recording(rec[l])'
  <2>1. Recording(rec[l])
    BY <1>12 DEF OneWriterInv
  <2> QED BY <1>1, <1>3, <1>8, <1>12, <2>1 DEF Recording, KeepsPlace
<1>13. HoldsLock(l)' => HoldsLock(l)
  BY <1>1 DEF HoldsLock, KeepsPlace
<1>14. Kept => \A m \in Lives \ {l} : ~HoldsLock(m)
  BY <1>8 DEF OneWriterInv, OnlyOne, HoldsLock, Kept
<1> QED BY <1>1, <1>6, <1>7, <1>10, <1>11, <1>12, <1>13, <1>14, OneWriter

\* Where everything written has one number, no batch conflicts.
LEMMA NoConflict ==
  ASSUME TypeOK, OneWriterInv, orderly, ~ended, NEW B, B \subseteq durable
  PROVE  ~Conflicting(B)
<1>1. OnePerNumber(durable)
  BY DEF OneWriterInv, Numbering, Kept
<1>2. trace \subseteq durable
  BY RecordedFacts DEF OneWriterInv, Written, ClientTrace, TypeOK, WorldTypeOK
<1> QED BY <1>1, <1>2 DEF Conflicting, OnePerNumber

\* What changes at the server only: nothing comes into the trace that was not written down.
LEMMA WriterServer ==
  ASSUME OneWriterInv, orderly' = orderly, UNCHANGED <<store, acked, durable>>, ended => ended',
         late' \subseteq late, ClientTrace' \subseteq durable,
         \A m \in Lives : rec'[m].pc = rec[m].pc /\ rec'[m].next = rec[m].next
                            /\ rec'[m].queue = rec[m].queue /\ rec'[m].tried = rec[m].tried
                            /\ rec'[m].persisted = rec[m].persisted
                            /\ rec'[m].batch = rec[m].batch,
         \A m \in Lives : Alright(rec[m])'
  PROVE  OneWriterInv'
<1>1. Written'
  BY DEF OneWriterInv, Written
<1>2. Kept' => Kept
  BY DEF Kept
<1>3. Numbering'
  BY <1>2 DEF OneWriterInv, Numbering, OnePerNumber
<1>4. OnlyOne'
  BY DEF OneWriterInv, OnlyOne, HoldsLock
<1>5. ASSUME NEW m \in Lives, Kept' PROVE Recording(rec[m])'
  <2>1. Recording(rec[m])
    BY <1>2, <1>5 DEF OneWriterInv
  <2> QED BY <2>1 DEF Recording
<1> QED BY <1>1, <1>3, <1>4, <1>5 DEF OneWriterInv

LEMMA IngestWriter ==
  ASSUME TypeOK, GapFreeInv, OneWriterInv, NEW l \in Lives, Ingest(l), orderly' = orderly
  PROVE  OneWriterInv'
<1>1. /\ Only(l) /\ UNCHANGED <<ended, store, acked, late, durable>>
      /\ rec[l].call = "sent" /\ rec'[l].batch = rec[l].batch
      /\ rec'[l].phase = rec[l].phase
      /\ KeepsPlace(l) /\ KeepsQueue(l)
      /\ \/ rec'[l].call = "closed" /\ trace' = trace
         \/ /\ ~ended /\ Conflicting(rec[l].batch)
            /\ rec'[l].call = "conflict" /\ trace' = trace
         \/ rec'[l].call = "stored" /\ trace' = trace \union rec[l].batch
  BY IngestEffect DEF Ingest
<1>2. rec[l].batch \subseteq durable /\ ClientTrace \subseteq durable
  BY DEF OneWriterInv, Written
<1>3. ClientTrace' \subseteq durable
  BY <1>1, <1>2 DEF ClientTrace
<1>4. orderly => rec'[l].call # "conflict" /\ rec[l].pc # "disposed"
  BY <1>1, <1>2, NoConflict DEF OneWriterInv, Alright
<1>5. Alright(rec[l])'
  BY <1>1, <1>4 DEF OneWriterInv, Alright, KeepsPlace
<1>6. \A m \in Lives : Alright(rec[m])'
  <2>1. \A m \in Lives \ {l} : rec'[m] = rec[m]
    BY <1>1 DEF Only
  <2>2. \A m \in Lives \ {l} : Alright(rec[m])'
    BY <2>1 DEF OneWriterInv, Alright
  <2> QED BY <1>5, <2>2
<1>7. \A m \in Lives : rec'[m].pc = rec[m].pc /\ rec'[m].next = rec[m].next
                         /\ rec'[m].queue = rec[m].queue /\ rec'[m].tried = rec[m].tried
                         /\ rec'[m].persisted = rec[m].persisted
                         /\ rec'[m].batch = rec[m].batch
  BY <1>1 DEF Only, KeepsPlace, KeepsQueue
<1> QED BY <1>1, <1>3, <1>6, <1>7, WriterServer

LEMMA IngestLateWriter ==
  ASSUME TypeOK, GapFreeInv, OneWriterInv, IngestLate, orderly' = orderly
  PROVE  OneWriterInv'
<1>1. PICK B \in late :
        /\ late' = late \ {B}
        /\ trace' = trace \/ trace' = trace \union B
  BY IngestLateEffect
<1>2. rec' = rec /\ UNCHANGED <<ended, store, acked, durable>>
  BY DEF IngestLate
<1>3. ClientTrace' \subseteq durable
  <2>1. ClientTrace \subseteq durable /\ B \subseteq durable
    BY DEF OneWriterInv, Written
  <2> QED BY <1>1, <2>1 DEF ClientTrace
<1>4. \A m \in Lives : Alright(rec[m])'
  BY <1>2 DEF OneWriterInv, Alright
<1> QED BY <1>1, <1>2, <1>3, <1>4, WriterServer

LEMMA ServerEndsWriter ==
  ASSUME TypeOK, GapFreeInv, OneWriterInv, ServerEnds, orderly' = orderly
  PROVE  OneWriterInv'
<1>1. /\ rec' = rec /\ UNCHANGED <<store, acked, durable, late, orderly>> /\ ~ended
      /\ \E submitted \in BOOLEAN : AppendEnd(submitted)
  BY DEF ServerEnds
<1>2. ended' /\ ClientTrace' \subseteq durable
  BY <1>1, EndLands DEF OneWriterInv, Written
<1>3. \A m \in Lives : Alright(rec[m])'
  BY <1>1 DEF OneWriterInv, Alright
<1> QED BY <1>1, <1>2, <1>3, WriterServer

LEMMA EndSessionWriter ==
  ASSUME TypeOK, GapFreeInv, OneWriterInv, NEW l \in Lives, EndSession(l), orderly' = orderly
  PROVE  OneWriterInv'
<1>1. /\ Only(l) /\ UNCHANGED <<store, acked, durable, late, orderly>>
      /\ ~ended /\ \E submitted \in BOOLEAN : AppendEnd(submitted)
      /\ rec'[l].phase = rec[l].phase /\ KeepsPlace(l) /\ KeepsQueue(l) /\ KeepsRequest(l)
  BY EndSessionEffect DEF EndSession
<1>2. ended' /\ ClientTrace' \subseteq durable
  BY <1>1, EndLands DEF OneWriterInv, Written
<1>3. \A m \in Lives : rec'[m].pc = rec[m].pc /\ rec'[m].next = rec[m].next
                         /\ rec'[m].queue = rec[m].queue /\ rec'[m].tried = rec[m].tried
                         /\ rec'[m].persisted = rec[m].persisted
                         /\ rec'[m].batch = rec[m].batch
                         /\ rec'[m].call = rec[m].call /\ rec'[m].phase = rec[m].phase
  BY <1>1 DEF Only, KeepsPlace, KeepsQueue, KeepsRequest
<1>4. \A m \in Lives : Alright(rec[m])'
  BY <1>3 DEF OneWriterInv, Alright
<1> QED BY <1>1, <1>2, <1>3, <1>4, WriterServer

LEMMA FinishWriter ==
  ASSUME TypeOK, GapFreeInv, OneWriterInv, NEW l \in Lives, Finish(l), orderly' = orderly
  PROVE  OneWriterInv'
<1>1. /\ LifeFits(rec[l]) /\ Only(l) /\ UNCHANGED <<trace, ended, late, durable>>
      /\ rec[l].ask = "done" /\ rec'[l].phase = "closed"
      /\ (store' = {} /\ acked' = None) \/ UNCHANGED <<store, acked>>
      /\ KeepsPlace(l) /\ KeepsQueue(l) /\ KeepsRequest(l)
  BY FinishEffect DEF Finish, GapFreeInv
<1>2. rec'[l].batch \subseteq durable /\ Alright(rec[l])'
  BY <1>1 DEF OneWriterInv, Written, Alright, KeepsPlace, KeepsQueue, KeepsRequest
<1>3. CASE UNCHANGED <<store, acked>>
  BY <1>1, <1>2, <1>3, WriterWork
<1>4. CASE store' = {} /\ acked' = None
  <2>1. ended
    BY <1>1 DEF LifeFits, RequestFits
  <2>2. ~Kept'
    BY <1>1, <1>4, <2>1 DEF Kept
  <2>3. \A m \in Lives : /\ rec'[m].queue = rec[m].queue /\ rec'[m].persisted = rec[m].persisted
                         /\ rec'[m].batch = rec[m].batch
    BY <1>1 DEF Only, KeepsQueue, KeepsRequest
  <2>4. Written'
    BY <1>1, <1>4, <2>3 DEF OneWriterInv, Written, ClientTrace
  <2>5. Numbering'
    BY <2>2 DEF Numbering
  <2>6. HoldsLock(l)' => HoldsLock(l)
    BY <1>1 DEF HoldsLock, KeepsPlace
  <2> QED BY <1>1, <1>2, <2>2, <2>4, <2>5, <2>6, OneWriter
<1> QED BY <1>1, <1>3, <1>4

LEMMA InitOneWriter == Init => OneWriterInv
<1>1. ASSUME Init PROVE OneWriterInv
  <2>1. \A l \in Lives : rec[l] = NewRecorder
    BY <1>1 DEF Init
  <2>2. IsFiniteSet({}) /\ Cardinality({}) = 0
    BY FS_EmptySet
  <2>3. Written
    BY <1>1, <2>1, <2>2, NewRecorderFacts DEF Init, Written, ClientTrace
  <2>4. Numbering
    <3>1. Numbers({}) = {} /\ 1 .. 0 = {}
      BY DEF Numbers
    <3>2. durable = {}
      BY <1>1 DEF Init
    <3> QED BY <2>2, <3>1, <3>2 DEF Numbering, OnePerNumber
  <2>5. OnlyOne /\ \A l \in Lives : Alright(rec[l]) /\ Recording(rec[l])
    BY <2>1, NewRecorderFacts DEF OnlyOne, HoldsLock, Alright, Recording
  <2> QED BY <2>3, <2>4, <2>5 DEF OneWriterInv
<1> QED BY <1>1

LEMMA StepOneWriter ==
  ASSUME ~StoreMayFail, TypeOK, GapFreeInv, OneWriterInv, Next
  PROVE  OneWriterInv'
<1> orderly' = orderly
  BY DEF Next
<1>1. ASSUME NEW l \in Lives,
             Open(l) \/ Load(l) \/ AskState(l) \/ FinishOpen(l) \/ Record(l) \/ Persist(l)
      PROVE  OneWriterInv'
  BY <1>1, OpenWriter, LoadWriter, AskStateWriter, FinishOpenWriter, RecordWriter,
     PersistWriter
<1>2. ASSUME NEW l \in Lives,
             \/ Send(l) \/ Beacon(l) \/ Receive(l) \/ ReceiveRefusal(l) \/ GiveUp(l)
             \/ Ingest(l) \/ Deny(l) \/ Reply(l)
      PROVE  OneWriterInv'
  BY <1>2, SendWriter, BeaconWriter, ReceiveWriter, ReceiveRefusalWriter, GiveUpWriter,
     IngestWriter, DenyWriter, ReplyWriter
<1>3. ASSUME NEW l \in Lives,
             \/ PressEnd(l) \/ Flushed(l) \/ SnapshotStored(l) \/ AskFails(l) \/ EndSession(l)
             \/ Finish(l) \/ Unmount(l) \/ PageGone(l)
      PROVE  OneWriterInv'
  BY <1>3, AskWriter, EndSessionWriter, FinishWriter, UnmountWriter, PageGoneWriter
<1>4. ASSUME IngestLate \/ ServerEnds PROVE OneWriterInv'
  BY <1>4, IngestLateWriter, ServerEndsWriter
<1>5. \A l \in Lives : ~PersistFails(l)
  BY DEF PersistFails
<1> QED BY <1>1, <1>2, <1>3, <1>4, <1>5 DEF Next, Act

LEMMA StillOneWriter ==
  ASSUME OneWriterInv, UNCHANGED vars
  PROVE  OneWriterInv'
<1>1. UNCHANGED <<trace, ended, store, acked, rec, late, durable, orderly>>
  BY DEF vars
<1>2. ClientTrace' \subseteq durable
  BY <1>1 DEF OneWriterInv, Written, ClientTrace
<1>3. \A m \in Lives : Alright(rec[m])'
  BY <1>1 DEF OneWriterInv, Alright
<1> QED BY <1>1, <1>2, <1>3, WriterServer

TraceInv == TypeOK /\ GapFreeInv /\ OneWriterInv

LEMMA AlwaysOneWriter == ~StoreMayFail => (Spec => []TraceInv)
<1> SUFFICES ASSUME ~StoreMayFail PROVE Spec => []TraceInv
  OBVIOUS
<1>1. Init => TraceInv
  BY InitTypeOK, InitGapFree, InitOneWriter DEF TraceInv
<1>2. TraceInv /\ [Next]_vars => TraceInv'
  BY StepTypeOK, StepGapFree, StepOneWriter, StillGapFree, StillOneWriter DEF TraceInv
<1> QED BY <1>1, <1>2, PTL DEF Spec

\* Under the tab lock no recorder is ever stopped for good by a conflict or by a gap: what a
\* life numbers is above everything any life before it wrote down (init against run).
THEOREM NoRecorderFails == ~StoreMayFail => (Spec => []RecorderNeverFails)
<1>1. TraceInv => RecorderNeverFails
  BY DEF TraceInv, OneWriterInv, Alright, RecorderNeverFails
<1> QED BY <1>1, AlwaysOneWriter, PTL

\* What was written down is in the browser or on the server, through every reload, crash and
\* lost answer, until the session has ended and is forgotten (run deletes only what is stored).
THEOREM NothingWrittenIsLost == ~StoreMayFail => (Spec => []NothingLost)
<1>1. ASSUME TraceInv PROVE NothingLost
  <2> SUFFICES ASSUME Kept, NEW d \in durable PROVE d \in store \union trace
    BY DEF NothingLost, Kept
  <2>1. OnePerNumber(durable) /\ (d \in store \/ (acked # None /\ d.n <= acked))
    BY <1>1 DEF TraceInv, OneWriterInv, Numbering
  <2>2. ASSUME acked # None, d.n <= acked PROVE d \in trace
    <3>1. acked \in Nat /\ d.n \in Nat /\ d.n # 0
      BY <1>1, <2>2, RecordedFacts DEF TraceInv, TypeOK, WorldTypeOK
    <3>2. d.n \in Numbers(ClientTrace)
      BY <1>1, <2>2, <3>1 DEF TraceInv, GapFreeInv, StoreFits
    <3>3. PICK t \in ClientTrace : t.n = d.n
      BY <3>2 DEF Numbers
    <3>4. t \in durable
      BY <1>1 DEF TraceInv, OneWriterInv, Written
    <3>5. t = d
      BY <2>1, <3>3, <3>4 DEF OnePerNumber
    <3> QED BY <3>3, <3>5 DEF ClientTrace
  <2> QED BY <2>1, <2>2
<1> QED BY <1>1, AlwaysOneWriter, PTL

-----------------------------------------------------------------------------
(* Trace recording delivers what it promises.                              *)

\* The two modules count in the same way.
LEMMA SameCount == \A S : Delivery!Cardinality(S) = Cardinality(S)
BY DEF Delivery!Cardinality, Cardinality

LEMMA InitDelivers == Init => Delivery!Init
<1>1. ASSUME Init PROVE Delivery!Init
  <2>1. durable = {} /\ ended = FALSE /\ {e \in trace : e.c \notin {"submitted", "ended"}} = {}
    BY <1>1 DEF Init
  <2> QED BY <2>1 DEF Delivery!Init
<1> QED BY <1>1

\* Taking a batch in is a delivery.
LEMMA LandingDelivers ==
  ASSUME TraceInv, TraceInv', orderly, orderly' = orderly, ~ended, UNCHANGED <<ended, durable>>,
         trace \subseteq trace'
  PROVE  Delivery!Deliver
<1> DEFINE D == {e \in trace : e.c \notin {"submitted", "ended"}}
<1>1. D = ClientTrace /\ D' = ClientTrace'
  BY DEF ClientTrace, ServerMarks
<1>2. D \subseteq D' /\ D' \subseteq durable
  BY <1>1 DEF TraceInv, OneWriterInv, Written
<1>3. ASSUME NEW d \in D', NEW e \in durable, e.n <= d.n PROVE e \in D'
  <2>1. e.n \in Nat /\ e.n # 0 /\ d.n \in Nat
    BY <1>2, <1>3, RecordedFacts DEF TraceInv, TypeOK, WorldTypeOK
  <2>2. e.n \in Numbers(trace')
    BY <1>3, <2>1 DEF TraceInv, GapFreeInv, TraceGapFree
  <2>3. PICK t \in trace' : t.n = e.n
    BY <2>2 DEF Numbers
  <2>4. t \in D'
    BY <1>1, <2>3, RecordedFacts DEF TraceInv, TypeOK, WorldTypeOK, ClientTrace
  <2>5. OnePerNumber(durable)
    BY DEF TraceInv, OneWriterInv, Numbering, Kept
  <2> QED BY <1>2, <1>3, <2>3, <2>4, <2>5 DEF OnePerNumber
<1> HIDE DEF D
<1>4. Delivery!BeginningOf(D', durable)
  BY <1>2, <1>3 DEF Delivery!BeginningOf
<1> QED BY <1>2, <1>4 DEF Delivery!Deliver, D

\* Every step of a recording in an orderly browser is a step of the promise, or none.
LEMMA StepDelivers ==
  ASSUME ~StoreMayFail, TraceInv, TraceInv', [Next]_vars
  PROVE  [Delivery!Next]_(Delivery!vars)
<1>1. orderly' = orderly
  BY DEF Next, vars
<1>2. CASE ~orderly
  BY <1>1, <1>2 DEF Delivery!vars
<1>3. CASE orderly
  <2>1. ASSUME UNCHANGED <<trace, ended, durable>> PROVE UNCHANGED Delivery!vars
    BY <1>1, <2>1 DEF Delivery!vars
  <2>2. ASSUME NEW l \in Lives, Persist(l) PROVE Delivery!Write
    <3>1. PICK e \in NextToWrite(l) : durable' = durable \union {e}
      BY <2>2 DEF Persist
    <3>2. rec[l].pc = "open" /\ e \in ClientEvent
      <4>1. e \in rec[l].queue /\ e.n > rec[l].tried /\ LifeFits(rec[l]) /\ rec[l].tried \in Nat
            /\ e.n \in Nat
        BY NextToWriteFacts DEF TraceInv, GapFreeInv
      <4>2. rec[l].pc \in {"open", "disposed"}
        BY <2>2 DEF Persist
      <4> QED BY <1>3, <4>1, <4>2, RecordedFacts
          DEF TraceInv, OneWriterInv, Alright, TypeOK, LivesTypeOK
    <3>3. ~ended => e.n = Cardinality(durable) + 1
      BY <1>3, <3>2, WrittenInOrder DEF TraceInv, Kept
    <3>4. UNCHANGED <<trace, ended>>
      BY <2>2 DEF Persist
    <3> QED BY <1>1, <1>3, <3>1, <3>2, <3>3, <3>4, SameCount DEF Delivery!Write
  <2>3. ASSUME ~ended, UNCHANGED <<ended, durable>>, trace \subseteq trace' PROVE Delivery!Deliver
    BY <1>1, <1>3, <2>3, LandingDelivers
  <2>4. ASSUME NEW submitted \in BOOLEAN, ~ended, AppendEnd(submitted),
               UNCHANGED <<store, acked, durable, late>>
        PROVE  Delivery!Close
    <3>1. ended' /\ ClientTrace' = ClientTrace
      BY <1>1, <2>4, EndLands DEF TraceInv
    <3>2. ended' = TRUE
      BY <2>4 DEF AppendEnd
    <3> QED BY <1>1, <1>3, <2>4, <3>1, <3>2 DEF Delivery!Close, ClientTrace, ServerMarks
  <2>5. CASE UNCHANGED vars
    BY <2>1, <2>5 DEF vars
  <2>6. CASE IngestLate
    <3>1. PICK B \in late : trace' = trace \/ (~ended /\ trace' = trace \union B)
      BY <1>1, <2>6, IngestLateEffect DEF TraceInv
    <3>2. UNCHANGED <<ended, durable>>
      BY <2>6 DEF IngestLate
    <3> QED BY <2>1, <2>3, <3>1, <3>2 DEF Delivery!Next
  <2>7. CASE ServerEnds
    BY <2>4, <2>7 DEF ServerEnds, Delivery!Next
  <2>8. ASSUME NEW l \in Lives, Ingest(l) PROVE [Delivery!Next]_(Delivery!vars)
    <3>1. trace' = trace \/ (~ended /\ trace' = trace \union rec[l].batch)
      BY <1>1, <2>8, IngestEffect DEF TraceInv
    <3>2. UNCHANGED <<ended, durable>>
      BY <2>8 DEF Ingest
    <3> QED BY <2>1, <2>3, <3>1, <3>2 DEF Delivery!Next
  <2>9. ASSUME NEW l \in Lives, EndSession(l) PROVE Delivery!Next
    <3>1. (rec[l].ask = "submit") \in BOOLEAN
      OBVIOUS
    <3> QED BY <2>4, <2>9, <3>1 DEF EndSession, Delivery!Next
  <2>10. ASSUME NEW l \in Lives,
                \/ Open(l) \/ Load(l) \/ AskState(l) \/ FinishOpen(l) \/ Record(l)
                \/ Send(l) \/ Beacon(l) \/ Receive(l) \/ ReceiveRefusal(l) \/ GiveUp(l)
                \/ Deny(l) \/ Reply(l)
                \/ PressEnd(l) \/ Flushed(l) \/ SnapshotStored(l) \/ AskFails(l)
                \/ Finish(l) \/ Unmount(l) \/ PageGone(l)
         PROVE  UNCHANGED <<trace, ended, durable>>
    BY <2>10 DEF Open, Load, AskState, FinishOpen, Record, Send, Beacon, Receive,
       ReceiveRefusal,
       GiveUp, Deny, Reply, PressEnd, Flushed, SnapshotStored, AskFails, Finish, Unmount,
       PageGone
  <2>11. \A l \in Lives : ~PersistFails(l)
    BY DEF PersistFails
  <2> QED BY <2>1, <2>2, <2>5, <2>6, <2>7, <2>8, <2>9, <2>10, <2>11, Zenon
      DEF Next, Act, Delivery!Next
<1> QED BY <1>2, <1>3

\* The server always holds a beginning of what the browser wrote down, in order, and the
\* browser writes one number after the other: trace recording keeps the promise of
\* TraceDelivery in an orderly browser whose store does not fail.
THEOREM RecordingDelivers == ~StoreMayFail => (Spec => ImplementsDelivery)
<1> SUFFICES ASSUME ~StoreMayFail PROVE Spec => ImplementsDelivery
  OBVIOUS
<1>1. Init => Delivery!Init
  BY InitDelivers
<1>2. TraceInv /\ TraceInv' /\ [Next]_vars => [Delivery!Next]_(Delivery!vars)
  BY StepDelivers
<1>3. Spec => []TraceInv
  BY AlwaysOneWriter
<1> QED BY <1>1, <1>2, <1>3, PTL DEF Spec, ImplementsDelivery, Delivery!Spec

=============================================================================

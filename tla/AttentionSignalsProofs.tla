----------------------- MODULE AttentionSignalsProofs -----------------------
(***************************************************************************)
(* Proofs about the signal scheduler for every set of sessions and of      *)
(* scheduler processes, every threshold, batch size and bound.             *)
(***************************************************************************)
EXTENDS AttentionSignals, FiniteSetTheorems, WellFoundedInduction, TLAPS

-----------------------------------------------------------------------------
(* Lemmas about the operators.                                             *)

\* A set of natural numbers has a least one.
LEMMA NatMin ==
  ASSUME NEW S \in SUBSET Nat, S # {}
  PROVE  Min(S) \in S /\ \A x \in S : Min(S) <= x
<1> DEFINE R == {ss \in Nat \X Nat : ss[1] < ss[2]}
<1>1. IsWellFoundedOn(R, Nat)
  BY NatLessThanWellFounded, Zenon DEF OpToRel
<1>2. \A y, x \in Nat : <<y, x>> \in R <=> y < x
  OBVIOUS
<1> HIDE DEF R
<1>3. PICK x \in S : \A y \in S : ~(<<y, x>> \in R)
  BY <1>1, WFMin
<1>4. \A y \in S : x <= y
  <2> TAKE y \in S
  <2>1. ~(y < x)
    BY <1>2, <1>3, Zenon
  <2> QED BY <2>1
<1> QED BY <1>4 DEF Min

\* A bounded one has a greatest.
LEMMA NatMax ==
  ASSUME NEW S \in SUBSET Nat, S # {}, NEW b \in Nat, \A x \in S : x <= b
  PROVE  Max(S) \in S /\ \A x \in S : x <= Max(S)
<1> DEFINE T == {b - x : x \in S}
<1>1. T \in SUBSET Nat /\ T # {}
  <2>1. \A x \in S : b - x \in Nat
    OBVIOUS
  <2> QED BY <2>1
<1>2. PICK m \in T : \A t \in T : m <= t
  BY <1>1, NatMin
<1>3. PICK x \in S : m = b - x
  OBVIOUS
<1>4. \A y \in S : y <= x
  <2> TAKE y \in S
  <2>1. b - x <= b - y
    BY <1>2, <1>3
  <2> QED BY <2>1
<1> QED BY <1>4 DEF Max

-----------------------------------------------------------------------------
(* The inductive invariant.                                                *)

\* A transaction of the outbox is open.
Evaluating(c) == c.pc \in {"prefix", "chunk", "commit"}

TypeOK ==
    /\ now \in Nat
    /\ trace \in [Sessions -> SUBSET Event]
    /\ active \subseteq Sessions
    /\ outbox \in [Sessions -> SUBSET (Nat \ {0})]
    /\ cycle \in [Schedulers -> Cycle]

\* A number names one event, and is bounded.
EventsNumbered ==
    \A s \in Sessions :
        /\ \A e, f \in trace[s] : e.n = f.n => e = f
        /\ \A e \in trace[s] : e.n <= IF s \in active THEN MaxSeq[s] ELSE MaxSeq[s] + 1

\* Event n has arrived and none before it is missing.
Complete(s, n) == n \in Numbers(s) /\ 1 .. n \subseteq Numbers(s)

\* What a scheduler evaluates lies below the missing numbers.
Fits(c) ==
    /\ c.pc \in {"prefix", "chunk", "insert", "first"} => c.todo # {}
    /\ c.pc = "chunk" => Complete(Min(c.todo), c.prefix)
    /\ ~Evaluating(c) => /\ c.done = {}
                         /\ \A x, y \in c.made : x = y
                         /\ \A x \in c.made : x.rule = "IDLE" => x.closing = 0
CycleHolds == \A w \in Schedulers : Fits(cycle[w])

\* A signal about a closed gap is the gap, and no event can still fall into it.
GapTrue(x) == Complete(x.session, x.closing) /\ x \in ClosedGap(x.session, x.closing)
GapsHold ==
    /\ \A x \in signals : x.rule = "IDLE" /\ x.closing # 0 => x.session \in Sessions /\ GapTrue(x)
    /\ \A w \in Schedulers : Evaluating(cycle[w]) =>
         \A x \in cycle[w].made : x.rule = "IDLE" /\ x.closing # 0 /\ GapTrue(x)

\* The gaps of an evaluated event have signals in X.
Found(s, n, X) == Complete(s, n) /\ \A x \in ClosedGap(s, n) : Key(x) \in Keys(X)
EvaluatedFound ==
    /\ \A s \in Sessions : \A e \in Meaningful(s) : e.n \notin outbox[s] => Found(s, e.n, signals)
    /\ \A w \in Schedulers : \A d \in cycle[w].done :
         Found(d[1], d[2], signals \union cycle[w].made)

\* One key names one signal, those of open transactions included.
UniqueKeys(X) == \A x, y \in X : Key(x) = Key(y) => x = y
KeysHold ==
    /\ UniqueKeys(signals)
    /\ \A w \in Schedulers : Evaluating(cycle[w]) => UniqueKeys(signals \union cycle[w].made)
    /\ \A v, w \in Schedulers : v # w /\ Evaluating(cycle[v]) /\ Evaluating(cycle[w]) =>
         Keys(cycle[v].made) \intersect Keys(cycle[w].made) = {}

\* What the passes have found is no idle time, and at most one signal.
OneRuled(X) == (\A x \in X : x.rule # "IDLE") /\ (\A x, y \in X : x = y)
IsPass(p) == DOMAIN p = {"pc", "todo", "median", "made"} /\ OneRuled(p.made)
PassHolds ==
    /\ DOMAIN pass = Schedulers
    /\ \A w \in Schedulers : IsPass(pass[w])

OutboxInv == TypeOK /\ EventsNumbered /\ CycleHolds /\ GapsHold /\ EvaluatedFound /\ KeysHold
IInv == OutboxInv /\ PassHolds

-----------------------------------------------------------------------------
(* What the operators return.                                              *)

LEMMA MinTodo ==
  ASSUME NEW S \in SUBSET Sessions, S # {}
  PROVE  Min(S) \in S
BY NatMin, OutboxAssumption

LEMMA EventFacts ==
  ASSUME TypeOK, EventsNumbered, NEW s \in Sessions, NEW n \in Numbers(s)
  PROVE  /\ EventOf(s, n) \in trace[s] /\ EventOf(s, n).n = n
         /\ \A e \in trace[s] : e.n = n => EventOf(s, n) = e
         /\ n \in Nat \ {0}
<1>1. PICK e \in trace[s] : e.n = n
  BY DEF Numbers
<1>2. EventOf(s, n) \in trace[s] /\ EventOf(s, n).n = n
  BY <1>1 DEF EventOf
<1> QED BY <1>1, <1>2 DEF EventsNumbered, TypeOK, Event

\* The latest by number, or the opening of the session.
LastBefore(E) ==
    IF E = {} THEN [n |-> 0, kind |-> "other", at |-> 0]
    ELSE CHOOSE e \in E : \A f \in E : f.n <= e.n
Earlier(s, n) == {e \in Meaningful(s) : e.n < n}

LEMMA PredecessorFacts ==
  ASSUME TypeOK, NEW s \in Sessions, NEW n \in Nat
  PROVE  /\ Predecessor(s, n) = LastBefore(Earlier(s, n))
         /\ Predecessor(s, n).n \in Nat /\ Predecessor(s, n).at \in Nat
<1>1. Predecessor(s, n) = LastBefore(Earlier(s, n))
  BY DEF Predecessor, LastBefore, Earlier
<1>2. ASSUME Earlier(s, n) # {}
      PROVE  LastBefore(Earlier(s, n)) \in Event
  <2> DEFINE N == {e.n : e \in Earlier(s, n)}
  <2>1. Earlier(s, n) \subseteq Event /\ \A e \in Earlier(s, n) : e.n \in Nat /\ e.n <= n
    BY DEF Earlier, Meaningful, TypeOK, Event
  <2>2. N \in SUBSET Nat /\ N # {} /\ \A x \in N : x <= n
    BY <1>2, <2>1
  <2>3. PICK m \in N : \A x \in N : x <= m
    BY <2>2, NatMax
  <2>4. PICK e \in Earlier(s, n) : m = e.n
    OBVIOUS
  <2>5. \A f \in Earlier(s, n) : f.n <= e.n
    BY <2>3, <2>4
  <2>6. LastBefore(Earlier(s, n)) \in Earlier(s, n)
    BY <1>2, <2>5 DEF LastBefore
  <2> QED BY <2>1, <2>6
<1>3. LastBefore({}).n \in Nat /\ LastBefore({}).at \in Nat
  BY DEF LastBefore
<1> QED BY <1>1, <1>2, <1>3 DEF Event

\* A closed gap is one signal at most, about the event that closed it.
LEMMA GapFacts ==
  ASSUME TypeOK, EventsNumbered, NEW s \in Sessions, NEW n \in Numbers(s)
  PROVE  /\ ClosedGap(s, n) \subseteq Signal
         /\ \A x \in ClosedGap(s, n) : x.rule = "IDLE" /\ x.session = s /\ x.closing = n
         /\ \A x, y \in ClosedGap(s, n) : x = y
<1> DEFINE e == EventOf(s, n)
           p == Predecessor(s, n)
           gap == [rule |-> "IDLE", session |-> s, of |-> 1,
                   from |-> p.at, to |-> e.at, before |-> p.n, closing |-> n]
<1>1. n \in Nat \ {0} /\ e.at \in Nat /\ p.at \in Nat /\ p.n \in Nat
  BY EventFacts, PredecessorFacts DEF TypeOK, Event
<1>2. \A x \in ClosedGap(s, n) : x = gap
  BY DEF ClosedGap
<1> HIDE DEF e, p
<1>3. /\ gap \in Signal /\ gap.rule = "IDLE" /\ gap.session = s /\ gap.closing = n
  BY <1>1 DEF Signal
<1> HIDE DEF gap
<1> QED BY <1>2, <1>3

\* An event that arrives does not disturb what lies below the missing numbers.
LEMMA StoredKeeps ==
  ASSUME TypeOK, EventsNumbered, NEW s \in Sessions, NEW e \in Event, e.n \notin Numbers(s),
         Stored(s, e), NEW t \in Sessions, NEW n, Complete(t, n), EventsNumbered', TypeOK'
  PROVE  Complete(t, n)' /\ ClosedGap(t, n)' = ClosedGap(t, n)
<1>1. /\ trace' = [trace EXCEPT ![s] = @ \union {e}]
      /\ trace[t] \subseteq trace'[t]
  BY DEF Stored, TypeOK
<1>2. n \in Numbers(t) /\ Numbers(t) \subseteq Numbers(t)'
  BY <1>1 DEF Numbers, Complete
<1>3. Complete(t, n)'
  BY <1>2 DEF Complete
<1>4. EventOf(t, n)' = EventOf(t, n)
  <2>1. EventOf(t, n) \in trace[t] /\ EventOf(t, n).n = n
    BY <1>2, EventFacts
  <2>2. PICK f \in trace'[t] : f.n = n /\ EventOf(t, n)' = f
    <3>1. \E f \in trace'[t] : f.n = n
      BY <2>1, <1>1
    <3> QED BY <3>1 DEF EventOf
  <2> QED BY <1>1, <2>1, <2>2 DEF EventsNumbered
<1>5. Predecessor(t, n)' = Predecessor(t, n)
  <2>1. Earlier(t, n)' = Earlier(t, n)
    <3>1. n \in Nat /\ (s = t => ~(e.n < n))
      BY <1>2, EventFacts DEF Complete, Event
    <3> QED BY <1>1, <3>1 DEF Earlier, Meaningful, TypeOK
  <2>2. Predecessor(t, n)' = LastBefore(Earlier(t, n)')
    BY DEF Predecessor, LastBefore, Earlier
  <2>3. Predecessor(t, n) = LastBefore(Earlier(t, n))
    BY DEF Predecessor, LastBefore, Earlier
  <2> QED BY <2>1, <2>2, <2>3
<1>6. ClosedGap(t, n)' = ClosedGap(t, n)
  BY <1>4, <1>5 DEF ClosedGap
<1> QED BY <1>3, <1>6

\* Highest leaves nothing missing below it.
LEMMA HighestFacts ==
  ASSUME TypeOK, EventsNumbered, NEW s \in Sessions
  PROVE  /\ Highest(s) \in Nat
         /\ Highest(s) >= 1 => Complete(s, Highest(s))
<1> DEFINE C == {n \in Numbers(s) : 1 .. n \subseteq Numbers(s)}
           S == {0} \union C
<1>1. Numbers(s) \subseteq Nat \ {0} /\ \A n \in Numbers(s) : n <= MaxSeq[s] + 1
  BY OutboxAssumption DEF Numbers, TypeOK, Event, EventsNumbered
<1>2. S \in SUBSET Nat /\ S # {} /\ (\A n \in S : n <= MaxSeq[s] + 1) /\ MaxSeq[s] + 1 \in Nat
  BY <1>1, OutboxAssumption
<1>3. Highest(s) = Max(S)
  BY DEF Highest
<1>4. Max(S) \in S
  BY <1>2, NatMax
<1> QED BY <1>1, <1>3, <1>4 DEF Complete

LEMMA GreatestFacts ==
  ASSUME TypeOK, EventsNumbered, NEW s \in Sessions
  PROVE  LET n == Max({0} \union Numbers(s))
         IN  n \in Nat /\ 1 + n \notin Numbers(s) /\ (s \in active => n <= MaxSeq[s])
<1> DEFINE S == {0} \union Numbers(s)
<1>1. Numbers(s) \subseteq Nat \ {0} /\ \A n \in Numbers(s) : n <= MaxSeq[s] + 1
  BY OutboxAssumption DEF Numbers, TypeOK, Event, EventsNumbered
<1>2. s \in active => \A n \in Numbers(s) : n <= MaxSeq[s]
  BY DEF Numbers, EventsNumbered
<1>3. S \in SUBSET Nat /\ S # {} /\ (\A n \in S : n <= MaxSeq[s] + 1) /\ MaxSeq[s] + 1 \in Nat
  BY <1>1, OutboxAssumption
<1>4. Max(S) \in S /\ \A n \in S : n <= Max(S)
  BY <1>3, NatMax
<1> HIDE DEF S
<1>5. 1 + Max(S) \notin S
  <2>1. Max(S) \in Nat
    BY <1>3, <1>4
  <2>2. ~(1 + Max(S) <= Max(S))
    BY <2>1
  <2> QED BY <1>4, <2>2
<1> QED BY <1>1, <1>2, <1>3, <1>4, <1>5, OutboxAssumption DEF S

\* The cycle of a scheduler keeps its type.
LEMMA CycleTypes ==
  ASSUME NEW c \in Cycle
  PROVE  /\ IdleCycle \in Cycle
         /\ \A S \in SUBSET Sessions, pc \in {"claim", "prefix", "tail"} :
              /\ [IdleCycle EXCEPT !.pc = pc, !.todo = S, !.held = S] \in Cycle
              /\ [IdleCycle EXCEPT !.pc = pc, !.todo = S] \in Cycle
              /\ [IdleCycle EXCEPT !.pc = pc] \in Cycle
         /\ \A n \in Nat : [c EXCEPT !.pc = "chunk", !.prefix = n] \in Cycle
         /\ \A S \in SUBSET Sessions : [c EXCEPT !.pc = "look", !.todo = S] \in Cycle
         /\ ToFirst(c) \in Cycle
         /\ \A X \in SUBSET Signal, pc \in {"insert", "insertFirst"} :
              [c EXCEPT !.pc = pc, !.made = X] \in Cycle
<1> DEFINE Pc == {"asleep", "claim", "prefix", "chunk", "commit", "tail", "look", "insert",
                  "first", "insertFirst"}
           Made == SUBSET Signal
           Done == SUBSET (Sessions \X Nat)
<1>1. /\ Cycle = [pc : Pc, todo : SUBSET Sessions, held : SUBSET Sessions, prefix : Nat,
                  made : Made, done : Done]
      /\ {} \in Made /\ {} \in Done
      /\ {"asleep", "claim", "prefix", "chunk", "tail", "look", "insert", "first", "insertFirst"}
            \subseteq Pc
  BY DEF Cycle
<1>2. Made = SUBSET Signal
  OBVIOUS
<1> HIDE DEF Pc, Made, Done
<1>3. IdleCycle \in Cycle
  BY <1>1 DEF IdleCycle
<1> QED BY <1>1, <1>2, <1>3 DEF ToFirst, IdleCycle

LEMMA AdvanceFacts ==
  ASSUME NEW c \in Cycle, c.todo # {}
  PROVE  /\ Advance(c) \in Cycle /\ NextSession(c) \in Cycle
         /\ NextSession(c).pc = "look" /\ NextSession(c).made = {} /\ NextSession(c).done = c.done
         /\ Advance(c).pc \in {"prefix", "commit"}
         /\ Advance(c).pc = "prefix" => Advance(c).todo # {}
         /\ Advance(c).made = c.made /\ Advance(c).done = c.done
         /\ \A X \in SUBSET Signal, D \in SUBSET (Sessions \X Nat) :
              [Advance(c) EXCEPT !.made = X, !.done = D] \in Cycle
<1> DEFINE Pc == {"asleep", "claim", "prefix", "chunk", "commit", "tail", "look", "insert",
                  "first", "insertFirst"}
           Made == SUBSET Signal
           Done == SUBSET (Sessions \X Nat)
<1>1. /\ Cycle = [pc : Pc, todo : SUBSET Sessions, held : SUBSET Sessions, prefix : Nat,
                  made : Made, done : Done]
      /\ {"prefix", "commit", "look"} \subseteq Pc
      /\ Made = SUBSET Signal /\ Done = SUBSET (Sessions \X Nat)
  BY DEF Cycle
<1>2. Min(c.todo) \in c.todo
  BY MinTodo DEF Cycle
<1> HIDE DEF Pc, Made, Done
<1> QED BY <1>1, <1>2 DEF Advance, NextSession

-----------------------------------------------------------------------------
(* The initial states, and steps that only move a scheduler on.            *)

LEMMA FoundMonotone ==
  ASSUME NEW s, NEW n, NEW X, NEW Y, X \subseteq Y, Found(s, n, X)
  PROVE  Found(s, n, Y)
BY DEF Found, Keys

LEMMA InitOutbox ==
  ASSUME NEW A \in SUBSET Sessions, Start(A)
  PROVE  OutboxInv
<1> USE DEF Start
<1>0. IdleCycle \in Cycle /\ IdleCycle.pc = "asleep" /\ IdleCycle.done = {} /\ IdleCycle.made = {}
  <2>1. {} \in SUBSET Sessions /\ {} \in SUBSET Signal /\ {} \in SUBSET (Sessions \X Nat)
    OBVIOUS
  <2> QED BY <2>1 DEF IdleCycle, Cycle
<1>1. TypeOK
  BY <1>0 DEF TypeOK
<1>2. EventsNumbered
  BY DEF EventsNumbered
<1>3. CycleHolds
  BY <1>0 DEF CycleHolds, Fits, Evaluating
<1>4. GapsHold
  BY <1>0 DEF GapsHold, Evaluating
<1>5. EvaluatedFound
  BY <1>0 DEF EvaluatedFound, Meaningful
<1>6. KeysHold
  BY <1>0 DEF KeysHold, UniqueKeys, Evaluating
<1> QED BY <1>1, <1>2, <1>3, <1>4, <1>5, <1>6 DEF OutboxInv

\* A scheduler moves on in its transaction, or is not in one, or opens an empty one.
LEMMA CycleStep ==
  ASSUME OutboxInv, NEW w \in Schedulers, NEW d \in Cycle,
         cycle' = [cycle EXCEPT ![w] = d], UNCHANGED <<trace, active, outbox, signals>>,
         now' \in Nat, Fits(d),
         \/ ~Evaluating(d)
         \/ d.made = {} /\ d.done = {}
         \/ Evaluating(cycle[w]) /\ d.made = cycle[w].made /\ d.done = cycle[w].done
  PROVE  OutboxInv'
<1> USE DEF OutboxInv
<1>0. /\ cycle'[w] = d
      /\ \A v \in Schedulers : v # w => cycle'[v] = cycle[v]
      /\ d.done = {} \/ (d.made = cycle[w].made /\ d.done = cycle[w].done)
  BY DEF TypeOK, Fits
<1>1. TypeOK'
  BY DEF TypeOK
<1>2. EventsNumbered'
  BY DEF EventsNumbered
<1>3. \A c : Fits(c)' <=> Fits(c)
  BY DEF Fits, Evaluating, Complete, Numbers
<1>4. CycleHolds'
  BY <1>0, <1>3 DEF CycleHolds
<1>5. \A x : GapTrue(x)' <=> GapTrue(x)
  BY DEF GapTrue, Complete, Numbers, ClosedGap, EventOf, Predecessor, Meaningful
<1>6. \A s, n, X : Found(s, n, X)' <=> Found(s, n, X)
  BY DEF Found, Complete, Numbers, ClosedGap, EventOf, Predecessor, Meaningful
<1>7. GapsHold'
  BY <1>0, <1>5 DEF GapsHold
<1>8. EvaluatedFound'
  BY <1>0, <1>6 DEF EvaluatedFound, Meaningful
<1>9. KeysHold'
  <2>1. \A v \in Schedulers : Evaluating(cycle[v])' =>
          \/ cycle'[v].made = {}
          \/ Evaluating(cycle[v]) /\ cycle'[v].made = cycle[v].made
    BY <1>0 DEF Evaluating
  <2> QED BY <1>0, <2>1 DEF KeysHold, UniqueKeys, Keys
<1> QED BY <1>1, <1>2, <1>4, <1>7, <1>8, <1>9

-----------------------------------------------------------------------------
(* The steps of the students.                                              *)

LEMMA TickStep ==
  ASSUME OutboxInv, Tick
  PROVE  OutboxInv'
<1> USE DEF OutboxInv, Tick
<1>1. TypeOK' /\ EventsNumbered'
  BY DEF TypeOK, EventsNumbered
<1>2. \A c : Fits(c)' <=> Fits(c)
  BY DEF Fits, Evaluating, Complete, Numbers
<1>3. \A x : GapTrue(x)' <=> GapTrue(x)
  BY DEF GapTrue, Complete, Numbers, ClosedGap, EventOf, Predecessor, Meaningful
<1>4. \A s, n, X : Found(s, n, X)' <=> Found(s, n, X)
  BY DEF Found, Complete, Numbers, ClosedGap, EventOf, Predecessor, Meaningful
<1>5. CycleHolds' /\ GapsHold'
  BY <1>2, <1>3 DEF CycleHolds, GapsHold
<1>6. EvaluatedFound'
  BY <1>4 DEF EvaluatedFound, Meaningful
<1>7. KeysHold'
  BY DEF KeysHold
<1> QED BY <1>1, <1>5, <1>6, <1>7

\* An event of session s arrives, perhaps its last.
LEMMA StoredStep ==
  ASSUME OutboxInv, NEW s \in Sessions, NEW e \in Event, e.n \notin Numbers(s), Stored(s, e),
         active' \subseteq active, s \in active, e.n <= MaxSeq[s] + 1,
         s \in active' => e.n <= MaxSeq[s],
         UNCHANGED <<now, signals, cycle>>
  PROVE  OutboxInv'
<1> USE DEF OutboxInv
<1>0. /\ trace' = [trace EXCEPT ![s] = @ \union {e}]
      /\ outbox' \in [Sessions -> SUBSET (Nat \ {0})]
      /\ \A t \in Sessions : outbox[t] \subseteq outbox'[t]
      /\ e.kind # "other" => e.n \in outbox'[s]
      /\ \A t \in Sessions : \A f \in trace'[t] : f \in trace[t] \/ (t = s /\ f = e)
  BY DEF Stored, TypeOK, Event
<1>1. TypeOK'
  BY <1>0 DEF TypeOK
<1>2. EventsNumbered'
  <2> SUFFICES ASSUME NEW t \in Sessions
               PROVE  /\ \A f, g \in trace'[t] : f.n = g.n => f = g
                      /\ \A f \in trace'[t] :
                           f.n <= IF t \in active' THEN MaxSeq[t] ELSE MaxSeq[t] + 1
    BY DEF EventsNumbered
  <2>1. \A f, g \in trace'[t] : f.n = g.n => f = g
    BY <1>0 DEF EventsNumbered, Numbers
  <2>2. \A f \in trace[t] : f.n <= IF t \in active' THEN MaxSeq[t] ELSE MaxSeq[t] + 1
    <3>1. \A f \in trace[t] : /\ f.n \in Nat
                              /\ f.n <= IF t \in active THEN MaxSeq[t] ELSE MaxSeq[t] + 1
      BY DEF EventsNumbered, TypeOK, Event
    <3>2. MaxSeq[t] \in Nat
      BY OutboxAssumption
    <3> QED BY <3>1, <3>2
  <2> QED BY <1>0, <2>1, <2>2
<1>3. \A t \in Sessions : \A n :
         Complete(t, n) => Complete(t, n)' /\ ClosedGap(t, n)' = ClosedGap(t, n)
  BY <1>1, <1>2, StoredKeeps
<1>4. CycleHolds'
  <2> SUFFICES ASSUME NEW w \in Schedulers
               PROVE  Fits(cycle[w])'
    BY DEF CycleHolds
  <2>1. cycle[w].pc = "chunk" => Min(cycle[w].todo) \in Sessions
    BY MinTodo DEF CycleHolds, Fits, TypeOK, Cycle
  <2> QED BY <1>3, <2>1 DEF CycleHolds, Fits, Evaluating
<1>5. GapsHold'
  <2>1. \A x : x.session \in Sessions /\ GapTrue(x) => GapTrue(x)'
    BY <1>3 DEF GapTrue
  <2>2. \A w \in Schedulers : \A x \in cycle[w].made : x.session \in Sessions
    BY DEF TypeOK, Cycle, Signal
  <2> QED BY <2>1, <2>2 DEF GapsHold
<1>6. EvaluatedFound'
  <2>1. \A t \in Sessions : \A n, X : Found(t, n, X) => Found(t, n, X)'
    BY <1>3 DEF Found, Keys
  <2>2. \A w \in Schedulers : \A d \in cycle[w].done : d[1] \in Sessions
    BY DEF TypeOK, Cycle
  <2>3. \A t \in Sessions : \A f \in Meaningful(t)' :
          f.n \notin outbox'[t] => f \in Meaningful(t) /\ f.n \notin outbox[t]
    BY <1>0 DEF Meaningful
  <2> QED BY <2>1, <2>2, <2>3 DEF EvaluatedFound
<1>7. KeysHold'
  BY DEF KeysHold
<1> QED BY <1>1, <1>2, <1>4, <1>5, <1>6, <1>7

LEMMA IngestStep ==
  ASSUME OutboxInv, NEW s \in Sessions, NEW n \in 1 .. MaxSeq[s], NEW kind \in {"edit", "other"},
         Ingest(s, n, kind)
  PROVE  OutboxInv'
<1> DEFINE e == [n |-> n, kind |-> kind, at |-> now]
<1>1. MaxSeq[s] \in Nat
  BY OutboxAssumption
<1>2. e \in Event /\ e.n = n
  BY <1>1 DEF Event, OutboxInv, TypeOK
<1>3. /\ s \in active /\ n \notin Numbers(s) /\ Stored(s, e) /\ active' = active
      /\ UNCHANGED <<now, signals, cycle>>
  BY DEF Ingest
<1>4. n <= MaxSeq[s] /\ n <= MaxSeq[s] + 1
  BY <1>1
<1> HIDE DEF e
<1> QED BY <1>2, <1>3, <1>4, StoredStep

LEMMA EndSessionStep ==
  ASSUME OutboxInv, NEW s \in Sessions, NEW submitted \in BOOLEAN, EndSession(s, submitted)
  PROVE  OutboxInv'
<1> DEFINE n == 1 + Max({0} \union Numbers(s))
           e == [n |-> n, kind |-> IF submitted THEN "submission" ELSE "other", at |-> now]
<1>1. MaxSeq[s] \in Nat
  BY OutboxAssumption
<1>2. /\ s \in active /\ Stored(s, e) /\ active' = active \ {s}
      /\ UNCHANGED <<now, signals, cycle>>
  BY DEF EndSession
<1>3. n \in Nat \ {0} /\ n \notin Numbers(s) /\ n <= MaxSeq[s] + 1
  BY <1>1, <1>2, GreatestFacts DEF OutboxInv
<1> HIDE DEF n
<1>4. e \in Event /\ e.n = n
  BY <1>3 DEF Event, OutboxInv, TypeOK
<1> HIDE DEF e
<1>5. active' \subseteq active /\ s \notin active'
  BY <1>2
<1> QED BY <1>2, <1>3, <1>4, <1>5, StoredStep

-----------------------------------------------------------------------------
(* The steps of a scheduler over the outbox.                               *)

LEMMA WakeStep ==
  ASSUME OutboxInv, NEW w \in Schedulers, Wake(w)
  PROVE  OutboxInv'
<1> DEFINE S == {s \in Sessions : outbox[s] # {}}
           d == [IdleCycle EXCEPT !.pc = "claim", !.todo = S]
<1>1. S \in SUBSET Sessions
  OBVIOUS
<1>2. cycle' = [cycle EXCEPT ![w] = d] /\ UNCHANGED <<now, trace, active, outbox, signals>>
  BY DEF Wake
<1> HIDE DEF S
<1>3. d \in Cycle /\ d.pc = "claim" /\ d.done = {} /\ d.made = {}
  BY <1>1, CycleTypes DEF OutboxInv, TypeOK, IdleCycle
<1> HIDE DEF d
<1>4. Fits(d) /\ now' \in Nat
  BY <1>2, <1>3 DEF Fits, Evaluating, OutboxInv, TypeOK
<1> QED BY <1>2, <1>3, <1>4, CycleStep

LEMMA ClaimStep ==
  ASSUME OutboxInv, NEW w \in Schedulers, Claim(w)
  PROVE  OutboxInv'
<1> DEFINE S == First(cycle[w].todo \ Locked, BatchSessions)
           pc == IF S = {} THEN "tail" ELSE "prefix"
           d == [IdleCycle EXCEPT !.pc = pc, !.todo = S, !.held = S]
<1>1. S \in SUBSET Sessions
  BY DEF First, OutboxInv, TypeOK, Cycle
<1>2. cycle' = [cycle EXCEPT ![w] = d] /\ UNCHANGED <<now, trace, active, outbox, signals>>
  BY DEF Claim
<1> HIDE DEF S
<1>3. d \in Cycle
  BY <1>1, CycleTypes DEF OutboxInv, TypeOK
<1>4. d.pc \in {"tail", "prefix"} /\ (d.pc = "prefix" => d.todo # {}) /\ d.done = {} /\ d.made = {}
  BY DEF IdleCycle
<1> HIDE DEF d
<1>5. Fits(d) /\ now' \in Nat
  BY <1>2, <1>4 DEF Fits, Evaluating, OutboxInv, TypeOK
<1> QED BY <1>2, <1>3, <1>4, <1>5, CycleStep

LEMMA ReadPrefixStep ==
  ASSUME OutboxInv, NEW w \in Schedulers, ReadPrefix(w)
  PROVE  OutboxInv'
<1> DEFINE c == cycle[w]
           s == Min(c.todo)
           n == Highest(s)
           chunk == [c EXCEPT !.pc = "chunk", !.prefix = n]
           d == IF n < 1 THEN Advance(c) ELSE chunk
<1>1. /\ c.pc = "prefix"
      /\ cycle' = [cycle EXCEPT ![w] = d] /\ UNCHANGED <<now, trace, active, outbox, signals>>
  BY DEF ReadPrefix
<1>2. c \in Cycle /\ c.todo # {} /\ c.todo \subseteq Sessions
  BY <1>1 DEF OutboxInv, TypeOK, CycleHolds, Fits, Cycle
<1>3. s \in Sessions
  BY <1>2, MinTodo
<1>4. n \in Nat /\ (n >= 1 => Complete(s, n))
  BY <1>3, HighestFacts DEF OutboxInv
<1>5. Evaluating(c) /\ now' \in Nat
  BY <1>1 DEF Evaluating, OutboxInv, TypeOK
<1>6. CASE n < 1
  <2>1. d = Advance(c)
    BY <1>6
  <2> HIDE DEF d, c
  <2>2. /\ d \in Cycle /\ d.pc \in {"prefix", "commit"} /\ (d.pc = "prefix" => d.todo # {})
        /\ d.made = c.made /\ d.done = c.done
    BY <1>2, <2>1, AdvanceFacts
  <2>3. Fits(d)
    BY <2>2 DEF Fits, Evaluating
  <2> USE DEF c
  <2> QED BY <1>1, <1>5, <2>2, <2>3, CycleStep
<1>7. CASE ~(n < 1)
  <2>1. d = chunk /\ Complete(s, n)
    BY <1>4, <1>7
  <2>2. chunk \in Cycle
    BY <1>2, <1>4, CycleTypes
  <2>3. chunk.pc = "chunk" /\ chunk.todo = c.todo /\ chunk.prefix = n /\ chunk.made = c.made
        /\ chunk.done = c.done
    BY <1>2 DEF Cycle
  <2> HIDE DEF chunk, n
  <2>4. Fits(d)
    BY <1>2, <2>1, <2>3 DEF Fits, Evaluating
  <2> HIDE DEF d
  <2> QED BY <1>1, <1>5, <2>1, <2>2, <2>3, <2>4, CycleStep
<1> QED BY <1>6, <1>7

\* What a transaction inserts is new to it and to the others.
LEMMA EvaluateChunkStep ==
  ASSUME OutboxInv, NEW w \in Schedulers, EvaluateChunk(w)
  PROVE  OutboxInv'
<1> USE DEF OutboxInv
<1> DEFINE c == cycle[w]
           s == Min(c.todo)
           chunk == Pending(s, c.prefix)
           gaps == UNION {ClosedGap(s, n) : n \in chunk}
           taken == signals \union c.made
           new == Deduplicated(gaps, taken)
           made == c.made \union new
           done == c.done \union ({s} \X chunk)
           d == [Advance(c) EXCEPT !.made = made, !.done = done]
<1>1. /\ c.pc = "chunk" /\ MayInsert(w, gaps)
      /\ UNCHANGED <<now, trace, active, outbox, signals, faults>>
  BY DEF EvaluateChunk
<1>2. c \in Cycle /\ c.todo # {} /\ c.todo \subseteq Sessions /\ Complete(s, c.prefix)
      /\ c.made \subseteq Signal /\ c.done \in SUBSET (Sessions \X Nat) /\ c.prefix \in Nat
  BY <1>1 DEF TypeOK, CycleHolds, Fits, Cycle
<1>3. s \in Sessions
  BY <1>2, MinTodo
<1>10. cycle' = [cycle EXCEPT ![w] = d]
  <2> DEFINE m == Advance(c).made
  <2>1. cycle' = [cycle EXCEPT ![w] =
            [Advance(c) EXCEPT !.made = m \union Deduplicated(gaps, signals \union m),
                               !.done = Advance(c).done \union ({s} \X chunk)]]
    BY DEF EvaluateChunk
  <2>2. m = c.made /\ Advance(c).done = c.done
    BY <1>2, AdvanceFacts
  <2> HIDE DEF m, c, s, chunk, gaps
  <2> QED BY <2>1, <2>2
<1>4. \A n \in chunk : n \in Nat /\ Complete(s, n)
  <2>1. \A n \in chunk : n \in Nat \ {0} /\ n <= c.prefix
    BY <1>3 DEF Pending, First, TypeOK
  <2>2. \A n \in chunk : n \in 1 .. c.prefix /\ 1 .. n \subseteq 1 .. c.prefix
    BY <1>2, <2>1
  <2> QED BY <1>2, <2>1, <2>2 DEF Complete
<1>5. \A n \in chunk : /\ ClosedGap(s, n) \subseteq Signal
                       /\ \A x \in ClosedGap(s, n) : /\ x.rule = "IDLE" /\ x.session = s
                                                     /\ x.closing = n /\ GapTrue(x)
                       /\ \A x, y \in ClosedGap(s, n) : x = y
  BY <1>3, <1>4, GapFacts DEF Complete, GapTrue
<1>6. gaps \subseteq Signal /\ new \subseteq gaps
  BY <1>5 DEF Deduplicated
<1>7. \A x \in gaps : /\ x.rule = "IDLE" /\ x.session = s /\ GapTrue(x) /\ x.closing \in Nat \ {0}
                      /\ \A y \in gaps : y.closing = x.closing => x = y
  BY <1>3, <1>4, <1>5, EventFacts DEF Complete
<1> HIDE DEF chunk
<1>8. \A x \in gaps : Key(x) \notin Keys(taken) => Key(x) \in Keys(new)
  <2> SUFFICES ASSUME NEW x \in gaps, Key(x) \notin Keys(taken)
               PROVE  Key(x) \in Keys(new)
    OBVIOUS
  <2> DEFINE C == {y.closing : y \in {z \in gaps : Key(z) = Key(x)}}
  <2>1. C \in SUBSET Nat /\ C # {}
    BY <1>7
  <2>2. PICK m \in C : \A n \in C : m <= n
    BY <2>1, NatMin
  <2>3. PICK y \in gaps : Key(y) = Key(x) /\ y.closing = m
    OBVIOUS
  <2>4. \A z \in gaps : Key(z) = Key(y) => y.closing <= z.closing
    BY <2>2, <2>3
  <2>5. y \in new
    BY <2>3, <2>4 DEF Deduplicated
  <2> QED BY <2>3, <2>5 DEF Keys
<1>9. /\ \A x \in new : Key(x) \notin Keys(taken)
      /\ \A x, y \in new : Key(x) = Key(y) => x = y
  <2>1. \A x \in new : Key(x) \notin Keys(taken)
    BY DEF Deduplicated
  <2>2. \A x, y \in new : Key(x) = Key(y) => x.closing <= y.closing /\ y.closing <= x.closing
    BY DEF Deduplicated
  <2> HIDE DEF new, gaps
  <2>3. \A x, y \in new : Key(x) = Key(y) => x.closing = y.closing
    BY <2>2, <1>6, <1>7
  <2> QED BY <2>1, <2>3, <1>6, <1>7
<1> HIDE DEF new, gaps
<1>11. made \in SUBSET Signal /\ done \in SUBSET (Sessions \X Nat)
  BY <1>2, <1>3, <1>4, <1>6
<1> HIDE DEF made, done
<1>12. /\ d \in Cycle /\ Evaluating(d) /\ d.pc \in {"prefix", "commit"}
       /\ d.pc = "prefix" => d.todo # {}
       /\ d.made = made /\ d.done = done
  <2>1. Advance(c) \in Cycle /\ d \in Cycle
    BY <1>2, <1>11, AdvanceFacts
  <2>2. /\ d.pc = Advance(c).pc /\ d.todo = Advance(c).todo
        /\ d.made = made /\ d.done = done
    BY <2>1 DEF Cycle
  <2>3. Advance(c).pc \in {"prefix", "commit"} /\ (Advance(c).pc = "prefix" => Advance(c).todo # {})
    BY <1>2, AdvanceFacts
  <2> QED BY <2>1, <2>2, <2>3 DEF Evaluating
<1>13. Fits(d)
  BY <1>12 DEF Fits
<1> HIDE DEF d
<1>14. cycle'[w] = d /\ \A v \in Schedulers : v # w => cycle'[v] = cycle[v]
  BY <1>10 DEF TypeOK
<1>15. TypeOK' /\ EventsNumbered'
  BY <1>1, <1>10, <1>12 DEF TypeOK, EventsNumbered
<1>16. CycleHolds'
  <2>1. \A x : Fits(x)' <=> Fits(x)
    BY <1>1 DEF Fits, Evaluating, Complete, Numbers
  <2> QED BY <1>13, <1>14, <2>1 DEF CycleHolds
<1>17. Evaluating(c) /\ \A x : Evaluating(x)' <=> Evaluating(x)
  BY <1>1 DEF Evaluating
<1>18. GapsHold'
  <2>1. \A x : GapTrue(x)' <=> GapTrue(x)
    BY <1>1 DEF GapTrue, Complete, Numbers, ClosedGap, EventOf, Predecessor, Meaningful
  <2>2. \A x \in made : x.rule = "IDLE" /\ x.closing # 0 /\ GapTrue(x)
    BY <1>6, <1>7, <1>17 DEF made, GapsHold
  <2> QED BY <1>1, <1>12, <1>14, <2>1, <2>2 DEF GapsHold, Evaluating
<1>19. EvaluatedFound'
  <2>1. \A t, n, X : Found(t, n, X)' <=> Found(t, n, X)
    BY <1>1 DEF Found, Complete, Numbers, ClosedGap, EventOf, Predecessor, Meaningful
  <2>2. \A n \in chunk : Found(s, n, signals \union made)
    <3>1. taken \union new = signals \union made
      BY DEF made
    <3>2. \A n \in chunk : \A x \in ClosedGap(s, n) : x \in gaps
      BY DEF gaps
    <3>3. \A x \in gaps : Key(x) \in Keys(signals \union made)
      BY <1>8, <3>1 DEF Keys
    <3> QED BY <1>4, <3>2, <3>3 DEF Found
  <2>3. \A t, n : Found(t, n, signals \union c.made) => Found(t, n, signals \union made)
    <3>1. signals \union c.made \subseteq signals \union made
      BY DEF made
    <3> QED BY <3>1, FoundMonotone
  <2>4. \A x \in done : Found(x[1], x[2], signals \union made)
    BY <2>2, <2>3 DEF EvaluatedFound, done
  <2> QED BY <1>1, <1>12, <1>14, <2>1, <2>4 DEF EvaluatedFound, Meaningful
<1>20. KeysHold'
  <2>1. UniqueKeys(signals) /\ UniqueKeys(signals \union c.made)
    BY <1>17 DEF KeysHold
  <2>2. UniqueKeys(signals \union made)
    BY <1>9, <2>1 DEF UniqueKeys, made, Keys
  <2>3. \A v \in Schedulers : v # w /\ Evaluating(cycle[v]) =>
           Keys(cycle[v].made) \intersect Keys(made) = {}
    <3>1. \A v \in Schedulers : v # w /\ Evaluating(cycle[v]) =>
             /\ Keys(cycle[v].made) \intersect Keys(gaps) = {}
             /\ Keys(cycle[v].made) \intersect Keys(c.made) = {}
      BY <1>1, <1>17 DEF MayInsert, KeysHold, Evaluating
    <3>2. Keys(made) \subseteq Keys(c.made) \union Keys(gaps)
      BY <1>6 DEF made, Keys
    <3> QED BY <3>1, <3>2
  <2> QED BY <1>1, <1>12, <1>14, <1>17, <2>1, <2>2, <2>3 DEF KeysHold, UniqueKeys,
             Evaluating, Keys
<1> QED BY <1>15, <1>16, <1>18, <1>19, <1>20

LEMMA CommitStep ==
  ASSUME OutboxInv, NEW w \in Schedulers, Commit(w)
  PROVE  OutboxInv'
<1> USE DEF OutboxInv
<1> DEFINE c == cycle[w]
           d == [IdleCycle EXCEPT !.pc = "tail"]
<1>1. /\ c.pc = "commit" /\ Evaluating(c)
      /\ signals' = signals \union c.made
      /\ outbox' = [s \in Sessions |-> {n \in outbox[s] : <<s, n>> \notin c.done}]
      /\ cycle' = [cycle EXCEPT ![w] = d]
      /\ UNCHANGED <<now, trace, active>>
  BY DEF Commit, Evaluating
<1>2. c \in Cycle
  BY DEF TypeOK
<1>3. d \in Cycle /\ d.pc = "tail" /\ d.made = {} /\ d.done = {}
  BY <1>2, CycleTypes DEF IdleCycle
<1> HIDE DEF d
<1>4. cycle'[w] = d /\ \A v \in Schedulers : v # w => cycle'[v] = cycle[v]
  BY <1>1 DEF TypeOK
<1>5. ~Evaluating(d) /\ \A x : Evaluating(x)' <=> Evaluating(x)
  BY <1>3 DEF Evaluating
<1>6. \A x : Fits(x)' <=> Fits(x)
  BY <1>1 DEF Fits, Evaluating, Complete, Numbers
<1>7. \A x : GapTrue(x)' <=> GapTrue(x)
  BY <1>1 DEF GapTrue, Complete, Numbers, ClosedGap, EventOf, Predecessor, Meaningful
<1>8. \A t, n, X : Found(t, n, X)' <=> Found(t, n, X)
  BY <1>1 DEF Found, Complete, Numbers, ClosedGap, EventOf, Predecessor, Meaningful
<1>9. TypeOK'
  <2>1. outbox' \in [Sessions -> SUBSET (Nat \ {0})]
    BY <1>1 DEF TypeOK
  <2> QED BY <1>1, <1>3, <2>1 DEF TypeOK
<1>10. EventsNumbered'
  BY <1>1 DEF EventsNumbered
<1>11. CycleHolds'
  BY <1>3, <1>4, <1>5, <1>6 DEF CycleHolds, Fits
<1>12. GapsHold'
  <2>1. \A x \in c.made : x.session \in Sessions
    BY <1>2 DEF Cycle, Signal
  <2> QED BY <1>1, <1>4, <1>5, <1>7, <2>1 DEF GapsHold
<1>13. EvaluatedFound'
  <2>1. \A s \in Sessions : \A e \in Meaningful(s) :
           e.n \notin outbox'[s] => Found(s, e.n, signals')
    <3> SUFFICES ASSUME NEW s \in Sessions, NEW e \in Meaningful(s), e.n \notin outbox'[s]
                 PROVE  Found(s, e.n, signals')
      OBVIOUS
    <3>1. CASE e.n \notin outbox[s]
      BY <1>1, <3>1, FoundMonotone DEF EvaluatedFound
    <3>2. CASE <<s, e.n>> \in c.done
      <4> DEFINE x == <<s, e.n>>
      <4>1. x[1] = s /\ x[2] = e.n /\ x \in c.done
        BY <3>2
      <4> HIDE DEF x
      <4> QED BY <1>1, <4>1 DEF EvaluatedFound
    <3> QED BY <1>1, <3>1, <3>2
  <2>2. \A v \in Schedulers : v # w => \A x \in cycle[v].done :
          Found(x[1], x[2], signals' \union cycle[v].made)
    <3> SUFFICES ASSUME NEW v \in Schedulers, NEW x \in cycle[v].done
                 PROVE  Found(x[1], x[2], signals' \union cycle[v].made)
      OBVIOUS
    <3>1. signals \union cycle[v].made \subseteq signals' \union cycle[v].made
      BY <1>1
    <3> QED BY <3>1, FoundMonotone DEF EvaluatedFound
  <2> QED BY <1>1, <1>3, <1>4, <1>8, <2>1, <2>2 DEF EvaluatedFound, Meaningful
<1>14. KeysHold'
  <2>1. UniqueKeys(signals')
    BY <1>1 DEF KeysHold
  <2>2. \A v \in Schedulers :
          v # w /\ Evaluating(cycle[v]) => UniqueKeys(signals' \union cycle[v].made)
    <3> SUFFICES ASSUME NEW v \in Schedulers, v # w, Evaluating(cycle[v])
                 PROVE  UniqueKeys(signals' \union cycle[v].made)
      OBVIOUS
    <3>1. UniqueKeys(signals') /\ UniqueKeys(signals \union cycle[v].made)
      BY <2>1 DEF KeysHold
    <3>2. Keys(c.made) \intersect Keys(cycle[v].made) = {}
      BY <1>1 DEF KeysHold
    <3> QED BY <1>1, <3>1, <3>2 DEF UniqueKeys, Keys
  <2> QED BY <1>4, <1>5, <2>1, <2>2 DEF KeysHold, UniqueKeys, Keys
<1> QED BY <1>9, <1>10, <1>11, <1>12, <1>13, <1>14

\* A signal that is no closed gap is committed by itself, with a new key.
LEMMA InsertStep ==
  ASSUME OutboxInv, NEW X, signals' = signals \union X,
         \A x \in X : x.rule = "IDLE" => x.closing = 0,
         \A x, y \in X : x = y,
         Keys(X) \intersect Keys(signals) = {},
         cycle' \in [Schedulers -> Cycle],
         \A v \in Schedulers :
             \/ /\ cycle'[v] = cycle[v]
                /\ Evaluating(cycle[v]) => Keys(cycle[v].made) \intersect Keys(X) = {}
             \/ ~Evaluating(cycle'[v]) /\ Fits(cycle'[v]),
         UNCHANGED <<now, trace, active, outbox>>
  PROVE  OutboxInv'
<1> USE DEF OutboxInv
<1>5. \A x : Evaluating(x)' <=> Evaluating(x)
  BY DEF Evaluating
<1>6. \A x : Fits(x)' <=> Fits(x)
  BY DEF Fits, Evaluating, Complete, Numbers
<1>7. \A x : GapTrue(x)' <=> GapTrue(x)
  BY DEF GapTrue, Complete, Numbers, ClosedGap, EventOf, Predecessor, Meaningful
<1>8. \A t, n, Y : Found(t, n, Y)' <=> Found(t, n, Y)
  BY DEF Found, Complete, Numbers, ClosedGap, EventOf, Predecessor, Meaningful
<1>9. TypeOK'
  BY DEF TypeOK
<1>10. EventsNumbered'
  BY DEF EventsNumbered
<1>11. CycleHolds'
  BY <1>6 DEF CycleHolds
<1>12. GapsHold'
  BY <1>5, <1>7 DEF GapsHold
<1>13. EvaluatedFound'
  <2>1. \A t, n : Found(t, n, signals) => Found(t, n, signals')
    BY FoundMonotone
  <2>2. \A v \in Schedulers : \A t, n :
           Found(t, n, signals \union cycle[v].made) => Found(t, n, signals' \union cycle[v].made)
    <3>1. \A v : signals \union cycle[v].made \subseteq signals' \union cycle[v].made
      OBVIOUS
    <3> QED BY <3>1, FoundMonotone
  <2>3. \A v \in Schedulers : cycle'[v] = cycle[v] \/ cycle'[v].done = {}
    BY DEF Fits
  <2> QED BY <1>8, <2>1, <2>2, <2>3 DEF EvaluatedFound, Meaningful
<1>14. KeysHold'
  <2>1. UniqueKeys(signals')
    BY DEF KeysHold, UniqueKeys, Keys
  <2>2. \A v \in Schedulers :
          Evaluating(cycle[v]) /\ cycle'[v] = cycle[v] => UniqueKeys(signals' \union cycle[v].made)
    BY DEF KeysHold, UniqueKeys, Keys
  <2> QED BY <1>5, <2>1, <2>2 DEF KeysHold, UniqueKeys, Keys
<1> QED BY <1>9, <1>10, <1>11, <1>12, <1>13, <1>14

LEMMA AbortStep ==
  ASSUME OutboxInv, NEW w \in Schedulers, Abort(w)
  PROVE  OutboxInv'
<1>1. cycle' = [cycle EXCEPT ![w] = IdleCycle] /\ UNCHANGED <<now, trace, active, outbox, signals>>
  BY DEF Abort
<1>2. IdleCycle \in Cycle
  BY CycleTypes DEF OutboxInv, TypeOK
<1>3. Fits(IdleCycle) /\ ~Evaluating(IdleCycle) /\ now' \in Nat
  BY <1>1 DEF Fits, Evaluating, IdleCycle, OutboxInv, TypeOK
<1> QED BY <1>1, <1>2, <1>3, CycleStep

LEMMA SleepStep ==
  ASSUME OutboxInv, NEW w \in Schedulers, Sleep(w)
  PROVE  OutboxInv'
<1>1. cycle' = [cycle EXCEPT ![w] = IdleCycle] /\ UNCHANGED <<now, trace, active, outbox, signals>>
  BY DEF Sleep
<1>2. IdleCycle \in Cycle
  BY CycleTypes DEF OutboxInv, TypeOK
<1>3. Fits(IdleCycle) /\ ~Evaluating(IdleCycle) /\ now' \in Nat
  BY <1>1 DEF Fits, Evaluating, IdleCycle, OutboxInv, TypeOK
<1> QED BY <1>1, <1>2, <1>3, CycleStep

-----------------------------------------------------------------------------
(* The steps of a scheduler over the active sessions.                      *)

\* Out of the transaction, a scheduler has at most one signal, which is no closed gap.
LEMMA LookingFacts ==
  ASSUME OutboxInv, NEW w \in Schedulers, ~Evaluating(cycle[w])
  PROVE  LET c == cycle[w]
         IN  /\ c \in Cycle /\ c.done = {}
             /\ c.pc \in {"insert", "first"} => c.todo # {}
             /\ ToFirst(c) \in Cycle /\ ~Evaluating(ToFirst(c))
             /\ c.todo # {} => Fits(ToFirst(c))
             /\ NextSession(c) \in Cycle /\ Fits(NextSession(c)) /\ ~Evaluating(NextSession(c))
             /\ c.made \in SUBSET Signal
             /\ \A x, y \in c.made : x = y
             /\ \A x \in c.made : x.rule = "IDLE" => x.closing = 0
<1> DEFINE c == cycle[w]
<1>1. /\ c \in Cycle /\ c.done = {} /\ \A x, y \in c.made : x = y
      /\ \A x \in c.made : x.rule = "IDLE" => x.closing = 0
  BY DEF OutboxInv, TypeOK, CycleHolds, Fits
<1> HIDE DEF c
<1>2. /\ ToFirst(c) \in Cycle /\ ToFirst(c).pc = "first" /\ ToFirst(c).made = {}
      /\ ToFirst(c).done = {} /\ c.made \in SUBSET Signal
  <2>1. ToFirst(c) \in Cycle
    BY <1>1, CycleTypes
  <2> QED BY <1>1, <2>1 DEF ToFirst, Cycle
<1>5. ToFirst(c).todo = c.todo
  BY <1>1 DEF ToFirst, Cycle
<1>3. /\ NextSession(c) \in Cycle /\ NextSession(c).pc = "look" /\ NextSession(c).made = {}
      /\ NextSession(c).done = {}
  <2>1. c.todo \ {Min(c.todo)} \in SUBSET Sessions
    BY <1>1 DEF Cycle
  <2> DEFINE S == c.todo \ {Min(c.todo)}
  <2>2. NextSession(c) = [[c EXCEPT !.pc = "look", !.todo = S] EXCEPT !.made = {}]
    BY <1>1 DEF NextSession, Cycle
  <2> HIDE DEF S
  <2>3. [c EXCEPT !.pc = "look", !.todo = S] \in Cycle
    BY <1>1, <2>1, CycleTypes DEF S
  <2> QED BY <1>1, <2>2, <2>3 DEF Cycle
<1>4. /\ c.todo # {} => Fits(ToFirst(c))
      /\ ~Evaluating(ToFirst(c)) /\ Fits(NextSession(c)) /\ ~Evaluating(NextSession(c))
  BY <1>2, <1>3, <1>5 DEF Fits, Evaluating
<1>6. c.pc \in {"insert", "first"} => c.todo # {}
  BY DEF c, OutboxInv, CycleHolds, Fits
<1> QED BY <1>1, <1>2, <1>3, <1>4, <1>6 DEF c

LEMMA ListTailsStep ==
  ASSUME OutboxInv, NEW w \in Schedulers, ListTails(w)
  PROVE  OutboxInv'
<1> DEFINE c == cycle[w]
           d == [c EXCEPT !.pc = "look", !.todo = active]
<1>1. cycle' = [cycle EXCEPT ![w] = d] /\ UNCHANGED <<now, trace, active, outbox, signals>>
  BY DEF ListTails, OutboxInv, TypeOK
<1>2. c \in Cycle /\ active \in SUBSET Sessions /\ ~Evaluating(c)
  BY DEF ListTails, Evaluating, OutboxInv, TypeOK
<1>3. d \in Cycle
  BY <1>2, CycleTypes
<1>4. d.pc = "look" /\ d.made = c.made /\ d.done = c.done
  BY <1>2 DEF Cycle
<1> HIDE DEF d
<1>5. Fits(d) /\ ~Evaluating(d) /\ now' \in Nat
  BY <1>1, <1>2, <1>4 DEF Fits, Evaluating, OutboxInv, TypeOK, CycleHolds
<1> QED BY <1>1, <1>3, <1>5, CycleStep

\* What a rule has found goes to the insert.
LEMMA EvaluatedStep ==
  ASSUME OutboxInv, NEW w \in Schedulers, ~Evaluating(cycle[w]), cycle[w].todo # {},
         NEW X \in SUBSET Signal,
         NEW insert \in {"insert", "insertFirst"},
         NEW other \in Cycle, Fits(other), ~Evaluating(other),
         cycle' = [cycle EXCEPT ![w] = Evaluated(cycle[w], X, insert, other)],
         \A x, y \in X : x = y, \A x \in X : x.rule = "IDLE" => x.closing = 0,
         UNCHANGED <<now, trace, active, outbox, signals>>
  PROVE  OutboxInv'
<1> DEFINE c == cycle[w]
           d == [c EXCEPT !.pc = insert, !.made = X]
<1>1. c \in Cycle /\ c.done = {} /\ now' \in Nat
  BY DEF OutboxInv, TypeOK, CycleHolds, Fits
<1>2. CASE X = {}
  <2>1. cycle' = [cycle EXCEPT ![w] = other]
    BY <1>2 DEF Evaluated
  <2> QED BY <1>1, <2>1, CycleStep
<1>3. CASE X # {}
  <2>1. cycle' = [cycle EXCEPT ![w] = d]
    BY <1>3 DEF Evaluated
  <2> HIDE DEF c
  <2>2. d \in Cycle
    BY <1>1, CycleTypes
  <2>3. d.pc = insert /\ d.made = X /\ d.done = {} /\ d.todo # {}
    BY <1>1 DEF Cycle, c
  <2> HIDE DEF d
  <2>4. Fits(d) /\ ~Evaluating(d)
    BY <2>3 DEF Fits, Evaluating
  <2> QED BY <1>1, <2>1, <2>2, <2>4, CycleStep
<1> QED BY <1>2, <1>3

LEMMA LookAtTailStep ==
  ASSUME OutboxInv, NEW w \in Schedulers, LookAtTail(w)
  PROVE  OutboxInv'
<1> DEFINE c == cycle[w]
           s == Min(c.todo)
           opened == [n |-> 0, kind |-> "other", at |-> 0]
<1>1. PICK e \in IF Latest(s) = {} THEN {opened} ELSE Latest(s) :
         cycle' = [cycle EXCEPT ![w] = Evaluated(c, OpenTail(s, e), "insert", ToFirst(c))]
  BY DEF LookAtTail
<1>2. c.pc = "look" /\ c.todo # {} /\ UNCHANGED <<now, trace, active, outbox, signals>>
  BY DEF LookAtTail
<1>3. ~Evaluating(c) /\ ToFirst(c) \in Cycle /\ Fits(ToFirst(c)) /\ ~Evaluating(ToFirst(c))
  BY <1>2, LookingFacts DEF Evaluating
<1>4. s \in Sessions
  BY <1>2, MinTodo DEF OutboxInv, TypeOK, Cycle
<1>5. e.n \in Nat /\ e.at \in Nat /\ now \in Nat
  BY <1>4 DEF OutboxInv, TypeOK, Event, Latest, Meaningful
<1> HIDE DEF s
<1>6. OpenTail(s, e) \in SUBSET Signal /\ \A x \in OpenTail(s, e) : x.closing = 0
  <2> DEFINE of == (now - e.at) \div Threshold
             tail == [rule |-> "IDLE", session |-> s, of |-> of,
                      from |-> e.at, to |-> now, before |-> e.n, closing |-> 0]
  <2>1. \A x \in OpenTail(s, e) : x = tail /\ of >= 1
    BY DEF OpenTail
  <2>2. of \in Int
    BY <1>5, OutboxAssumption
  <2> HIDE DEF of
  <2>3. of >= 1 => tail \in Signal
    BY <1>4, <1>5, <2>2 DEF Signal
  <2> QED BY <2>1, <2>3
<1>7. \A x, y \in OpenTail(s, e) : x = y
  BY DEF OpenTail
<1> QED BY <1>1, <1>2, <1>3, <1>6, <1>7, EvaluatedStep

LEMMA NoTailStep ==
  ASSUME OutboxInv, NEW w \in Schedulers, NoTail(w)
  PROVE  OutboxInv'
<1>1. /\ cycle[w].pc = "look" /\ cycle[w].todo # {}
      /\ cycle' = [cycle EXCEPT ![w] = ToFirst(cycle[w])]
      /\ UNCHANGED <<now, trace, active, outbox, signals>>
  BY DEF NoTail, OutboxInv, TypeOK
<1>2. /\ ToFirst(cycle[w]) \in Cycle /\ Fits(ToFirst(cycle[w])) /\ ~Evaluating(ToFirst(cycle[w]))
      /\ now' \in Nat
  BY <1>1, LookingFacts DEF Evaluating, OutboxInv, TypeOK
<1> QED BY <1>1, <1>2, CycleStep

LEMMA LookAtFirstStep ==
  ASSUME OutboxInv, NEW w \in Schedulers, LookAtFirst(w)
  PROVE  OutboxInv'
<1> DEFINE c == cycle[w]
           s == Min(c.todo)
<1>1. /\ c.pc = "first"
      /\ cycle' = [cycle EXCEPT ![w] = Evaluated(c, FastFirst(s), "insertFirst", NextSession(c))]
      /\ UNCHANGED <<now, trace, active, outbox, signals>>
  BY DEF LookAtFirst
<1>2. /\ ~Evaluating(c) /\ NextSession(c) \in Cycle /\ Fits(NextSession(c))
      /\ ~Evaluating(NextSession(c)) /\ c.todo # {}
  BY <1>1, LookingFacts DEF Evaluating
<1>3. s \in Sessions
  BY <1>2, MinTodo DEF OutboxInv, TypeOK, Cycle
<1> HIDE DEF s
<1>4. FastFirst(s) \in SUBSET Signal /\ \A x \in FastFirst(s) : x.rule = "FAST"
  <2>1. \A e \in FirstEdit(s) : e.n \in Nat \ {0} /\ e.at \in Nat
    BY <1>3 DEF FirstEdit, Edits, OutboxInv, TypeOK, Event
  <2> QED BY <1>3, <2>1 DEF FastFirst, Signal
<1>5. \A x, y \in FastFirst(s) : x = y
  <2>1. \A e, f \in FirstEdit(s) : e.n <= f.n /\ f.n <= e.n /\ e.n \in Nat /\ f.n \in Nat
                                   /\ e \in trace[s] /\ f \in trace[s]
    BY <1>3 DEF FirstEdit, Edits, OutboxInv, TypeOK, Event
  <2>2. \A e, f \in FirstEdit(s) : e = f
    BY <1>3, <2>1 DEF OutboxInv, EventsNumbered
  <2> QED BY <2>2 DEF FastFirst
<1> QED BY <1>1, <1>2, <1>4, <1>5, EvaluatedStep

LEMMA InsertSeenStep ==
  ASSUME OutboxInv, NEW w \in Schedulers, InsertSeen(w)
  PROVE  OutboxInv'
<1> DEFINE c == cycle[w]
           d == IF c.pc = "insert" THEN ToFirst(c) ELSE NextSession(c)
           X == Deduplicated(c.made, signals)
<1>1. /\ c.pc \in {"insert", "insertFirst"} /\ MayInsert(w, c.made)
      /\ signals' = signals \union X /\ cycle' = [cycle EXCEPT ![w] = d]
      /\ UNCHANGED <<now, trace, active, outbox>>
  BY DEF InsertSeen
<1>2. ~Evaluating(c)
  BY <1>1 DEF Evaluating
<1>3. d \in Cycle /\ ~Evaluating(d) /\ Fits(d) /\ now' \in Nat
  BY <1>1, <1>2, LookingFacts DEF OutboxInv, TypeOK
<1>4. X \subseteq c.made /\ Keys(X) \subseteq Keys(c.made) /\ Keys(X) \intersect Keys(signals) = {}
  BY DEF Deduplicated, Keys
<1> HIDE DEF X
<1>5. (\A x, y \in X : x = y) /\ (\A x \in X : x.rule = "IDLE" => x.closing = 0)
  BY <1>2, <1>4, LookingFacts
<1>6. \A v \in Schedulers : v # w /\ Evaluating(cycle[v]) =>
        Keys(cycle[v].made) \intersect Keys(X) = {}
  BY <1>1, <1>4 DEF MayInsert, Evaluating
<1> HIDE DEF d
<1>7. cycle' \in [Schedulers -> Cycle] /\ cycle'[w] = d
      /\ \A v \in Schedulers : v # w => cycle'[v] = cycle[v]
  BY <1>1, <1>3 DEF OutboxInv, TypeOK
<1> QED BY <1>1, <1>3, <1>4, <1>5, <1>6, <1>7, InsertStep

LEMMA PassOverStep ==
  ASSUME OutboxInv, NEW w \in Schedulers, PassOver(w)
  PROVE  OutboxInv'
<1> DEFINE c == cycle[w]
           d == IF c.pc \in {"look", "insert"} THEN ToFirst(c) ELSE NextSession(c)
<1>1. /\ c.pc \in {"look", "insert", "first", "insertFirst"} /\ c.todo # {}
      /\ cycle' = [cycle EXCEPT ![w] = d] /\ UNCHANGED <<now, trace, active, outbox, signals>>
  BY DEF PassOver
<1>2. d \in Cycle /\ ~Evaluating(d) /\ Fits(d) /\ now' \in Nat
  BY <1>1, LookingFacts DEF Evaluating, OutboxInv, TypeOK
<1> HIDE DEF d
<1> QED BY <1>1, <1>2, CycleStep

LEMMA OutboxUnchanged ==
  ASSUME OutboxInv, UNCHANGED <<now, trace, active, outbox, signals, cycle>>
  PROVE  OutboxInv'
<1> USE DEF OutboxInv
<1>1. TypeOK' /\ EventsNumbered'
  BY DEF TypeOK, EventsNumbered
<1>2. CycleHolds'
  BY DEF CycleHolds, Fits, Evaluating, Complete, Numbers
<1>3. \A x : GapTrue(x)' <=> GapTrue(x)
  BY DEF GapTrue, Complete, Numbers, ClosedGap, EventOf, Predecessor, Meaningful
<1>4. \A t, n, X : Found(t, n, X)' <=> Found(t, n, X)
  BY DEF Found, Complete, Numbers, ClosedGap, EventOf, Predecessor, Meaningful
<1>5. GapsHold'
  BY <1>3 DEF GapsHold, Evaluating
<1>6. EvaluatedFound'
  BY <1>4 DEF EvaluatedFound, Meaningful
<1>7. KeysHold'
  BY DEF KeysHold, UniqueKeys, Keys, Evaluating
<1> QED BY <1>1, <1>2, <1>5, <1>6, <1>7

\* Every step of the cycle over the outbox and the active sessions.
LEMMA OutboxStep ==
  ASSUME OutboxInv, Next
  PROVE  OutboxInv'
<1>1. CASE Tick
  BY <1>1, TickStep
<1>2. CASE Students
  BY <1>2, IngestStep, EndSessionStep DEF Students
<1>3. ASSUME NEW w \in Schedulers, Work(w)
      PROVE  OutboxInv'
  BY <1>3, WakeStep, ClaimStep, ReadPrefixStep, EvaluateChunkStep, CommitStep,
     ListTailsStep,
     LookAtTailStep, NoTailStep, LookAtFirstStep, InsertSeenStep DEF Work
<1>4. ASSUME NEW w \in Schedulers, Sleep(w) \/ PassOver(w) \/ Abort(w)
      PROVE  OutboxInv'
  BY <1>4, SleepStep, PassOverStep, AbortStep
<1> QED BY <1>1, <1>2, <1>3, <1>4 DEF Next, RunScheduler

-----------------------------------------------------------------------------
(* The steps of the passes.                                                *)

\* A scheduler goes on in its passes with at most one signal of the other rules.
LEMMA GoesStep ==
  ASSUME PassHolds, NEW w \in Schedulers, NEW p, IsPass(p), Goes(w, p)
  PROVE  PassHolds'
<1>1. pass' = [pass EXCEPT ![w] = p]
  BY DEF Goes
<1>2. DOMAIN pass' = Schedulers /\ \A v \in Schedulers : pass'[v] \in {pass[v], p}
  BY <1>1 DEF PassHolds
<1> QED BY <1>2 DEF PassHolds, IsPass, OneRuled

LEMMA NoPassFacts == \A pc, S : /\ IsPass([NoPass EXCEPT !.pc = pc, !.todo = S])
                                /\ IsPass([NoPass EXCEPT !.pc = pc])
                                /\ IsPass(NoPass)
<1>1. IsPass(NoPass)
  BY DEF IsPass, NoPass, OneRuled
<1> QED BY <1>1 DEF IsPass

\* A rule finds one signal at most.
LEMMA RuledFacts ==
  ASSUME NEW s, NEW m
  PROVE  OneRuled(RepeatedFailure(s)) /\ OneRuled(Anomaly(s, m)) /\ OneRuled({})
BY DEF RepeatedFailure, Anomaly, OneRuled

LEMMA ReadStep ==
  ASSUME PassHolds, NEW w \in Schedulers,
         ListRuns(w) \/ ReadRuns(w) \/ ListSnapshots(w) \/ ReadCohort(w) \/ ReadOwn(w)
           \/ EndPass(w) \/ PassOverRuled(w) \/ Dies(w)
  PROVE  PassHolds'
<1> DEFINE p == pass[w]
           s == Min(p.todo)
<1>0. IsPass(p)
  BY DEF PassHolds
<1>1. CASE ListRuns(w)
  BY <1>1, NoPassFacts, GoesStep DEF ListRuns
<1>2. CASE ReadRuns(w)
  <2> DEFINE X == RepeatedFailure(s)
             d == IF X = {} THEN [p EXCEPT !.todo = @ \ {s}]
                  ELSE [p EXCEPT !.pc = "insertFailure", !.made = X]
  <2>1. Goes(w, d)
    BY <1>2 DEF ReadRuns
  <2>2. OneRuled(X)
    BY RuledFacts
  <2> HIDE DEF X, s, p
  <2>3. IsPass(d)
    BY <1>0, <2>2 DEF IsPass
  <2> QED BY <2>1, <2>3, GoesStep
<1>3. CASE ListSnapshots(w)
  BY <1>3, NoPassFacts, GoesStep DEF ListSnapshots
<1>4. CASE ReadCohort(w)
  <2> DEFINE few == Len(Cohort(s)) < MinCohort
             m == TwiceMedian(Cohort(s))
             d == IF few THEN [p EXCEPT !.todo = @ \ {s}]
                  ELSE [p EXCEPT !.pc = "own", !.median = m]
  <2>1. Goes(w, d)
    BY <1>4 DEF ReadCohort
  <2> HIDE DEF few, m, s, p
  <2>2. IsPass(d)
    BY <1>0 DEF IsPass
  <2> QED BY <2>1, <2>2, GoesStep
<1>5. CASE ReadOwn(w)
  <2> DEFINE X == Anomaly(s, p.median)
             d == IF X = {} THEN [p EXCEPT !.pc = "cohort", !.todo = @ \ {s}, !.median = 0]
                  ELSE [p EXCEPT !.pc = "insertLines", !.made = X, !.median = 0]
  <2>1. Goes(w, d)
    BY <1>5 DEF ReadOwn
  <2>2. OneRuled(X)
    BY RuledFacts
  <2> HIDE DEF X, s, p
  <2>3. IsPass(d)
    BY <1>0, <2>2 DEF IsPass
  <2> QED BY <2>1, <2>3, GoesStep
<1>6. CASE EndPass(w) \/ Dies(w)
  BY <1>6, NoPassFacts, GoesStep DEF EndPass, Dies
<1>7. CASE PassOverRuled(w)
  <2> DEFINE d == [p EXCEPT !.pc = IF @ \in {"failures", "insertFailure"} THEN "failures"
                                                                         ELSE "cohort",
                            !.todo = @ \ {Min(@)}, !.median = 0, !.made = {}]
  <2>1. Goes(w, d)
    BY <1>7 DEF PassOverRuled
  <2> HIDE DEF p
  <2>2. IsPass(d)
    BY <1>0, RuledFacts DEF IsPass
  <2> QED BY <2>1, <2>2, GoesStep
<1> QED BY <1>1, <1>2, <1>3, <1>4, <1>5, <1>6, <1>7

LEMMA InsertRuledStep ==
  ASSUME IInv, NEW w \in Schedulers, InsertRuled(w)
  PROVE  IInv'
<1> USE DEF IInv
<1> DEFINE p == pass[w]
           X == {x \in p.made : Key(x) \notin Keys(signals)}
<1>0. IsPass(p)
  BY DEF PassHolds
<1>1. /\ signals' = signals \union X
      /\ UNCHANGED <<now, trace, active, outbox, cycle>>
  BY DEF InsertRuled
<1>2. PassHolds'
  <2> DEFINE d == [p EXCEPT !.pc = IF @ = "insertLines" THEN "cohort" ELSE "failures",
                            !.todo = @ \ {Min(@)}, !.made = {}]
  <2>1. Goes(w, d)
    BY DEF InsertRuled
  <2> HIDE DEF p
  <2>2. IsPass(d)
    BY <1>0, RuledFacts DEF IsPass
  <2> QED BY <2>1, <2>2, GoesStep
<1>3. (\A x \in X : x.rule # "IDLE") /\ (\A x, y \in X : x = y)
  BY <1>0 DEF IsPass, OneRuled
<1>4. Keys(X) \intersect Keys(signals) = {}
  BY DEF Keys
<1> HIDE DEF X
<1>5. \A v \in Schedulers : Evaluating(cycle[v]) => Keys(cycle[v].made) \intersect Keys(X) = {}
  <2> SUFFICES ASSUME NEW v \in Schedulers, Evaluating(cycle[v]),
                      NEW x \in cycle[v].made, NEW y \in X, Key(x) = Key(y)
               PROVE  FALSE
    BY DEF Keys
  <2>1. Key(x)[1] = x.rule /\ Key(y)[1] = y.rule
    BY DEF Key
  <2>2. x.rule = "IDLE" /\ y.rule # "IDLE"
    BY <1>3 DEF OutboxInv, GapsHold
  <2> QED BY <2>1, <2>2
<1>6. cycle' \in [Schedulers -> Cycle]
  BY <1>1 DEF OutboxInv, TypeOK
<1>7. OutboxInv'
  BY <1>1, <1>3, <1>4, <1>5, <1>6, InsertStep
<1> QED BY <1>2, <1>7

-----------------------------------------------------------------------------
(* The invariant.                                                          *)

LEMMA InitIInv ==
  ASSUME RulesInit
  PROVE  IInv
<1>1. PICK x \in Scenes : /\ Start(x.sessions)
                          /\ pass = [w \in Schedulers |-> NoPass]
  BY DEF RulesInit
<1>2. active = x.sessions
  BY <1>1 DEF Start
<1>3. OutboxInv
  BY <1>1, <1>2, InitOutbox, RulesAssumption
<1>4. PassHolds
  BY <1>1, NoPassFacts DEF PassHolds
<1> QED BY <1>3, <1>4 DEF IInv

LEMMA StepIInv ==
  ASSUME IInv, [RulesNext]_allVars
  PROVE  IInv'
<1> USE DEF IInv
<1>1. CASE UNCHANGED allVars
  <2>1. UNCHANGED <<now, trace, active, outbox, signals, cycle, pass>>
    BY <1>1 DEF allVars, vars, rulesVars
  <2> QED BY <2>1, OutboxUnchanged DEF PassHolds, IsPass, OneRuled
<1>2. CASE (Tick \/ Students) /\ UNCHANGED rulesVars
  BY <1>2, OutboxStep DEF Next, PassHolds, IsPass, OneRuled, rulesVars
<1>3. ASSUME NEW s \in Sessions,
             \/ \E n \in Lines : Save(s, n)
             \/ \E snap \in DOMAIN snaps[s] : RequestRun(s, snap)
             \/ \E i \in DOMAIN runs[s], outcome \in Outcomes :
                  JudgeRun(s, i, outcome) \/ JudgeAgain(s, i, outcome)
             \/ Leave(s)
      PROVE  IInv'
  <2>1. UNCHANGED <<now, trace, active, outbox, signals, cycle, pass>>
    BY <1>3 DEF Save, RequestRun, JudgeRun, JudgeAgain, Leave, vars
  <2> QED BY <2>1, OutboxUnchanged DEF PassHolds, IsPass, OneRuled
<1>4. ASSUME NEW w \in Schedulers, OutboxCycle(w)
      PROVE  IInv'
  <2>1. OutboxInv'
    BY <1>4, OutboxStep DEF OutboxCycle, Next, RunScheduler
  <2>2. CASE UNCHANGED rulesVars
    BY <2>1, <2>2 DEF PassHolds, IsPass, OneRuled, rulesVars
  <2>3. CASE \E pc : Goes(w, [NoPass EXCEPT !.pc = pc])
    BY <2>1, <2>3, NoPassFacts, GoesStep
  <2> QED BY <1>4, <2>2, <2>3 DEF OutboxCycle
<1>5. ASSUME NEW w \in Schedulers, Passes(w)
      PROVE  IInv'
  <2>1. CASE InsertRuled(w)
    BY <2>1, InsertRuledStep
  <2>2. CASE ~InsertRuled(w)
    <3>1. UNCHANGED <<now, trace, active, outbox, signals, cycle>>
      BY <1>5, <2>2 DEF Passes, ListRuns, ReadRuns, ListSnapshots, ReadCohort, ReadOwn,
         EndPass,
                        PassOverRuled, Dies, vars
    <3>2. PassHolds'
      BY <1>5, <2>2, ReadStep DEF Passes
    <3> QED BY <3>1, <3>2, OutboxUnchanged
  <2> QED BY <2>1, <2>2
<1> QED BY <1>1, <1>2, <1>3, <1>4, <1>5 DEF RulesNext

LEMMA Invariance == RulesSpec => []IInv
BY InitIInv, StepIInv, PTL DEF RulesSpec

-----------------------------------------------------------------------------
(* What a signal says stays true: the second layer of the invariant.       *)

RulesTypeOK ==
    /\ snaps \in [Sessions -> Seq(Lines)]
    /\ runs \in [Sessions -> Seq(Run)]
    /\ \A s \in Sessions : \A i \in DOMAIN runs[s] : runs[s][i].snap \in DOMAIN snaps[s]
    /\ enrolled \subseteq Sessions
    /\ \A s \in Sessions : \A e \in trace[s] : e.at <= now

\* The open tail began with an event or the opening; no event fell into it.
TailTrue(x) ==
    /\ x.from \in Nat /\ x.to \in Nat /\ x.to <= now
    /\ x.from = 0 \/ \E e \in Meaningful(x.session) : e.at = x.from
    /\ \A e \in Meaningful(x.session) : e.at <= x.from \/ x.to <= e.at

FastTrue(x) ==
    \E e \in Edits(x.session) :
        /\ e.n = x.of
        /\ e \in FirstEdit(x.session) \/ \E f \in Edits(x.session) : f.n < e.n /\ e.at <= f.at

FailureTrue(x) ==
    /\ x.of \in Nat /\ x.runs = x.of - MinAttempts + 1 .. x.of
    /\ x.runs \subseteq DOMAIN runs[x.session]
    /\ SimilarCode(x.session, x.runs)
    /\ FailedAlike(x.session, {i \in x.runs : ~runs[x.session][i].changed})

LinesTrue(x) ==
    /\ x.of \in DOMAIN snaps[x.session]
    /\ x.lines = snaps[x.session][x.of]
    /\ PossibleMedian(x.session, x.median)
    /\ 2 * x.lines > Multiplier * x.median

True(x) ==
    /\ x.session \in Sessions
    /\ x.rule = "IDLE" /\ x.closing = 0 => TailTrue(x)
    /\ x.rule = "FAST" => FastTrue(x)
    /\ x.rule = "FAILURE" => FailureTrue(x)
    /\ x.rule = "LINES" => LinesTrue(x)

\* A pass compares only sessions with code, and with a median of code that there was.
Compares(p) ==
    /\ p.pc \in {"off", "runs", "failures", "insertFailure", "cohort", "own", "insertLines"}
    /\ p.pc \in {"failures", "insertFailure"} => p.todo \subseteq Sessions
    /\ p.pc \in {"cohort", "own", "insertLines"} =>
         p.todo \subseteq {s \in Sessions : snaps[s] # <<>>}
    /\ p.pc = "own" => p.todo # {} /\ PossibleMedian(Min(p.todo), p.median)

EvidenceHolds ==
    /\ \A x \in signals : True(x)
    /\ \A w \in Schedulers : /\ \A x \in cycle[w].made : True(x)
                             /\ \A x \in pass[w].made : True(x)
                             /\ Compares(pass[w])

FullInv == IInv /\ RulesTypeOK /\ EvidenceHolds

\* What a step may do to what signals are about.
Grows ==
    /\ now' \in Nat /\ now <= now'
    /\ \A s \in Sessions :
         /\ trace[s] \subseteq trace'[s]
         /\ \A e \in trace'[s] : e \in trace[s] \/ (e.at = now /\ now' = now)
         /\ DOMAIN snaps[s] \subseteq DOMAIN snaps'[s]
         /\ \A i \in DOMAIN snaps[s] : snaps'[s][i] = snaps[s][i]
         /\ DOMAIN runs[s] \subseteq DOMAIN runs'[s]
         /\ \A i \in DOMAIN runs[s] :
              /\ runs'[s][i].snap = runs[s][i].snap
              /\ ~runs'[s][i].changed => /\ ~runs[s][i].changed
                                         /\ \/ runs[s][i].outcome = "none"
                                            \/ runs'[s][i].outcome = runs[s][i].outcome

LEMMA SameGrows ==
  ASSUME TypeOK, RulesTypeOK, UNCHANGED <<now, trace, snaps, runs>>, enrolled' \subseteq enrolled
  PROVE  Grows /\ RulesTypeOK'
BY DEF Grows, TypeOK, RulesTypeOK

LEMMA StoredGrows ==
  ASSUME TypeOK, RulesTypeOK, NEW s \in Sessions, NEW e, e.at = now, Stored(s, e),
         UNCHANGED <<now, snaps, runs, enrolled>>
  PROVE  Grows /\ RulesTypeOK'
<1>1. \A t \in Sessions : trace'[t] = IF t = s THEN trace[t] \union {e} ELSE trace[t]
  BY DEF Stored, TypeOK
<1>2. \A t \in Sessions : /\ trace[t] \subseteq trace'[t]
                          /\ \A f \in trace'[t] : f \in trace[t] \/ f.at = now
  BY <1>1
<1>3. now \in Nat /\ now' = now /\ now <= now /\ snaps' = snaps /\ runs' = runs
  BY DEF TypeOK
<1>4. Grows
  BY <1>2, <1>3 DEF Grows
<1>5. \A t \in Sessions : \A f \in trace'[t] : f.at <= now'
  BY <1>2, <1>3 DEF RulesTypeOK
<1> QED BY <1>4, <1>5 DEF RulesTypeOK

LEMMA SaveGrows ==
  ASSUME TypeOK, RulesTypeOK, NEW s \in Sessions, NEW n \in Lines, Save(s, n)
  PROVE  Grows /\ RulesTypeOK'
<1>1. /\ snaps' = [snaps EXCEPT ![s] = Append(@, n)]
      /\ UNCHANGED <<now, trace, runs, enrolled>>
  BY DEF Save, vars
<1>2. \A t \in Sessions : snaps'[t] = IF t = s THEN Append(snaps[t], n) ELSE snaps[t]
  BY <1>1 DEF RulesTypeOK
<1>3. \A t \in Sessions : /\ snaps'[t] \in Seq(Lines)
                          /\ DOMAIN snaps[t] \subseteq DOMAIN snaps'[t]
                          /\ \A i \in DOMAIN snaps[t] : snaps'[t][i] = snaps[t][i]
  <2> TAKE t \in Sessions
  <2>1. snaps[t] \in Seq(Lines)
    BY DEF RulesTypeOK
  <2>2. /\ Append(snaps[t], n) \in Seq(Lines)
        /\ DOMAIN snaps[t] \subseteq DOMAIN Append(snaps[t], n)
        /\ \A i \in DOMAIN snaps[t] : Append(snaps[t], n)[i] = snaps[t][i]
    BY <2>1
  <2> QED BY <1>2, <2>1, <2>2
<1>4. snaps' \in [Sessions -> Seq(Lines)]
  BY <1>1, <1>3 DEF RulesTypeOK
<1>5. Grows
  BY <1>1, <1>3 DEF Grows, TypeOK
<1>6. \A t \in Sessions : \A i \in DOMAIN runs[t] : runs[t][i].snap \in DOMAIN snaps'[t]
  BY <1>3 DEF RulesTypeOK
<1> QED BY <1>1, <1>4, <1>5, <1>6 DEF RulesTypeOK

LEMMA RequestRunGrows ==
  ASSUME TypeOK, RulesTypeOK, NEW s \in Sessions, NEW snap \in DOMAIN snaps[s], RequestRun(s, snap)
  PROVE  Grows /\ RulesTypeOK'
<1> DEFINE run == [snap |-> snap, outcome |-> "none", changed |-> FALSE]
<1>1. /\ runs' = [runs EXCEPT ![s] = Append(@, run)]
      /\ UNCHANGED <<now, trace, snaps, enrolled>>
  BY DEF RequestRun, vars
<1>2. run \in Run /\ run.snap = snap
  BY DEF Run, RulesTypeOK
<1> HIDE DEF run
<1>3. \A t \in Sessions : runs'[t] = IF t = s THEN Append(runs[t], run) ELSE runs[t]
  BY <1>1 DEF RulesTypeOK
<1>4. \A t \in Sessions : /\ runs'[t] \in Seq(Run)
                          /\ DOMAIN runs[t] \subseteq DOMAIN runs'[t]
                          /\ \A i \in DOMAIN runs[t] : runs'[t][i] = runs[t][i]
                          /\ \A i \in DOMAIN runs'[t] :
                               i \in DOMAIN runs[t] \/ (t = s /\ runs'[t][i] = run)
  <2> TAKE t \in Sessions
  <2>1. runs[t] \in Seq(Run)
    BY DEF RulesTypeOK
  <2>2. /\ Append(runs[t], run) \in Seq(Run)
        /\ DOMAIN runs[t] \subseteq DOMAIN Append(runs[t], run)
        /\ \A i \in DOMAIN runs[t] : Append(runs[t], run)[i] = runs[t][i]
        /\ \A i \in DOMAIN Append(runs[t], run) :
              i \in DOMAIN runs[t] \/ Append(runs[t], run)[i] = run
    BY <1>2, <2>1
  <2> QED BY <1>3, <2>1, <2>2
<1>5. runs' \in [Sessions -> Seq(Run)]
  BY <1>1, <1>4 DEF RulesTypeOK
<1>6. \A t \in Sessions : \A i \in DOMAIN runs'[t] : runs'[t][i].snap \in DOMAIN snaps'[t]
  BY <1>1, <1>2, <1>4 DEF RulesTypeOK
<1>7. RulesTypeOK'
  BY <1>1, <1>5, <1>6 DEF RulesTypeOK
<1> QED BY <1>1, <1>4, <1>7 DEF Grows, TypeOK

\* A verdict of one run is written: the first, or another one over it.
LEMMA JudgedGrows ==
  ASSUME TypeOK, RulesTypeOK, NEW s \in Sessions, NEW i \in DOMAIN runs[s],
         NEW run \in Run, run.snap = runs[s][i].snap,
         ~run.changed => ~runs[s][i].changed /\ runs[s][i].outcome = "none",
         runs' = [runs EXCEPT ![s] = [@ EXCEPT ![i] = run]],
         UNCHANGED <<now, trace, snaps, enrolled>>
  PROVE  Grows /\ RulesTypeOK'
<1>3. \A t \in Sessions : runs'[t] = IF t = s THEN [runs[t] EXCEPT ![i] = run] ELSE runs[t]
  BY DEF RulesTypeOK
<1>4. \A t \in Sessions : /\ runs'[t] \in Seq(Run)
                          /\ DOMAIN runs[t] = DOMAIN runs'[t]
                          /\ \A j \in DOMAIN runs[t] :
                               \/ runs'[t][j] = runs[t][j]
                               \/ t = s /\ j = i /\ runs'[t][j] = run
  <2> TAKE t \in Sessions
  <2>1. runs[t] \in Seq(Run)
    BY DEF RulesTypeOK
  <2>2. CASE t = s
    <3>1. i \in DOMAIN runs[t] /\ runs'[t] = [runs[t] EXCEPT ![i] = run]
      BY <1>3, <2>2
    <3>2. [runs[t] EXCEPT ![i] = run] \in Seq(Run)
      BY <2>1, <3>1
    <3> QED BY <2>2, <3>1, <3>2
  <2>3. CASE t # s
    BY <1>3, <2>1, <2>3
  <2> QED BY <2>2, <2>3
<1>5. runs' \in [Sessions -> Seq(Run)]
  BY <1>4 DEF RulesTypeOK
<1>6. \A t \in Sessions : \A j \in DOMAIN runs'[t] :
         /\ runs'[t][j].snap = runs[t][j].snap
         /\ ~runs'[t][j].changed => /\ ~runs[t][j].changed
                                    /\ \/ runs[t][j].outcome = "none"
                                       \/ runs'[t][j].outcome = runs[t][j].outcome
  BY <1>4
<1>7. RulesTypeOK'
  BY <1>4, <1>5, <1>6 DEF RulesTypeOK
<1> QED BY <1>4, <1>6, <1>7 DEF Grows, TypeOK

LEMMA JudgeRunGrows ==
  ASSUME TypeOK, RulesTypeOK, NEW s \in Sessions, NEW i \in DOMAIN runs[s],
         NEW outcome \in Outcomes, JudgeRun(s, i, outcome) \/ JudgeAgain(s, i, outcome)
  PROVE  Grows /\ RulesTypeOK'
<1>1. runs \in [Sessions -> Seq(Run)] /\ runs[s][i] \in Run
  BY DEF RulesTypeOK
<1>2. CASE JudgeRun(s, i, outcome)
  <2> DEFINE run == [runs[s][i] EXCEPT !.outcome = outcome]
  <2>1. /\ runs' = [runs EXCEPT ![s] = [@ EXCEPT ![i] = run]]
        /\ runs[s][i].outcome = "none"
        /\ UNCHANGED <<now, trace, snaps, enrolled>>
    BY <1>1, <1>2 DEF JudgeRun, vars
  <2>2. run \in Run /\ run.snap = runs[s][i].snap /\ run.changed = runs[s][i].changed
    BY <1>1 DEF Run
  <2> HIDE DEF run
  <2> QED BY <2>1, <2>2, JudgedGrows
<1>3. CASE JudgeAgain(s, i, outcome)
  <2> DEFINE run == [runs[s][i] EXCEPT !.outcome = outcome, !.changed = TRUE]
  <2>1. /\ runs' = [runs EXCEPT ![s] = [@ EXCEPT ![i] = run]]
        /\ UNCHANGED <<now, trace, snaps, enrolled>>
    BY <1>1, <1>3 DEF JudgeAgain
  <2>2. run \in Run /\ run.snap = runs[s][i].snap /\ run.changed
    BY <1>1 DEF Run
  <2> HIDE DEF run
  <2> QED BY <2>1, <2>2, JudgedGrows
<1> QED BY <1>2, <1>3

LEMMA StepGrows ==
  ASSUME TypeOK, EventsNumbered, RulesTypeOK, [RulesNext]_allVars
  PROVE  Grows /\ RulesTypeOK'
<1>1. CASE UNCHANGED allVars
  BY <1>1, SameGrows DEF allVars, vars, rulesVars
<1>2. CASE Tick /\ UNCHANGED rulesVars
  <2>1. now \in Nat /\ now' = now + 1 /\ UNCHANGED <<trace, snaps, runs, enrolled>>
    BY <1>2 DEF Tick, rulesVars, TypeOK
  <2>2. \A s \in Sessions : \A e \in trace[s] : e.at \in Nat
    BY DEF TypeOK, Event
  <2>3. \A s \in Sessions : \A e \in trace[s] : e.at <= now'
    BY <2>1, <2>2 DEF RulesTypeOK
  <2> QED BY <2>1, <2>3 DEF Grows, RulesTypeOK
<1>3. CASE Students /\ UNCHANGED rulesVars
  <2>1. UNCHANGED <<now, snaps, runs, enrolled>>
    BY <1>3 DEF Students, Ingest, EndSession, rulesVars
  <2>2. PICK s \in Sessions : \E n, kind : Stored(s, [n |-> n, kind |-> kind, at |-> now])
    BY <1>3 DEF Students, Ingest, EndSession
  <2> QED BY <2>1, <2>2, StoredGrows
<1>4. ASSUME NEW s \in Sessions,
             \/ \E n \in Lines : Save(s, n)
             \/ \E snap \in DOMAIN snaps[s] : RequestRun(s, snap)
             \/ \E i \in DOMAIN runs[s], outcome \in Outcomes :
                  JudgeRun(s, i, outcome) \/ JudgeAgain(s, i, outcome)
             \/ Leave(s)
      PROVE  Grows /\ RulesTypeOK'
  <2>1. CASE Leave(s)
    BY <2>1, SameGrows DEF Leave, vars
  <2> QED BY <1>4, <2>1, SaveGrows, RequestRunGrows, JudgeRunGrows
<1>5. ASSUME NEW w \in Schedulers, OutboxCycle(w) \/ Passes(w)
      PROVE  Grows /\ RulesTypeOK'
  <2>1. UNCHANGED <<now, trace, snaps, runs, enrolled>>
    BY <1>5 DEF OutboxCycle, Work, Wake, Claim, ReadPrefix, EvaluateChunk, Commit,
       ListTails,
         LookAtTail, NoTail, LookAtFirst, InsertSeen, PassOver, Abort, Sleep, Passes, ListRuns,
         ReadRuns, ListSnapshots, ReadCohort, ReadOwn, InsertRuled, EndPass, PassOverRuled, Dies,
         Goes, vars, rulesVars
  <2> QED BY <2>1, SameGrows
<1> QED BY <1>1, <1>2, <1>3, <1>4, <1>5 DEF RulesNext

-----------------------------------------------------------------------------
(* What was true of a signal stays true.                                   *)

LEMMA TailStays ==
  ASSUME TypeOK, RulesTypeOK, Grows, NEW x, x.session \in Sessions, TailTrue(x)
  PROVE  TailTrue(x)'
<1> DEFINE s == x.session
<1>1. /\ x.from \in Nat /\ x.to \in Nat /\ x.to <= now /\ now \in Nat /\ now' \in Nat /\ now <= now'
      /\ s \in Sessions
  BY DEF TailTrue, Grows, TypeOK
<1>2. x.from = 0 \/ \E e \in Meaningful(s)' : e.at = x.from
  BY DEF TailTrue, Meaningful, Grows
<1>3. \A e \in Meaningful(s)' : e.at <= x.from \/ x.to <= e.at
  <2> SUFFICES ASSUME NEW e \in Meaningful(s)'
               PROVE  e.at <= x.from \/ x.to <= e.at
    OBVIOUS
  <2>1. e \in Meaningful(s) \/ e.at = now
    BY DEF Meaningful, Grows
  <2> QED BY <1>1, <2>1 DEF TailTrue
<1> QED BY <1>1, <1>2, <1>3 DEF TailTrue

\* A first edit remains the first, or an edit with a smaller number arrives after it.
LEMMA FastStays ==
  ASSUME TypeOK, RulesTypeOK, Grows, TypeOK', NEW x, x.session \in Sessions, FastTrue(x)
  PROVE  FastTrue(x)'
<1> DEFINE s == x.session
<1>1. Edits(s) \subseteq Edits(s)' /\ \A e \in Edits(s)' : e \in Edits(s) \/ e.at = now
  BY DEF Edits, Grows
<1>2. \A e \in Edits(s)' : e.n \in Nat
  BY DEF Edits, TypeOK, Event
<1>3. PICK e \in Edits(s) :
        /\ e.n = x.of
        /\ e \in FirstEdit(s) \/ \E f \in Edits(s) : f.n < e.n /\ e.at <= f.at
  BY DEF FastTrue
<1>4. e.at <= now
  BY DEF Edits, RulesTypeOK
<1>5. CASE \E f \in Edits(s) : f.n < e.n /\ e.at <= f.at
  BY <1>1, <1>3, <1>5 DEF FastTrue
<1>6. CASE e \in FirstEdit(s) /\ e \notin FirstEdit(s)'
  <2>1. PICK f \in Edits(s)' : ~(e.n <= f.n)
    BY <1>1, <1>6 DEF FirstEdit
  <2>2. f \notin Edits(s)
    BY <1>6, <2>1 DEF FirstEdit
  <2>3. f.at = now /\ f.n < e.n
    BY <1>1, <1>2, <2>1, <2>2
  <2> QED BY <1>1, <1>3, <1>4, <2>3 DEF FastTrue
<1>7. CASE e \in FirstEdit(s)'
  BY <1>1, <1>3, <1>7 DEF FastTrue
<1> QED BY <1>3, <1>5, <1>6, <1>7

LEMMA FailureStays ==
  ASSUME RulesTypeOK, Grows, NEW x, x.session \in Sessions, FailureTrue(x)
  PROVE  FailureTrue(x)'
<1> DEFINE s == x.session
           I == {i \in x.runs : ~runs[s][i].changed}
           J == {i \in x.runs : ~runs'[s][i].changed}
<1>1. \A i \in x.runs : /\ i \in DOMAIN runs[s] /\ i \in DOMAIN runs'[s]
                        /\ runs'[s][i].snap = runs[s][i].snap
                        /\ snaps'[s][runs[s][i].snap] = snaps[s][runs[s][i].snap]
  BY DEF FailureTrue, Grows, RulesTypeOK
<1>2. SimilarCode(s, x.runs)'
  BY <1>1 DEF FailureTrue, SimilarCode, TooDifferent, Distance
<1>3. \A i \in J : /\ i \in I /\ runs[s][i].outcome \notin {"none", "accepted"}
                   /\ runs'[s][i].outcome = runs[s][i].outcome
  <2> TAKE i \in J
  <2>1. i \in x.runs /\ i \in DOMAIN runs[s]
    BY <1>1
  <2>2. /\ ~runs[s][i].changed
        /\ runs[s][i].outcome = "none" \/ runs'[s][i].outcome = runs[s][i].outcome
    BY <2>1 DEF Grows
  <2>3. runs[s][i].outcome \notin {"none", "accepted"}
    BY <2>1, <2>2 DEF FailureTrue, FailedAlike
  <2> QED BY <2>1, <2>2, <2>3
<1>4. \A i, j \in I : runs[s][i].outcome = runs[s][j].outcome
  BY DEF FailureTrue, FailedAlike
<1>5. FailedAlike(s, {i \in x.runs : ~runs[s][i].changed})'
  BY <1>3, <1>4 DEF FailedAlike
<1> QED BY <1>1, <1>2, <1>5 DEF FailureTrue

LEMMA MedianStays ==
  ASSUME Grows, NEW s, NEW m, PossibleMedian(s, m)
  PROVE  PossibleMedian(s, m)'
<1>1. PICK T \in SUBSET (Sessions \ {s}) :
        /\ Cardinality(T) >= MinCohort
        /\ \E f \in [T -> Lines] :
             /\ \A t \in T : \E i \in DOMAIN snaps[t] : snaps[t][i] = f[t]
             /\ m = TwiceMedian([i \in 1 .. Cardinality(T) |-> f[SetToSeq(T)[i]]])
  BY DEF PossibleMedian
<1>2. PICK f \in [T -> Lines] :
        /\ \A t \in T : \E i \in DOMAIN snaps[t] : snaps[t][i] = f[t]
        /\ m = TwiceMedian([i \in 1 .. Cardinality(T) |-> f[SetToSeq(T)[i]]])
  BY <1>1
<1>3. \A t \in T : \E i \in DOMAIN snaps'[t] : snaps'[t][i] = f[t]
  BY <1>2 DEF Grows
<1>4. \E g \in [T -> Lines] :
        /\ \A t \in T : \E i \in DOMAIN snaps'[t] : snaps'[t][i] = g[t]
        /\ m = TwiceMedian([i \in 1 .. Cardinality(T) |-> g[SetToSeq(T)[i]]])
  BY <1>2, <1>3, Zenon
<1> QED BY <1>1, <1>4, Zenon DEF PossibleMedian

LEMMA TrueStays ==
  ASSUME TypeOK, RulesTypeOK, Grows, TypeOK', NEW x, True(x)
  PROVE  True(x)'
<1>1. CASE x.rule = "LINES"
  <2>1. LinesTrue(x)'
    BY <1>1, MedianStays DEF True, LinesTrue, Grows
  <2> QED BY <1>1, <2>1 DEF True
<1> QED BY <1>1, TailStays, FastStays, FailureStays DEF True

LEMMA ComparesStays ==
  ASSUME RulesTypeOK, RulesTypeOK', Grows, NEW p, Compares(p)
  PROVE  Compares(p)'
<1>1. \A s \in Sessions : snaps[s] # <<>> => snaps'[s] # <<>>
  <2> SUFFICES ASSUME NEW s \in Sessions, snaps[s] # <<>>
               PROVE  snaps'[s] # <<>>
    OBVIOUS
  <2>1. snaps[s] \in Seq(Lines) /\ snaps'[s] \in Seq(Lines)
    BY DEF RulesTypeOK
  <2>2. 1 \in DOMAIN snaps[s]
    BY <2>1
  <2>3. 1 \in DOMAIN snaps'[s]
    BY <2>2 DEF Grows
  <2> QED BY <2>1, <2>3
<1> QED BY <1>1, MedianStays DEF Compares

-----------------------------------------------------------------------------
(* What the rules find is true.                                            *)

LEMMA TailFound ==
  ASSUME TypeOK, RulesTypeOK, NEW s \in Sessions,
         NEW e \in IF Latest(s) = {} THEN {[n |-> 0, kind |-> "other", at |-> 0]} ELSE Latest(s),
         NEW x \in OpenTail(s, e)
  PROVE  True(x)
<1>1. /\ x.rule = "IDLE" /\ x.session = s /\ x.from = e.at /\ x.to = now
      /\ (now - e.at) \div Threshold >= 1
  BY DEF OpenTail
<1>2. e.at \in Nat /\ now \in Nat
  BY DEF TypeOK, Event, Latest, Meaningful
<1>3. e.at = 0 \/ e \in Meaningful(s)
  BY DEF Latest
<1>4. \A f \in Meaningful(s) : f.at <= e.at \/ now <= f.at
  <2>1. CASE Latest(s) # {}
    BY <2>1 DEF Latest
  <2>2. CASE Latest(s) = {}
    <3> SUFFICES ASSUME Meaningful(s) # {}
                 PROVE  FALSE
      OBVIOUS
    <3> DEFINE T == {f.at : f \in Meaningful(s)}
    <3>1. T \in SUBSET Nat /\ T # {} /\ \A v \in T : v <= now
      BY DEF Meaningful, TypeOK, Event, RulesTypeOK
    <3>2. PICK v \in T : \A u \in T : u <= v
      BY <3>1, <1>2, NatMax
    <3>3. PICK f \in Meaningful(s) : f.at = v
      OBVIOUS
    <3>4. f \in Latest(s)
      BY <3>2, <3>3 DEF Latest
    <3> QED BY <2>2, <3>4
  <2> QED BY <2>1, <2>2
<1> QED BY <1>1, <1>2, <1>3, <1>4 DEF True, TailTrue

LEMMA FastFound ==
  ASSUME TypeOK, NEW s \in Sessions, NEW x \in FastFirst(s)
  PROVE  True(x)
<1>1. PICK e \in FirstEdit(s) :
         x = [rule |-> "FAST", session |-> s, of |-> e.n, from |-> 0, to |-> e.at,
              before |-> 0, closing |-> e.n]
  BY DEF FastFirst
<1>2. x.rule = "FAST" /\ x.session = s /\ x.of = e.n
  BY <1>1
<1>3. e \in Edits(s)
  BY DEF FirstEdit
<1> QED BY <1>2, <1>3 DEF True, FastTrue

\* The last runs follow each other.
LEMMA FailureFound ==
  ASSUME RulesTypeOK, NEW s \in Sessions, NEW x \in RepeatedFailure(s)
  PROVE  True(x)
<1> DEFINE I == LastRuns(s)
           n == Len(runs[s])
<1>1. /\ x.rule = "FAILURE" /\ x.session = s /\ x.of = Max(I) /\ x.runs = I
      /\ Cardinality(I) >= MinAttempts
      /\ FailedAlike(s, I) /\ SimilarCode(s, I)
  BY DEF RepeatedFailure
<1>2. runs[s] \in Seq(Run) /\ n \in Nat /\ DOMAIN runs[s] = 1 .. n
  BY DEF RulesTypeOK
<1>3. MinAttempts \in Nat \ {0}
  BY RulesAssumption
<1>4. I = {i \in 1 .. n : i > n - MinAttempts}
  BY <1>2 DEF LastRuns
<1> HIDE DEF I, n
<1>5. n >= MinAttempts
  <2> SUFFICES ASSUME n < MinAttempts
               PROVE  FALSE
    BY <1>2, <1>3
  <2>1. \A i \in 1 .. n : i > n - MinAttempts
    BY <1>2, <1>3
  <2>3. I = 1 .. n
    BY <1>4, <2>1
  <2>2. Cardinality(1 .. n) = IF 1 > n THEN 0 ELSE n - 1 + 1
    BY <1>2, FS_Interval
  <2> QED BY <1>1, <1>2, <1>3, <2>2, <2>3
<1>6. I = n - MinAttempts + 1 .. n
  <2>1. n - MinAttempts + 1 \in Nat \ {0}
    BY <1>2, <1>3, <1>5
  <2>2. \A i \in Nat : i \in 1 .. n /\ i > n - MinAttempts <=> i \in n - MinAttempts + 1 .. n
    BY <1>2, <1>3, <2>1
  <2>3. I \subseteq Nat /\ n - MinAttempts + 1 .. n \subseteq Nat
    BY <1>2, <1>4, <2>1
  <2> QED BY <1>4, <2>2, <2>3
<1>7. Max(I) = n
  <2>1. I \in SUBSET Nat /\ n \in I /\ \A i \in I : i <= n
    BY <1>2, <1>3, <1>5, <1>6
  <2>2. Max(I) \in I /\ \A i \in I : i <= Max(I)
    BY <1>2, <2>1, NatMax
  <2>3. Max(I) \in Nat /\ Max(I) <= n /\ n <= Max(I)
    BY <2>1, <2>2
  <2> QED BY <1>2, <2>3
<1>8. I \subseteq DOMAIN runs[s]
  BY <1>2, <1>4
<1>9. FailedAlike(s, {i \in I : ~runs[s][i].changed})
  BY <1>1 DEF FailedAlike
<1> QED BY <1>1, <1>2, <1>6, <1>7, <1>8, <1>9 DEF True, FailureTrue

\* A cohort is some of the others, each with one snapshot.
LEMMA CohortFound ==
  ASSUME RulesTypeOK, NEW s \in Sessions, ~(Len(Cohort(s)) < MinCohort)
  PROVE  PossibleMedian(s, TwiceMedian(Cohort(s)))
<1> DEFINE T == {t \in Classmates(s) : snaps[t] # <<>>}
           f == [t \in T |-> Last(snaps[t])]
           n == Cardinality(T)
           q == [i \in 1 .. n |-> f[SetToSeq(T)[i]]]
<1>1. T \in SUBSET (Sessions \ {s}) /\ IsFiniteSet(T) /\ n \in Nat
  <2>1. T \in SUBSET Sessions /\ s \notin T
    BY DEF Classmates, RulesTypeOK
  <2> QED BY <2>1, OutboxAssumption, FS_Subset, FS_CardinalityType
<1>2. \A t \in T : /\ Len(snaps[t]) \in DOMAIN snaps[t] /\ Last(snaps[t]) \in Lines
                   /\ Last(snaps[t]) = snaps[t][Len(snaps[t])]
  <2> TAKE t \in T
  <2>1. snaps[t] \in Seq(Lines) /\ snaps[t] # <<>>
    BY <1>1 DEF RulesTypeOK
  <2> QED BY <2>1 DEF Last
<1>3. SetToSeq(T) \in [1 .. n -> T]
  <2>1. \E g \in [1 .. n -> T] : IsInjective(g)
    BY <1>1, FS_CardinalityType DEF ExistsBijection, Bijection, Injection
  <2> QED BY <2>1 DEF SetToSeq
<1>4. Cohort(s) = q
  BY <1>3 DEF Cohort
<1>5. Len(q) = n
  BY <1>1
<1>6. MinCohort \in Nat
  BY RulesAssumption
<1>7. f \in [T -> Lines]
  BY <1>2
<1>8. \A t \in T : \E i \in DOMAIN snaps[t] : snaps[t][i] = f[t]
  BY <1>2
<1> HIDE DEF T, f, n
<1>9. n >= MinCohort
  BY <1>1, <1>4, <1>5, <1>6
<1> QED BY <1>1, <1>4, <1>7, <1>8, <1>9 DEF PossibleMedian, n

LEMMA AnomalyFound ==
  ASSUME RulesTypeOK, NEW s \in Sessions, snaps[s] # <<>>, NEW m, PossibleMedian(s, m),
         NEW x \in Anomaly(s, m)
  PROVE  True(x)
<1>1. snaps[s] \in Seq(Lines)
  BY DEF RulesTypeOK
<1>2. /\ x.rule = "LINES" /\ x.session = s /\ x.of = Len(snaps[s]) /\ x.median = m
      /\ x.lines = Last(snaps[s]) /\ 2 * Last(snaps[s]) > Multiplier * m
  BY DEF Anomaly
<1>3. Len(snaps[s]) \in DOMAIN snaps[s] /\ Last(snaps[s]) = snaps[s][Len(snaps[s])]
  BY <1>1 DEF Last
<1> QED BY <1>2, <1>3 DEF True, LinesTrue

-----------------------------------------------------------------------------
(* Every signal that is found, inserted or about to be is true.            *)

LEMMA CycleFound ==
  ASSUME FullInv, OutboxInv', NEW w \in Schedulers,
         Work(w) \/ PassOver(w) \/ Abort(w) \/ Sleep(w)
  PROVE  /\ \A v \in Schedulers : \A x \in cycle'[v].made : True(x)
         /\ \A x \in signals' : True(x)
<1> DEFINE c == cycle[w]
<1>1. TypeOK /\ RulesTypeOK /\ c \in Cycle
  BY DEF FullInv, IInv, OutboxInv, TypeOK
<1>2. (\A x \in signals : True(x)) /\ \A v \in Schedulers : \A x \in cycle[v].made : True(x)
  BY DEF FullInv, EvidenceHolds
<1>3. \A v \in Schedulers : Evaluating(cycle'[v]) => \A x \in cycle'[v].made : True(x)
  BY DEF OutboxInv, GapsHold, Evaluating, TypeOK, Cycle, Signal, True
<1>4. \A v \in Schedulers : v # w => cycle'[v] = cycle[v]
  BY <1>1 DEF TypeOK, Work, Wake, Claim, ReadPrefix, EvaluateChunk, Commit, ListTails,
     LookAtTail,
     NoTail, LookAtFirst, InsertSeen, PassOver, Abort, Sleep
<1>5. ToFirst(c).made = {} /\ NextSession(c).made = {} /\ IdleCycle.made = {}
  BY <1>1 DEF Cycle, ToFirst, NextSession, IdleCycle
<1>6. \A x \in cycle'[w].made : True(x)
  <2>1. CASE Wake(w) \/ Commit(w)
    <3> DEFINE S == {s \in Sessions : outbox[s] # {}}
    <3>1. \/ cycle'[w] = [IdleCycle EXCEPT !.pc = "claim", !.todo = S]
          \/ cycle'[w] = [IdleCycle EXCEPT !.pc = "tail"]
      BY <1>1, <2>1 DEF Wake, Commit, TypeOK
    <3>2. cycle'[w].made = {}
      BY <3>1 DEF IdleCycle
    <3> QED BY <3>2
  <2>2. CASE Claim(w)
    <3>1. \E pc, S : cycle'[w] = [IdleCycle EXCEPT !.pc = pc, !.todo = S, !.held = S]
      BY <1>1, <2>2 DEF Claim, TypeOK
    <3>2. cycle'[w].made = {}
      BY <3>1 DEF IdleCycle
    <3> QED BY <3>2
  <2>3. CASE ReadPrefix(w) \/ EvaluateChunk(w)
    <3> SUFFICES Evaluating(cycle'[w])
      BY <1>3
    <3>1. c.pc \in {"prefix", "chunk"} /\ c.todo # {}
      BY <2>3 DEF ReadPrefix, EvaluateChunk, FullInv, IInv, OutboxInv, CycleHolds, Fits
    <3>2. Advance(c) \in Cycle /\ Advance(c).pc \in {"prefix", "commit"}
      BY <1>1, <3>1, AdvanceFacts
    <3>3. CASE ReadPrefix(w)
      <4>1. cycle'[w] = Advance(c) \/ \E n : cycle'[w] = [c EXCEPT !.pc = "chunk", !.prefix = n]
        BY <1>1, <3>3 DEF ReadPrefix, TypeOK
      <4>2. \A n : [c EXCEPT !.pc = "chunk", !.prefix = n].pc = "chunk"
        BY <1>1 DEF Cycle
      <4> QED BY <3>2, <4>1, <4>2 DEF Evaluating
    <3>4. CASE EvaluateChunk(w)
      <4>1. \E X, D : cycle'[w] = [Advance(c) EXCEPT !.made = X, !.done = D]
        BY <1>1, <3>4 DEF EvaluateChunk, TypeOK
      <4>2. \A X, D : [Advance(c) EXCEPT !.made = X, !.done = D].pc = Advance(c).pc
        BY <3>2 DEF Cycle
      <4> QED BY <3>2, <4>1, <4>2 DEF Evaluating
    <3> QED BY <2>3, <3>3, <3>4
  <2>4. CASE ListTails(w)
    <3>1. cycle'[w] = [c EXCEPT !.pc = "look", !.todo = active]
      BY <1>1, <2>4 DEF ListTails, TypeOK
    <3>2. cycle'[w].made = c.made
      BY <1>1, <3>1 DEF Cycle
    <3> QED BY <1>2, <3>2
  <2>5. CASE LookAtTail(w)
    <3> DEFINE s == Min(c.todo)
               opened == [n |-> 0, kind |-> "other", at |-> 0]
    <3>1. PICK e \in IF Latest(s) = {} THEN {opened} ELSE Latest(s) :
             cycle'[w] = Evaluated(c, OpenTail(s, e), "insert", ToFirst(c))
      BY <1>1, <2>5 DEF LookAtTail, TypeOK
    <3>2. s \in Sessions
      BY <1>1, <2>5, MinTodo DEF LookAtTail, Cycle
    <3>3. \A x \in OpenTail(s, e) : True(x)
      BY <1>1, <3>2, TailFound
    <3> HIDE DEF s
    <3>4. cycle'[w].made \in {{}, OpenTail(s, e)}
      BY <1>1, <1>5, <3>1 DEF Evaluated, Cycle
    <3> QED BY <3>3, <3>4
  <2>6. CASE LookAtFirst(w)
    <3> DEFINE s == Min(c.todo)
    <3>1. cycle'[w] = Evaluated(c, FastFirst(s), "insertFirst", NextSession(c))
      BY <1>1, <2>6 DEF LookAtFirst, TypeOK
    <3>2. c.todo # {}
      BY <2>6 DEF LookAtFirst, FullInv, IInv, OutboxInv, CycleHolds, Fits
    <3>3. s \in Sessions
      BY <1>1, <3>2, MinTodo DEF Cycle
    <3>4. \A x \in FastFirst(s) : True(x)
      BY <1>1, <3>3, FastFound
    <3> HIDE DEF s
    <3>5. cycle'[w].made \in {{}, FastFirst(s)}
      BY <1>1, <1>5, <3>1 DEF Evaluated, Cycle
    <3> QED BY <3>4, <3>5
  <2>7. CASE NoTail(w) \/ InsertSeen(w) \/ PassOver(w) \/ Abort(w) \/ Sleep(w)
    <3>1. cycle'[w] \in {ToFirst(c), NextSession(c), IdleCycle}
      BY <1>1, <2>7 DEF NoTail, InsertSeen, PassOver, Abort, Sleep, TypeOK
    <3> QED BY <1>5, <3>1
  <2> QED BY <2>1, <2>2, <2>3, <2>4, <2>5, <2>6, <2>7 DEF Work
<1>7. signals' \subseteq signals \union c.made
  BY DEF Work, Wake, Claim, ReadPrefix, EvaluateChunk, Commit, ListTails, LookAtTail,
     NoTail, LookAtFirst, InsertSeen, PassOver, Abort, Sleep, Deduplicated
<1> QED BY <1>2, <1>4, <1>6, <1>7

LEMMA PassFound ==
  ASSUME FullInv, NEW w \in Schedulers, Passes(w)
  PROVE  /\ \A v \in Schedulers : Compares(pass'[v]) /\ \A x \in pass'[v].made : True(x)
         /\ \A x \in signals' : True(x)
<1> DEFINE p == pass[w]
           s == Min(p.todo)
           Good(q) == Compares(q) /\ \A x \in q.made : True(x)
<1>1. RulesTypeOK /\ PassHolds /\ Good(p) /\ (\A v \in Schedulers : Good(pass[v]))
      /\ (\A x \in signals : True(x)) /\ DOMAIN p = {"pc", "todo", "median", "made"}
  BY DEF FullInv, IInv, EvidenceHolds, PassHolds, IsPass
<1>2. ASSUME NEW q, Goes(w, q), Good(q)
      PROVE  \A v \in Schedulers : Good(pass'[v])
  BY <1>1, <1>2 DEF Goes, PassHolds
<1>3. \A pc \in {"off", "runs"} : Good([NoPass EXCEPT !.pc = pc]) /\ Good(NoPass)
  BY DEF NoPass, Compares
<1>4. p.todo \subseteq Sessions /\ p.todo # {} => s \in p.todo
  BY NatMin, OutboxAssumption
<1>5. \A v \in Schedulers : Good(pass'[v])
  <2>1. CASE ListRuns(w)
    <3>1. PICK S \in SUBSET Sessions : Goes(w, [NoPass EXCEPT !.pc = "failures", !.todo = S])
      BY <2>1 DEF ListRuns
    <3>2. Good([NoPass EXCEPT !.pc = "failures", !.todo = S])
      BY DEF NoPass, Compares
    <3> QED BY <1>2, <3>1, <3>2
  <2>2. CASE ReadRuns(w)
    <3> DEFINE X == RepeatedFailure(s)
               d == IF X = {} THEN [p EXCEPT !.todo = @ \ {s}]
                    ELSE [p EXCEPT !.pc = "insertFailure", !.made = X]
    <3>1. Goes(w, d) /\ p.pc = "failures" /\ p.todo # {}
      BY <2>2 DEF ReadRuns
    <3>2. s \in Sessions /\ p.todo \subseteq Sessions
      BY <1>1, <1>4, <3>1 DEF Compares
    <3>3. \A x \in X : True(x)
      BY <1>1, <3>2, FailureFound
    <3> HIDE DEF X, s, p
    <3>4. Good(d)
      BY <1>1, <3>1, <3>2, <3>3 DEF Compares
    <3> QED BY <1>2, <3>1, <3>4
  <2>3. CASE ListSnapshots(w)
    <3>1. PICK S \in SUBSET {t \in Sessions : snaps[t] # <<>>} :
            Goes(w, [NoPass EXCEPT !.pc = "cohort", !.todo = S])
      BY <2>3 DEF ListSnapshots
    <3>2. Good([NoPass EXCEPT !.pc = "cohort", !.todo = S])
      BY DEF NoPass, Compares
    <3> QED BY <1>2, <3>1, <3>2
  <2>4. CASE ReadCohort(w)
    <3> DEFINE few == Len(Cohort(s)) < MinCohort
               m == TwiceMedian(Cohort(s))
               d == IF few THEN [p EXCEPT !.todo = @ \ {s}]
                    ELSE [p EXCEPT !.pc = "own", !.median = m]
    <3>1. Goes(w, d) /\ p.pc = "cohort" /\ p.todo # {}
      BY <2>4 DEF ReadCohort
    <3>2. s \in Sessions /\ p.todo \subseteq {t \in Sessions : snaps[t] # <<>>}
      BY <1>1, <1>4, <3>1 DEF Compares
    <3>3. ~few => PossibleMedian(s, m)
      BY <1>1, <3>2, CohortFound
    <3>4. s = Min(p.todo)
      OBVIOUS
    <3> HIDE DEF few, m, s, p
    <3>5. Good(d)
      BY <1>1, <3>1, <3>2, <3>3, <3>4 DEF Compares
    <3> QED BY <1>2, <3>1, <3>5
  <2>5. CASE ReadOwn(w)
    <3> DEFINE X == Anomaly(s, p.median)
               d == IF X = {} THEN [p EXCEPT !.pc = "cohort", !.todo = @ \ {s}, !.median = 0]
                    ELSE [p EXCEPT !.pc = "insertLines", !.made = X, !.median = 0]
    <3>1. Goes(w, d) /\ p.pc = "own"
      BY <2>5 DEF ReadOwn
    <3>2. p.todo \subseteq {t \in Sessions : snaps[t] # <<>>} /\ p.todo # {}
          /\ PossibleMedian(s, p.median)
      BY <1>1, <3>1 DEF Compares
    <3>3. s \in p.todo
      BY <1>4, <3>2
    <3>4. \A x \in X : True(x)
      BY <1>1, <3>2, <3>3, AnomalyFound
    <3> HIDE DEF X, s, p
    <3>5. Good(d)
      BY <1>1, <3>1, <3>2, <3>4 DEF Compares
    <3> QED BY <1>2, <3>1, <3>5
  <2>6. CASE InsertRuled(w)
    <3> DEFINE d == [p EXCEPT !.pc = IF @ = "insertLines" THEN "cohort" ELSE "failures",
                              !.todo = @ \ {Min(@)}, !.made = {}]
    <3>1. Goes(w, d) /\ p.pc \in {"insertFailure", "insertLines"}
      BY <2>6 DEF InsertRuled
    <3> HIDE DEF p
    <3>2. Good(d)
      BY <1>1, <3>1 DEF Compares
    <3> QED BY <1>2, <3>1, <3>2
  <2>7. CASE PassOverRuled(w)
    <3> DEFINE d == [p EXCEPT !.pc = IF @ \in {"failures", "insertFailure"} THEN "failures"
                                                                           ELSE "cohort",
                              !.todo = @ \ {Min(@)}, !.median = 0, !.made = {}]
    <3>1. Goes(w, d) /\ p.pc \notin {"off", "runs"}
      BY <2>7 DEF PassOverRuled
    <3> HIDE DEF p
    <3>2. Good(d)
      BY <1>1, <3>1 DEF Compares
    <3> QED BY <1>2, <3>1, <3>2
  <2>8. CASE EndPass(w) \/ Dies(w)
    BY <1>2, <1>3, <2>8 DEF EndPass, Dies
  <2> QED BY <2>1, <2>2, <2>3, <2>4, <2>5, <2>6, <2>7, <2>8 DEF Passes
<1>6. signals' \subseteq signals \union p.made
  BY DEF Passes, ListRuns, ReadRuns, ListSnapshots, ReadCohort, ReadOwn, InsertRuled,
     EndPass,
     PassOverRuled, Dies, vars
<1> QED BY <1>1, <1>5, <1>6

LEMMA InitFullInv ==
  ASSUME RulesInit
  PROVE  FullInv
<1>1. IInv
  BY InitIInv
<1>2. PICK x \in Scenes : /\ Start(x.sessions) /\ enrolled = x.sessions
                          /\ snaps = [s \in Sessions |-> <<>>]
                          /\ runs = [s \in Sessions |-> <<>>]
                          /\ pass = [w \in Schedulers |-> NoPass]
  BY DEF RulesInit
<1>3. RulesTypeOK
  BY <1>2, RulesAssumption DEF RulesTypeOK, Start
<1>4. EvidenceHolds
  <2>1. NoPass.made = {} /\ Compares(NoPass)
    BY DEF NoPass, Compares
  <2> QED BY <1>2, <2>1 DEF EvidenceHolds, Start, IdleCycle
<1> QED BY <1>1, <1>3, <1>4 DEF FullInv

LEMMA StepFullInv ==
  ASSUME FullInv, [RulesNext]_allVars
  PROVE  FullInv'
<1>1. IInv' /\ TypeOK /\ EventsNumbered /\ RulesTypeOK /\ TypeOK' /\ OutboxInv'
  BY StepIInv DEF FullInv, IInv, OutboxInv
<1>2. Grows /\ RulesTypeOK'
  BY <1>1, StepGrows
<1>3. /\ \A x \in signals' : True(x)
      /\ \A v \in Schedulers : /\ \A x \in cycle'[v].made : True(x)
                               /\ \A x \in pass'[v].made : True(x)
                               /\ Compares(pass'[v])
  <2>1. CASE UNCHANGED <<signals, cycle, pass>>
    BY <2>1 DEF FullInv, EvidenceHolds
  <2>2. ASSUME NEW w \in Schedulers, OutboxCycle(w)
        PROVE  <1>3!:
    <3>1. /\ \A v \in Schedulers : \A x \in cycle'[v].made : True(x)
          /\ \A x \in signals' : True(x)
      BY <1>1, <2>2, CycleFound DEF OutboxCycle
    <3>2. CASE UNCHANGED rulesVars
      BY <3>1, <3>2 DEF FullInv, EvidenceHolds, rulesVars
    <3>3. CASE \E pc \in {"off", "runs"} : Goes(w, [NoPass EXCEPT !.pc = pc])
      <4>1. \A pc \in {"off", "runs"} : /\ Compares([NoPass EXCEPT !.pc = pc])
                                        /\ [NoPass EXCEPT !.pc = pc].made = {}
        BY DEF NoPass, Compares
      <4>2. \A v \in Schedulers : pass'[v] = pass[v] \/ (Compares(pass'[v]) /\ pass'[v].made = {})
        BY <3>3, <4>1 DEF Goes, FullInv, IInv, PassHolds
      <4> QED BY <3>1, <4>2 DEF FullInv, EvidenceHolds
    <3> QED BY <2>2, <3>2, <3>3 DEF OutboxCycle
  <2>3. ASSUME NEW w \in Schedulers, Passes(w)
        PROVE  <1>3!:
    <3>1. cycle' = cycle
      BY <2>3 DEF Passes, ListRuns, ReadRuns, ListSnapshots, ReadCohort, ReadOwn,
         InsertRuled,
                  EndPass, PassOverRuled, Dies, vars
    <3> QED BY <2>3, <3>1, PassFound DEF FullInv, EvidenceHolds
  <2> QED BY <2>1, <2>2, <2>3 DEF RulesNext, Tick, Students, Ingest, EndSession, Save,
                                  RequestRun, JudgeRun, JudgeAgain, Leave, allVars, vars, rulesVars
<1>4. EvidenceHolds'
  <2>1. \A x : True(x) => True(x)'
    BY <1>1, <1>2, TrueStays
  <2>2. \A p : Compares(p) => Compares(p)'
    BY <1>1, <1>2, ComparesStays
  <2> QED BY <1>3, <2>1, <2>2 DEF EvidenceHolds
<1> QED BY <1>1, <1>2, <1>4 DEF FullInv

LEMMA FullInvariance == RulesSpec => []FullInv
BY InitFullInv, StepFullInv, PTL DEF RulesSpec

-----------------------------------------------------------------------------
(* Theorems.                                                               *)

\* A closed gap that a signal is about stays as it was written: evaluate_historical_idle_gaps
\* never looks above a missing number, so that no event can arrive inside the gap.
THEOREM GapsAreTrue == RulesSpec => []GapEvidenceTrue
<1>1. IInv => GapEvidenceTrue
  BY DEF IInv, OutboxInv, GapsHold, GapTrue, GapEvidenceTrue
<1> QED BY <1>1, Invariance, PTL

\* An outbox row is only deleted with the gap of its event among the signals, whatever
\* schedulers claim, abort and repeat, and in whatever order the events arrive.
THEOREM NoGapIsForgotten == RulesSpec => []NoGapForgotten
<1>1. IInv => NoGapForgotten
  BY DEF IInv, OutboxInv, EvaluatedFound, Found, NoGapForgotten
<1> QED BY <1>1, Invariance, PTL

\* A signal is never changed nor deleted, and no two have one deduplication key.
THEOREM EvidenceStays == RulesSpec => EvidenceImmutable
<1>1. ASSUME [RulesNext]_allVars
      PROVE  signals \subseteq signals'
  BY <1>1 DEF RulesNext, Tick, Students, Ingest, EndSession, Save, RequestRun, JudgeRun,
              JudgeAgain, Leave, OutboxCycle, Work, Wake, Claim, ReadPrefix, EvaluateChunk, Commit, ListTails,
              LookAtTail, NoTail, LookAtFirst, InsertSeen, PassOver, Abort, Sleep, Passes,
              ListRuns, ReadRuns, ListSnapshots, ReadCohort, ReadOwn, InsertRuled, EndPass,
              PassOverRuled, Dies, allVars, vars
<1>2. ASSUME IInv', [RulesNext]_allVars
      PROVE  [/\ signals \subseteq signals'
              /\ \A x, y \in signals' : Key(x) = Key(y) => x = y]_vars
  BY <1>1, <1>2 DEF IInv, OutboxInv, KeysHold, UniqueKeys
<1> QED BY <1>2, Invariance, PTL DEF RulesSpec, EvidenceImmutable

\* Alerts about overlapping times are windows of one idle time, the later ones the tail's,
\* though the tail and the outbox look at a session independently.
THEOREM WindowsAlertedOnce == RulesSpec => []OneAlertPerWindow
<1>1. ASSUME FullInv, NEW x \in signals, NEW y \in signals, x.rule = "IDLE", y.rule = "IDLE",
             x # y, x.session = y.session, InOrder(x.session), Overlap(x, y)
      PROVE  x.from = y.from /\ x.of # y.of /\ (x.of > 1 => x.closing = 0)
  <2> DEFINE s == x.session
  <2>1. /\ s \in Sessions /\ TypeOK /\ EventsNumbered /\ InOrder(s) /\ UniqueKeys(signals)
        /\ \A z \in signals : z.rule = "IDLE" /\ z.session = s =>
             IF z.closing = 0 THEN TailTrue(z) ELSE GapTrue(z)
    BY <1>1 DEF FullInv, IInv, OutboxInv, KeysHold, EvidenceHolds, True, GapsHold
  <2>2. ASSUME NEW z \in signals, z.rule = "IDLE", z.session = s
        PROVE  /\ z.from \in Nat /\ z.to \in Nat
               /\ z.from = 0 \/ \E e \in Meaningful(s) : e.at = z.from
               /\ \A e \in Meaningful(s) : e.at <= z.from \/ z.to <= e.at
               /\ z.closing # 0 => z.of = 1
    <3>1. CASE z.closing = 0
      BY <2>1, <2>2, <3>1 DEF TailTrue
    <3>2. CASE z.closing # 0
      <4> DEFINE n == z.closing
                 e == EventOf(s, n)
                 p == Predecessor(s, n)
      <4>1. z \in ClosedGap(s, n) /\ n \in Numbers(s)
        BY <2>1, <2>2, <3>2 DEF GapTrue, Complete
      <4>2. z.from = p.at /\ z.to = e.at /\ z.of = 1
        BY <4>1 DEF ClosedGap
      <4>3. e \in trace[s] /\ e.n = n /\ n \in Nat
        BY <2>1, <4>1, EventFacts
      <4>4. /\ p = LastBefore(Earlier(s, n)) /\ p.at \in Nat /\ p.n \in Nat /\ e.at \in Nat
        BY <2>1, <4>3, PredecessorFacts DEF TypeOK, Event
      <4> HIDE DEF e, p, n
      <4>5. \/ p.at = 0 /\ Earlier(s, n) = {}
            \/ p \in Earlier(s, n) /\ \A f \in Earlier(s, n) : f.n <= p.n
        <5>1. CASE Earlier(s, n) = {}
          BY <4>4, <5>1 DEF LastBefore
        <5>2. CASE Earlier(s, n) # {}
          <6>1. \E f \in Earlier(s, n) : \A g \in Earlier(s, n) : g.n <= f.n
            <7> DEFINE N == {f.n : f \in Earlier(s, n)}
            <7>1. N \in SUBSET Nat /\ N # {} /\ \A i \in N : i <= n
              BY <2>1, <4>3, <5>2 DEF Earlier, Meaningful, TypeOK, Event
            <7>2. PICK m \in N : \A i \in N : i <= m
              BY <4>3, <7>1, NatMax
            <7> QED BY <7>2
          <6> QED BY <4>4, <5>2, <6>1 DEF LastBefore
        <5> QED BY <5>1, <5>2
      <4>6. ASSUME NEW f \in Meaningful(s)
            PROVE  f.at <= p.at \/ e.at <= f.at
        <5>1. f \in trace[s] /\ f.n \in Nat /\ f.at \in Nat
          BY <2>1 DEF Meaningful, TypeOK, Event
        <5>2. CASE f.n < n
          <6>1. p \in Earlier(s, n) /\ f.n <= p.n /\ p \in trace[s]
            BY <4>5, <5>2 DEF Earlier, Meaningful
          <6>2. f.n = p.n => f = p
            BY <2>1, <5>1, <6>1 DEF EventsNumbered
          <6>3. f.n < p.n => f.at <= p.at
            BY <2>1, <5>1, <6>1 DEF InOrder
          <6> QED BY <4>4, <5>1, <6>1, <6>2, <6>3
        <5>3. CASE f.n = n
          BY <2>1, <4>3, <4>4, <5>1, <5>3 DEF EventsNumbered
        <5>4. CASE n < f.n
          BY <2>1, <4>3, <5>1, <5>4 DEF InOrder
        <5> QED BY <4>3, <5>1, <5>2, <5>3, <5>4
      <4>7. p.at = 0 \/ \E f \in Meaningful(s) : f.at = p.at
        BY <4>5 DEF Earlier
      <4> QED BY <4>2, <4>4, <4>6, <4>7
    <3> QED BY <3>1, <3>2
  <2>3. x.session = s /\ y.session = s
    BY <1>1
  <2> HIDE DEF s
  <2>4. x.from \in Nat /\ y.from \in Nat /\ ~(x.to <= y.from \/ y.to <= x.from)
    BY <1>1, <2>2, <2>3 DEF Overlap
  <2>5. ~(x.from < y.from)
    <3> SUFFICES ASSUME x.from < y.from  PROVE FALSE
      OBVIOUS
    <3>1. PICK e \in Meaningful(s) : e.at = y.from
      BY <1>1, <2>2, <2>3, <2>4
    <3>2. e.at <= x.from \/ x.to <= e.at
      BY <1>1, <2>2, <2>3
    <3> QED BY <2>4, <3>1, <3>2
  <2>6. ~(y.from < x.from)
    <3> SUFFICES ASSUME y.from < x.from  PROVE FALSE
      OBVIOUS
    <3>1. PICK e \in Meaningful(s) : e.at = x.from
      BY <1>1, <2>2, <2>3, <2>4
    <3>2. e.at <= y.from \/ y.to <= e.at
      BY <1>1, <2>2, <2>3
    <3> QED BY <2>4, <3>1, <3>2
  <2>7. x.from = y.from
    BY <2>4, <2>5, <2>6
  <2>8. x.of # y.of
    <3>1. x.from = y.from /\ x.of = y.of => Key(x) = Key(y)
      BY <1>1 DEF Key
    <3> QED BY <1>1, <2>1, <2>7, <3>1 DEF UniqueKeys
  <2>9. x.of > 1 => x.closing = 0
    BY <1>1, <2>2, <2>3
  <2> QED BY <2>7, <2>8, <2>9
<1>2. FullInv => OneAlertPerWindow
  BY <1>1, Zenon DEF OneAlertPerWindow
<1> QED BY <1>2, FullInvariance, PTL

\* What the teacher is told of a student's runs, code and first edit remains true.
THEOREM SignalsAreTrue == RulesSpec => []EvidenceIsTrue
<1>1. ASSUME FullInv, NEW x \in signals
      PROVE  /\ x.rule = "FAILURE" =>
                  /\ x.runs = x.of - MinAttempts + 1 .. x.of
                  /\ SimilarCode(x.session, x.runs)
                  /\ FailedAlike(x.session, {i \in x.runs : ~runs[x.session][i].changed})
             /\ x.rule = "LINES" =>
                  /\ x.lines = snaps[x.session][x.of]
                  /\ PossibleMedian(x.session, x.median)
                  /\ 2 * x.lines > Multiplier * x.median
             /\ x.rule = "FAST" =>
                  \/ \E e \in FirstEdit(x.session) : e.n = x.of
                  \/ \E e, f \in Edits(x.session) : e.n < f.n /\ e.at >= f.at
  <2>1. True(x) /\ x.session \in Sessions /\ TypeOK
    BY <1>1 DEF FullInv, EvidenceHolds, True, IInv, OutboxInv
  <2>2. x.rule = "FAILURE" => FailureTrue(x)
    BY <2>1 DEF True
  <2>3. x.rule = "LINES" => LinesTrue(x)
    BY <2>1 DEF True
  <2>4. x.rule = "FAST" => \/ \E e \in FirstEdit(x.session) : e.n = x.of
                           \/ \E e, f \in Edits(x.session) : e.n < f.n /\ e.at >= f.at
    <3>1. \A e \in Edits(x.session) : e.n \in Nat /\ e.at \in Nat
      BY <2>1 DEF Edits, TypeOK, Event
    <3> QED BY <2>1, <3>1 DEF True, FastTrue
  <2> QED BY <2>2, <2>3, <2>4 DEF FailureTrue, LinesTrue
<1>2. FullInv => EvidenceIsTrue
  BY <1>1 DEF EvidenceIsTrue
<1> QED BY <1>2, FullInvariance, PTL
=============================================================================

--------------------------- MODULE ClassroomProofs --------------------------
(***************************************************************************)
(* Proofs about the set-up of problems, classes and exams and about the    *)
(* grading of a submission, for every set of requests, test cases, weights *)
(* and scenes to start from.                                               *)
(*                                                                         *)
(* Three parts.  The sum of the weights of a sequence, which is a fold,    *)
(* is led back to the recursive function behind it: that it exists, has    *)
(* one value and may take its places in any order is shown by a smallest   *)
(* counterexample.  RowsInv says what an exam that students take keeps,    *)
(* with one lemma per service on what its writes can change (WriteEffect). *)
(* JobInv follows the grading case by case: after k cases the passed and   *)
(* the failed ones weigh what the first k do (Ran).                        *)
(***************************************************************************)
EXTENDS Classroom, FiniteSetTheorems, WellFoundedInduction, TLAPS

-----------------------------------------------------------------------------
(* The sum of weights.  It is a fold over the set of places of a sequence, *)
(* which takes them one by one in an order that is not known.              *)

\* The place that a fold over a set of places takes next, the sum over the places in S,
\* and the function of the partial sums that is behind it.
First(t) == CHOOSE x \in t : TRUE
WeightIn(s, S) == MapThenSumSet(LAMBDA i : s[i].weight, S)
IsSum(s, S, h) ==
    h = [t \in SUBSET S |-> IF t = {} THEN 0 ELSE s[First(t)].weight + h[t \ {First(t)}]]
SumOf(s, S) == CHOOSE h : IsSum(s, S, h)

\* The fold is the recursive function over the subsets.
LEMMA WeightInDef ==
  ASSUME NEW s, NEW S
  PROVE  WeightIn(s, S) = SumOf(s, S)[S]
BY DEF WeightIn, MapThenSumSet, MapThenFoldSet, IsSum, SumOf, First

\* The weight of a sequence is the sum over its places.
LEMMA WeightOfDef ==
  ASSUME NEW s
  PROVE  WeightOf(s) = WeightIn(s, DOMAIN s)
BY DEF WeightIn, WeightOf

\* Every set of finite sets has a minimal one.
LEMMA MinimalSubset ==
  ASSUME NEW S, IsFiniteSet(S), NEW F, F \subseteq SUBSET S, F # {}
  PROVE  \E t \in F : \A u \in SUBSET t : u # t => u \notin F
<1>1. IsWellFoundedOn(StrictSubsetOrdering(S), SUBSET S)
  BY FS_StrictSubsetOrderingWellFounded, FS_FiniteSubsetsOfFinite, Zenon
<1>2. PICK t \in F : \A u \in F : ~(<<u, t>> \in StrictSubsetOrdering(S))
  BY <1>1, WFMin, Zenon
<1>3. ASSUME NEW u \in SUBSET t, u # t, u \in F
      PROVE  FALSE
  <2>1. <<u, t>> \in StrictSubsetOrdering(S)
    BY <1>3, Zenon DEF StrictSubsetOrdering
  <2> QED BY <1>2, <1>3, <2>1
<1> QED BY <1>3

\* The place that is taken out next is one of the set.
LEMMA FirstIn ==
  ASSUME NEW t, t # {}
  PROVE  First(t) \in t
BY DEF First

\* The partial sums depend only on the weights that are added.
LEMMA SumsAgree ==
  ASSUME NEW s, NEW u, NEW S, NEW U, NEW h, NEW k, IsSum(s, S, h), IsSum(u, U, k),
         NEW T, IsFiniteSet(T), T \subseteq S, T \subseteq U,
         \A i \in T : s[i].weight = u[i].weight
  PROVE  h[T] = k[T]
<1>1. SUFFICES ASSUME h[T] # k[T] PROVE FALSE
  OBVIOUS
<1> DEFINE F == {t \in SUBSET T : h[t] # k[t]}
<1>2. PICK t \in F : \A v \in SUBSET t : v # t => v \notin F
  <2>1. F \subseteq SUBSET T /\ F # {}
    BY <1>1
  <2> HIDE DEF F
  <2> QED BY <2>1, MinimalSubset
<1>3. /\ h[t] = IF t = {} THEN 0 ELSE s[First(t)].weight + h[t \ {First(t)}]
      /\ k[t] = IF t = {} THEN 0 ELSE u[First(t)].weight + k[t \ {First(t)}]
  BY <1>2 DEF IsSum
<1>4. t # {}
  BY <1>2, <1>3
<1>5. First(t) \in t /\ t \in SUBSET T
  BY <1>2, <1>4, FirstIn
<1>6. h[t \ {First(t)}] = k[t \ {First(t)}]
  BY <1>2, <1>5
<1>7. h[t] = k[t]
  BY <1>3, <1>4, <1>5, <1>6
<1> QED BY <1>2, <1>7

\* The partial sums exist.
LEMMA SumExists ==
  ASSUME NEW s, NEW S, IsFiniteSet(S)
  PROVE  IsSum(s, S, SumOf(s, S))
<1>1. SUFFICES ASSUME ~\E h : IsSum(s, S, h) PROVE FALSE
  BY DEF SumOf
<1> DEFINE F == {t \in SUBSET S : ~\E h : IsSum(s, t, h)}
<1>2. PICK T \in F : \A v \in SUBSET T : v # T => v \notin F
  <2>1. F \subseteq SUBSET S /\ F # {}
    BY <1>1
  <2> HIDE DEF F
  <2> QED BY <2>1, MinimalSubset
<1>3. \A t \in SUBSET T : t # T => IsSum(s, t, SumOf(s, t))
  BY <1>2 DEF SumOf
<1> DEFINE Rest(t) == t \ {First(t)}
           V(t) == IF t = {} THEN 0 ELSE s[First(t)].weight + SumOf(s, Rest(t))[Rest(t)]
           h == [t \in SUBSET T |-> V(t)]
<1>4. \A t \in SUBSET T : t # {} => Rest(t) \in SUBSET T /\ Rest(t) # T
  BY FirstIn
<1>5. ASSUME NEW t \in SUBSET T, t # {}
      PROVE  h[Rest(t)] = SumOf(s, Rest(t))[Rest(t)]
  <2> DEFINE r == Rest(t)
  <2>1. r \in SUBSET T /\ r # T
    BY <1>4, <1>5
  <2> HIDE DEF r
  <2>2. IsSum(s, r, SumOf(s, r))
    BY <1>3, <2>1
  <2>3. SumOf(s, r)[r] = IF r = {} THEN 0 ELSE s[First(r)].weight + SumOf(s, r)[r \ {First(r)}]
    BY <2>2 DEF IsSum
  <2>4. h[r] = V(r)
    BY <2>1
  <2>5. ASSUME r = {}
        PROVE  h[r] = SumOf(s, r)[r]
    BY <2>3, <2>4, <2>5
  <2>6. ASSUME r # {}
        PROVE  h[r] = SumOf(s, r)[r]
    <3>1. Rest(r) \in SUBSET r /\ Rest(r) \in SUBSET T /\ Rest(r) # T
      BY <2>1
    <3>2. IsSum(s, Rest(r), SumOf(s, Rest(r)))
      BY <1>3, <3>1
    <3>3. IsFiniteSet(Rest(r))
      BY <1>2, <3>1, FS_Subset
    <3>4. SumOf(s, r)[Rest(r)] = SumOf(s, Rest(r))[Rest(r)]
      BY <2>2, <3>1, <3>2, <3>3, SumsAgree
    <3> HIDE DEF h
    <3> QED BY <2>3, <2>4, <2>6, <3>4
  <2> QED BY <2>5, <2>6 DEF r
<1>6. h = [t \in SUBSET T |-> IF t = {} THEN 0 ELSE s[First(t)].weight + h[t \ {First(t)}]]
  <2>1. \A t \in SUBSET T : V(t) = IF t = {} THEN 0 ELSE s[First(t)].weight + h[Rest(t)]
    <3> HIDE DEF h
    <3> QED BY <1>5
  <2> HIDE DEF V
  <2>2. \A t \in SUBSET T : V(t) = IF t = {} THEN 0 ELSE s[First(t)].weight + h[t \ {First(t)}]
    <3> HIDE DEF h
    <3> QED BY <2>1
  <2> QED BY <2>2
<1>7. IsSum(s, T, h)
  <2> HIDE DEF h
  <2> QED BY <1>6 DEF IsSum
<1> QED BY <1>2, <1>7

\* The sum over a set, from the sum over less.
LEMMA SumStep ==
  ASSUME NEW s, NEW S, IsFiniteSet(S)
  PROVE  /\ S = {} => WeightIn(s, S) = 0
         /\ S # {} => WeightIn(s, S) = s[First(S)].weight + WeightIn(s, S \ {First(S)})
<1> DEFINE h == SumOf(s, S)
<1>1. IsSum(s, S, h)
  BY SumExists
<1>2. h[S] = IF S = {} THEN 0 ELSE s[First(S)].weight + h[S \ {First(S)}]
  BY <1>1 DEF IsSum
<1>3. ASSUME S # {}
      PROVE  h[S \ {First(S)}] = WeightIn(s, S \ {First(S)})
  <2> DEFINE T == S \ {First(S)}
  <2>1. IsFiniteSet(T) /\ T \subseteq S
    BY FS_Subset
  <2>2. IsSum(s, T, SumOf(s, T))
    BY <2>1, SumExists
  <2> HIDE DEF T, h
  <2>3. h[T] = SumOf(s, T)[T]
    BY <1>1, <2>1, <2>2, SumsAgree
  <2> QED BY <2>3, WeightInDef DEF T
<1> QED BY <1>2, <1>3, WeightInDef

\* The sum over a set depends only on the weights at its places.
LEMMA SumAgree ==
  ASSUME NEW s, NEW u, NEW T, IsFiniteSet(T), \A i \in T : s[i].weight = u[i].weight
  PROVE  WeightIn(s, T) = WeightIn(u, T)
<1>1. IsSum(s, T, SumOf(s, T)) /\ IsSum(u, T, SumOf(u, T))
  BY SumExists
<1> QED BY <1>1, SumsAgree, WeightInDef

\* Every place in S has a weight.
Weighted(s, S) == \A i \in S : s[i].weight \in Nat

\* A sum of natural numbers is one.
LEMMA SumType ==
  ASSUME NEW s, NEW S, IsFiniteSet(S), Weighted(s, S)
  PROVE  WeightIn(s, S) \in Nat
<1>1. SUFFICES ASSUME WeightIn(s, S) \notin Nat PROVE FALSE
  OBVIOUS
<1> DEFINE F == {t \in SUBSET S : WeightIn(s, t) \notin Nat}
<1>2. PICK t \in F : \A v \in SUBSET t : v # t => v \notin F
  <2>1. F \subseteq SUBSET S /\ F # {}
    BY <1>1
  <2> HIDE DEF F
  <2> QED BY <2>1, MinimalSubset
<1>3. IsFiniteSet(t) /\ t \in SUBSET S
  BY <1>2, FS_Subset
<1>4. t # {} /\ WeightIn(s, t) = s[First(t)].weight + WeightIn(s, t \ {First(t)})
  BY <1>2, <1>3, SumStep
<1>5. First(t) \in t
  BY <1>4, FirstIn
<1>6. WeightIn(s, t \ {First(t)}) \in Nat
  BY <1>2, <1>3, <1>5
<1>7. s[First(t)].weight \in Nat
  BY <1>3, <1>5 DEF Weighted
<1>8. WeightIn(s, t) \in Nat
  BY <1>4, <1>6, <1>7
<1> QED BY <1>2, <1>8

\* Whichever place is taken out first.
LEMMA SumOut ==
  ASSUME NEW s, NEW S, IsFiniteSet(S), Weighted(s, S), NEW x \in S
  PROVE  WeightIn(s, S) = s[x].weight + WeightIn(s, S \ {x})
<1> DEFINE W(t) == WeightIn(s, t)
           Fails(t) == \E y \in t : W(t) # s[y].weight + W(t \ {y})
           F == {t \in SUBSET S : Fails(t)}
<1>1. SUFFICES ASSUME F # {} PROVE FALSE
  OBVIOUS
<1>2. PICK t \in F : \A v \in SUBSET t : v # t => v \notin F
  <2>1. F \subseteq SUBSET S /\ F # {}
    BY <1>1
  <2> HIDE DEF F
  <2> QED BY <2>1, MinimalSubset
<1>3. PICK y \in t : W(t) # s[y].weight + W(t \ {y})
  BY <1>2
<1> DEFINE z == First(t)
<1>4. /\ t \in SUBSET S /\ z \in t
      /\ IsFiniteSet(t) /\ IsFiniteSet(t \ {y}) /\ IsFiniteSet(t \ {z})
      /\ IsFiniteSet((t \ {y}) \ {z})
  BY <1>2, <1>3, FirstIn, FS_Subset
<1>5. W(t) = s[z].weight + W(t \ {z})
  BY <1>3, <1>4, SumStep
<1>6. y # z
  BY <1>3, <1>5
<1>7. W(t \ {z}) = s[y].weight + W((t \ {z}) \ {y})
  <2>1. t \ {z} \notin F /\ t \ {z} \in SUBSET S
    BY <1>2, <1>4
  <2> QED BY <1>3, <1>6, <2>1
<1>8. W(t \ {y}) = s[z].weight + W((t \ {y}) \ {z})
  <2>1. t \ {y} \notin F /\ t \ {y} \in SUBSET S
    BY <1>2, <1>3, <1>4
  <2> QED BY <1>4, <1>6, <2>1
<1>9. (t \ {z}) \ {y} = (t \ {y}) \ {z}
  OBVIOUS
<1>10. /\ s[y].weight \in Nat /\ s[z].weight \in Nat /\ W((t \ {y}) \ {z}) \in Nat
  <2>1. Weighted(s, (t \ {y}) \ {z})
    BY <1>4 DEF Weighted
  <2>2. W((t \ {y}) \ {z}) \in Nat
    BY <1>4, <2>1, SumType
  <2> QED BY <1>3, <1>4, <2>2 DEF Weighted
<1>11. W(t) = s[y].weight + W(t \ {y})
  <2>1. \A a, b, c \in Nat : a + (b + c) = b + (a + c)
    OBVIOUS
  <2> HIDE DEF W, z
  <2>2. W(t) = s[z].weight + (s[y].weight + W((t \ {y}) \ {z}))
    BY <1>5, <1>7, <1>9, Zenon
  <2>3. s[z].weight + (s[y].weight + W((t \ {y}) \ {z}))
        = s[y].weight + (s[z].weight + W((t \ {y}) \ {z}))
    BY <1>10, <2>1
  <2> QED BY <1>8, <2>2, <2>3, Zenon
<1> QED BY <1>3, <1>11

\* A sum of nothing but zeros.
LEMMA SumZero ==
  ASSUME NEW s, NEW S, IsFiniteSet(S), Weighted(s, S)
  PROVE  WeightIn(s, S) = 0 <=> \A i \in S : s[i].weight = 0
<1>1. ASSUME NEW i \in S, WeightIn(s, S) = 0
      PROVE  s[i].weight = 0
  <2>1. WeightIn(s, S) = s[i].weight + WeightIn(s, S \ {i})
    BY SumOut
  <2>2. IsFiniteSet(S \ {i}) /\ Weighted(s, S \ {i})
    BY FS_Subset DEF Weighted
  <2>3. WeightIn(s, S \ {i}) \in Nat /\ s[i].weight \in Nat
    BY <2>2, SumType DEF Weighted
  <2> QED BY <1>1, <2>1, <2>3
<1>2. ASSUME \A i \in S : s[i].weight = 0, WeightIn(s, S) # 0
      PROVE  FALSE
  <2> DEFINE F == {t \in SUBSET S : WeightIn(s, t) # 0}
  <2>1. PICK t \in F : \A v \in SUBSET t : v # t => v \notin F
    <3>1. F \subseteq SUBSET S /\ F # {}
      BY <1>2
    <3> HIDE DEF F
    <3> QED BY <3>1, MinimalSubset
  <2>2. IsFiniteSet(t) /\ t \in SUBSET S
    BY <2>1, FS_Subset
  <2>3. t # {} /\ WeightIn(s, t) = s[First(t)].weight + WeightIn(s, t \ {First(t)})
    BY <2>1, <2>2, SumStep
  <2>4. First(t) \in t
    BY <2>3, FirstIn
  <2>5. WeightIn(s, t \ {First(t)}) = 0
    BY <2>1, <2>2, <2>4
  <2>6. WeightIn(s, t) = 0
    BY <1>2, <2>2, <2>3, <2>4, <2>5
  <2> QED BY <2>1, <2>6
<1> QED BY <1>1, <1>2

-----------------------------------------------------------------------------
(* The weight of a sequence of test cases.                                 *)

\* A sequence of test cases has finitely many places, each with a weight.
LEMMA PlacesFinite ==
  ASSUME NEW s \in Seq(AnyCase)
  PROVE  DOMAIN s = 1 .. Len(s) /\ IsFiniteSet(DOMAIN s) /\ Weighted(s, DOMAIN s)
<1>1. DOMAIN s = 1 .. Len(s) /\ Len(s) \in Nat
  OBVIOUS
<1>2. IsFiniteSet(1 .. Len(s))
  BY <1>1, FS_Interval
<1>3. \A i \in DOMAIN s : s[i] \in AnyCase
  OBVIOUS
<1> QED BY <1>1, <1>2, <1>3 DEF Weighted, AnyCase

\* Test cases weigh a natural number,
LEMMA WeightIsNat ==
  ASSUME NEW s \in Seq(AnyCase)
  PROVE  WeightOf(s) \in Nat
BY PlacesFinite, SumType, WeightOfDef

\* none weigh nothing,
LEMMA WeightOfNone == WeightOf(<<>>) = 0
<1>1. DOMAIN <<>> = {}
  OBVIOUS
<1> QED BY <1>1, FS_EmptySet, SumStep, WeightOfDef

\* only cases without weight weigh nothing together,
LEMMA WeightIsZero ==
  ASSUME NEW s \in Seq(AnyCase)
  PROVE  WeightOf(s) = 0 <=> \A i \in DOMAIN s : s[i].weight = 0
BY PlacesFinite, SumZero, WeightOfDef

\* and one case more adds its weight.
LEMMA WeightOfAppend ==
  ASSUME NEW s \in Seq(AnyCase), NEW c \in AnyCase
  PROVE  WeightOf(Append(s, c)) = WeightOf(s) + c.weight
<1> DEFINE u == Append(s, c)
           n == Len(s)
<1>1. /\ u \in Seq(AnyCase) /\ Len(u) = n + 1 /\ u[n + 1] = c /\ n \in Nat
      /\ \A i \in 1 .. n : u[i] = s[i]
  OBVIOUS
<1>2. DOMAIN u = 1 .. n + 1 /\ IsFiniteSet(DOMAIN u) /\ Weighted(u, DOMAIN u)
  BY <1>1, PlacesFinite
<1>3. DOMAIN s = 1 .. n /\ IsFiniteSet(DOMAIN s)
  BY PlacesFinite
<1> HIDE DEF u, n
<1>4. n + 1 \in DOMAIN u /\ DOMAIN u \ {n + 1} = DOMAIN s
  BY <1>1, <1>2, <1>3
<1>5. WeightIn(u, DOMAIN u) = u[n + 1].weight + WeightIn(u, DOMAIN u \ {n + 1})
  BY <1>2, <1>4, SumOut
<1>6. WeightIn(u, DOMAIN s) = WeightIn(s, DOMAIN s)
  BY <1>1, <1>3, SumAgree
<1>7. WeightOf(u) = c.weight + WeightOf(s)
  BY <1>1, <1>4, <1>5, <1>6, WeightOfDef
<1>8. WeightOf(s) \in Nat /\ c.weight \in Nat
  BY WeightIsNat DEF AnyCase
<1> QED BY <1>7, <1>8 DEF u

\* A share of the points: all of them for the whole, none for nothing.
LEMMA ShareOf ==
  ASSUME NEW base \in Nat, NEW a \in Nat, NEW b \in Nat, b # 0, a <= b
  PROVE  /\ (base * a) \div b \in 0 .. base
         /\ a = b => (base * a) \div b = base
         /\ (base * a) \div b = base => a = b \/ base = 0
         /\ a = 0 => (base * a) \div b = 0
<1> DEFINE q == (base * a) \div b
           r == (base * a) % b
<1>1. base \in Nat
  OBVIOUS
<1>2. base * a \in Nat /\ base * a <= base * b
  BY <1>1
<1>3. q \in Int /\ r \in 0 .. b - 1 /\ base * a = b * q + r
  BY <1>2
<1> HIDE DEF q, r
<1>4. 0 <= q
  <2> SUFFICES ASSUME q <= -1 PROVE FALSE
    BY <1>3
  <2>1. b * q <= b * (-1)
    BY <1>3
  <2> QED BY <1>2, <1>3, <2>1
<1>5. q <= base
  <2> SUFFICES ASSUME base + 1 <= q PROVE FALSE
    BY <1>1, <1>3
  <2>1. b * (base + 1) <= b * q
    BY <1>1, <1>3
  <2>2. b * (base + 1) = base * b + b
    BY <1>1
  <2> QED BY <1>1, <1>2, <1>3, <2>1, <2>2
<1>6. a = b => q = base
  <2> SUFFICES ASSUME a = b, q <= base - 1 PROVE FALSE
    BY <1>1, <1>3, <1>5
  <2>1. b * q <= b * (base - 1)
    BY <1>1, <1>3
  <2>2. b * (base - 1) = base * b - b
    BY <1>1
  <2> QED BY <1>1, <1>2, <1>3, <2>1, <2>2
<1>7. q = base => a = b \/ base = 0
  <2> SUFFICES ASSUME q = base, base # 0, a + 1 <= b PROVE FALSE
    OBVIOUS
  <2>1. base * (a + 1) <= base * b
    BY <1>1
  <2>2. base * (a + 1) = base * a + base /\ b * base = base * b
    BY <1>1
  <2> QED BY <1>1, <1>2, <1>3, <2>1, <2>2
<1>8. a = 0 => q = 0
  <2> SUFFICES ASSUME a = 0, 1 <= q PROVE FALSE
    BY <1>3, <1>4
  <2>1. b * 1 <= b * q
    BY <1>3
  <2> QED BY <1>1, <1>3, <2>1
<1> QED BY <1>1, <1>3, <1>4, <1>5, <1>6, <1>7, <1>8 DEF q

-----------------------------------------------------------------------------
(* The rows of the class, the problem and the exam.                        *)

\* Rows are what the tables can hold.
RowsTypeOK ==
    /\ db \in Rows /\ IsFiniteSet(db.cases)
    /\ req = [x \in Requests |-> req[x]]
    /\ raced \in BOOLEAN

\* What the checks said of a request's own data.
RequestsHold ==
    \A x \in Requests :
        /\ req[x].op \in {"createCase", "updateCase"} => req[x].row \in AnyCase
        /\ req[x].op = "updateProblem" => req[x].arg \in Visibility

\* As long as nobody raced: nothing was graded before the exam was published, until it is
\* ended it has the test cases that its submissions were graded with, and those were all the
\* same.
GradedBy ==
    ~raced => /\ db.status = "DRAFT" => graded = {}
              /\ db.status \in {"SCHEDULED", "ONGOING"} => graded \subseteq {db.cases}
              /\ \E C : graded \subseteq {C}

\* The inductive invariant of the rows.
RowsInv == RowsTypeOK /\ RequestsHold /\ ExamStaysReady /\ GradedBy

\* What becomes of the rows: either a request raced, or the exam is being published with
\* all that it needs, or it is where it was and, if it is frozen, what it needs is too.
Keeps ==
    /\ db'.status = db.status
    /\ db.status \in {"SCHEDULED", "ONGOING"} =>
         /\ db'.assigned = db.assigned /\ db'.attached = db.attached
         /\ db.attached => db'.cases = db.cases
Publishes ==
    /\ db.status = "DRAFT" /\ db'.status = "SCHEDULED"
    /\ Ready(db')
WriteEffect ==
    /\ db' \in Rows /\ IsFiniteSet(db'.cases)
    /\ raced' \in BOOLEAN
    /\ raced => raced'
    /\ raced' \/ Keeps \/ Publishes

\* Every scene satisfies the invariant of the rows,
LEMMA InitRowsInv == Init => RowsInv
<1> SUFFICES ASSUME Init PROVE RowsInv
  OBVIOUS
<1>1. PICK s \in Scenes : db = s.db /\ req = [x \in Requests |-> Idle] /\ graded = {} /\ raced = FALSE
  BY DEF Init
<1>2. db \in Rows /\ IsFiniteSet(db.cases)
      /\ (db.status \in {"SCHEDULED", "ONGOING"} => Ready(db))
  BY <1>1, ScenesAssumption
<1>4. RowsTypeOK /\ RequestsHold
  BY <1>1, <1>2 DEF RowsTypeOK, RequestsHold, Idle
<1> QED BY <1>1, <1>2, <1>4 DEF RowsInv, ExamStaysReady, GradedBy

\* Test cases change only while the problem is not frozen.
LEMMA CasesWrite ==
  ASSUME RowsInv, NEW x \in Requests, CreateCase(x) \/ UpdateCase(x) \/ DeleteCase(x)
  PROVE  WriteEffect
<1> USE DEF RowsInv, RowsTypeOK
<1>1. \A C \in SUBSET AnyCase : [db EXCEPT !.cases = C] \in Rows
  BY DEF Rows
<1>2. CASE CreateCase(x)
  <2> DEFINE c == req[x].row
  <2>1. c \in AnyCase
    BY <1>2 DEF CreateCase, Commits, RequestsHold
  <2>2. db.cases \union {c} \in SUBSET AnyCase /\ IsFiniteSet(db.cases \union {c})
    BY <2>1, FS_AddElement DEF Rows
  <2>3. \/ db' = db
        \/ /\ db' = [db EXCEPT !.cases = db.cases \union {c}]
           /\ raced' = (raced \/ (db' # db /\ ~MayCreateCase(c)))
    BY <1>2 DEF CreateCase, Commits
  <2>4. raced' \in BOOLEAN /\ (raced => raced')
    BY <1>2 DEF CreateCase, Commits
  <2>5. CASE db' = db
    BY <2>4, <2>5 DEF WriteEffect, Keeps
  <2>6. CASE db' # db
    <3>1. db' \in Rows /\ db'.cases = db.cases \union {c}
          /\ db'.status = db.status /\ db'.assigned = db.assigned /\ db'.attached = db.attached
      BY <1>1, <2>2, <2>3, <2>6 DEF Rows
    <3>2. ~raced' => Mutable
      BY <2>3, <2>6 DEF MayCreateCase
    <3>3. raced' \/ Keeps
      BY <3>1, <3>2 DEF Keeps, Mutable, Frozen
    <3> QED BY <2>2, <2>4, <3>1, <3>3 DEF WriteEffect
  <2> QED BY <2>5, <2>6
<1>3. CASE UpdateCase(x)
  <2> DEFINE new == req[x].row
             D == {IF c.order = new.order THEN new ELSE c : c \in db.cases}
  <2>1. new \in AnyCase
    BY <1>3 DEF UpdateCase, Commits, RequestsHold
  <2>2. D \in SUBSET AnyCase /\ IsFiniteSet(D)
    <3>1. D \in SUBSET AnyCase
      BY <2>1 DEF Rows
    <3>2. D \subseteq db.cases \union {new}
      OBVIOUS
    <3>3. IsFiniteSet(db.cases \union {new})
      BY FS_AddElement
    <3> QED BY <3>1, <3>2, <3>3, FS_Subset
  <2>3. /\ db' = [db EXCEPT !.cases = D]
        /\ raced' = (raced \/ (db' # db /\ ~MayUpdateCase(new)))
    BY <1>3 DEF UpdateCase, Commits
  <2> HIDE DEF D
  <2>4. raced' \in BOOLEAN /\ (raced => raced')
    BY <1>3 DEF UpdateCase, Commits
  <2>5. CASE db' = db
    BY <2>4, <2>5 DEF WriteEffect, Keeps
  <2>6. CASE db' # db
    <3>1. db' \in Rows /\ db'.cases = D
          /\ db'.status = db.status /\ db'.assigned = db.assigned /\ db'.attached = db.attached
      BY <1>1, <2>2, <2>3, <2>6 DEF Rows
    <3>2. ~raced' => Mutable
      BY <2>3, <2>6 DEF MayUpdateCase
    <3>3. raced' \/ Keeps
      BY <3>1, <3>2 DEF Keeps, Mutable, Frozen
    <3> QED BY <2>2, <2>4, <3>1, <3>3 DEF WriteEffect
  <2> QED BY <2>5, <2>6
<1>4. CASE DeleteCase(x)
  <2> DEFINE n == req[x].row.order
             D == {c \in db.cases : c.order # n}
  <2>1. D \in SUBSET AnyCase /\ IsFiniteSet(D)
    <3>1. D \subseteq db.cases
      OBVIOUS
    <3> QED BY <3>1, FS_Subset DEF Rows
  <2>3. /\ db' = [db EXCEPT !.cases = D]
        /\ raced' = (raced \/ (db' # db /\ ~MayDeleteCase(n)))
    BY <1>4 DEF DeleteCase, Commits
  <2> HIDE DEF D
  <2>4. raced' \in BOOLEAN /\ (raced => raced')
    BY <1>4 DEF DeleteCase, Commits
  <2>5. CASE db' = db
    BY <2>4, <2>5 DEF WriteEffect, Keeps
  <2>6. CASE db' # db
    <3>1. db' \in Rows /\ db'.cases = D
          /\ db'.status = db.status /\ db'.assigned = db.assigned /\ db'.attached = db.attached
      BY <1>1, <2>1, <2>3, <2>6 DEF Rows
    <3>2. ~raced' => Mutable
      BY <2>3, <2>6 DEF MayDeleteCase
    <3>3. raced' \/ Keeps
      BY <3>1, <3>2 DEF Keeps, Mutable, Frozen
    <3> QED BY <2>1, <2>4, <3>1, <3>3 DEF WriteEffect
  <2> QED BY <2>5, <2>6
<1> QED BY <1>2, <1>3, <1>4

\* The problem itself and the class are nothing that an exam needs.
LEMMA OtherWrite ==
  ASSUME RowsInv, NEW x \in Requests,
         \/ UpdateProblem(x) \/ DeleteProblem(x) \/ PublishToClass(x) \/ Unpublish(x)
         \/ EnrollStudent(x) \/ JoinClass(x) \/ RemoveStudent(x) \/ UpdateClass(x) \/ RotateCode(x)
         \/ JoinExam(x) \/ StartPractice(x)
  PROVE  WriteEffect
<1> USE DEF RowsInv, RowsTypeOK
<1>1. raced' \in BOOLEAN /\ (raced => raced')
  BY DEF UpdateProblem, DeleteProblem, PublishToClass, Unpublish, EnrollStudent, JoinClass,
         RemoveStudent, UpdateClass, RotateCode, JoinExam, StartPractice, Commits
<1>2. SUFFICES /\ db' \in Rows /\ db'.cases = db.cases /\ db'.status = db.status
               /\ db'.assigned = db.assigned /\ db'.attached = db.attached
  BY <1>1 DEF WriteEffect, Keeps
<1>3. CASE UpdateProblem(x)
  <2>1. db' = [db EXCEPT !.vis = req[x].arg] /\ req[x].arg \in Visibility
    BY <1>3 DEF UpdateProblem, Commits, RequestsHold
  <2> QED BY <2>1 DEF Rows
<1>4. CASE DeleteProblem(x)
  BY <1>4 DEF DeleteProblem, Commits, Rows
<1>5. CASE PublishToClass(x) \/ Unpublish(x)
  BY <1>5 DEF PublishToClass, Unpublish, Commits, Rows
<1>6. CASE EnrollStudent(x) \/ JoinClass(x) \/ RemoveStudent(x)
  BY <1>6 DEF EnrollStudent, JoinClass, RemoveStudent, Commits, Rows
<1>7. CASE UpdateClass(x)
  <2>1. \E b \in BOOLEAN : db' = [db EXCEPT !.open = b]
    BY <1>7 DEF UpdateClass, Commits
  <2> QED BY <2>1 DEF Rows
<1>8. CASE RotateCode(x)
  BY <1>8 DEF RotateCode, Commits, Rows
<1>9. CASE JoinExam(x)
  BY <1>9 DEF JoinExam, Commits, Rows
<1>10. CASE StartPractice(x)
  <2>1. \E k \in Nat : db' = [db EXCEPT !.attempts = k]
    <3>1. db.attempts \in Nat
      BY DEF Rows
    <3>2. db' = [db EXCEPT !.attempts = db.attempts] \/ db' = [db EXCEPT !.attempts = db.attempts + 1]
      BY <1>10 DEF StartPractice, Commits
    <3>3. db.attempts + 1 \in Nat
      BY <3>1
    <3> QED BY <3>1, <3>2, <3>3
  <2> QED BY <2>1 DEF Rows
<1> QED BY <1>3, <1>4, <1>5, <1>6, <1>7, <1>8, <1>9, <1>10

\* The set-up of the exam changes only in DRAFT, which publish_exam leaves.
LEMMA ExamWrite ==
  ASSUME RowsInv, NEW x \in Requests,
         Attach(x) \/ Detach(x) \/ Assign(x) \/ Unassign(x) \/ PublishExam(x)
  PROVE  WriteEffect
<1> USE DEF RowsInv, RowsTypeOK
<1>1. raced' \in BOOLEAN /\ (raced => raced')
  BY DEF Attach, Detach, Assign, Unassign, PublishExam, Commits
<1>2. CASE ~PublishExam(x)
  <2>1. PICK b \in BOOLEAN : \/ db' = [db EXCEPT !.attached = b]
                             \/ db' = [db EXCEPT !.assigned = b]
    BY <1>2 DEF Attach, Detach, Assign, Unassign, Commits
  <2>2. /\ db' \in Rows /\ db'.cases = db.cases /\ db'.status = db.status
    BY <2>1 DEF Rows
  <2>3. raced' \/ db' = db \/ Editable
    <3>1. Attach(x) => raced' \/ db' = db \/ Editable
      BY DEF Attach, Commits, MayAttach
    <3>2. Detach(x) => raced' \/ db' = db \/ Editable
      BY DEF Detach, Commits, MayDetach
    <3>3. Assign(x) => raced' \/ db' = db \/ Editable
      BY DEF Assign, Commits, MayAssign
    <3>4. Unassign(x) => raced' \/ db' = db \/ Editable
      BY DEF Unassign, Commits, MayUnassign
    <3> QED BY <1>2, <3>1, <3>2, <3>3, <3>4
  <2> QED BY <1>1, <2>2, <2>3 DEF WriteEffect, Keeps, Editable
<1>3. CASE PublishExam(x)
  <2>1. db' = [db EXCEPT !.status = "SCHEDULED"]
    BY <1>3 DEF PublishExam, Commits
  <2>2. /\ db' \in Rows /\ db'.cases = db.cases /\ db'.status = "SCHEDULED"
        /\ db'.assigned = db.assigned /\ db'.attached = db.attached
    BY <2>1 DEF Rows, Statuses
  <2>3. raced' \/ db' = db \/ Publishable
    BY <1>3 DEF PublishExam, Commits
  <2>4. db' = db => Keeps
    BY DEF Keeps
  <2>5. Publishable => Publishes
    BY <2>2 DEF Publishable, Publishes, Ready
  <2> QED BY <1>1, <2>2, <2>3, <2>4, <2>5 DEF WriteEffect
<1> QED BY <1>2, <1>3

\* every write preserves it,
LEMMA WriteRowsInv ==
  ASSUME RowsInv, NEW x \in Requests, Write(x)
  PROVE  RowsInv'
<1>1. WriteEffect
  BY CasesWrite, OtherWrite, ExamWrite DEF Write
<1>2. req' = [req EXCEPT ![x] = Idle] /\ graded' = graded
  BY DEF Write, Commits, CreateCase, UpdateCase, DeleteCase, UpdateProblem, DeleteProblem,
         PublishToClass, Unpublish, EnrollStudent, JoinClass, RemoveStudent, UpdateClass,
         RotateCode, JoinExam, StartPractice, Attach, Detach, Assign, Unassign, PublishExam
<1>4. RowsTypeOK'
  BY <1>1, <1>2 DEF RowsInv, RowsTypeOK, WriteEffect
<1>5. RequestsHold'
  BY <1>2 DEF RowsInv, RowsTypeOK, RequestsHold, Idle
<1>6. ExamStaysReady'
  BY <1>1 DEF RowsInv, ExamStaysReady, WriteEffect, Keeps, Publishes, Ready
<1>7. GradedBy'
  BY <1>1, <1>2 DEF RowsInv, ExamStaysReady, GradedBy, WriteEffect, Keeps, Publishes, Ready
<1> QED BY <1>4, <1>5, <1>6, <1>7 DEF RowsInv

\* What a request carries is what its checks let through.
LEMMA AskRowsInv ==
  ASSUME RowsInv, NEW x \in Requests, Ask(x)
  PROVE  RowsInv'
<1> DEFINE Fits(op, arg, row) ==
             /\ op \in {"createCase", "updateCase"} => row \in AnyCase
             /\ op = "updateProblem" => arg \in Visibility
<1>1. Case \subseteq AnyCase
  BY ClassroomAssumption DEF Case, AnyCase
<1>2. \E op, arg, row : Fits(op, arg, row) /\ Passes(x, op, arg, row)
  <2>1. CASE AskCreateCase(x)
    <3>1. \E c \in Case : Passes(x, "createCase", "", c)
      BY <2>1 DEF AskCreateCase
    <3> QED BY <1>1, <3>1
  <2>2. CASE AskUpdateCase(x)
    <3>1. \E c \in Case : Passes(x, "updateCase", "", c)
      BY <2>2 DEF AskUpdateCase
    <3> QED BY <1>1, <3>1
  <2>3. CASE AskDeleteCase(x)
    <3>1. \E n \in Orders : Passes(x, "deleteCase", "", [NoCase EXCEPT !.order = n])
      BY <2>3 DEF AskDeleteCase
    <3> QED BY <3>1
  <2>4. CASE AskUpdateProblem(x)
    <3>1. \E v \in Visibility : Passes(x, "updateProblem", v, NoCase)
      BY <2>4 DEF AskUpdateProblem
    <3> QED BY <3>1
  <2>5. CASE ~(AskCreateCase(x) \/ AskUpdateCase(x) \/ AskDeleteCase(x) \/ AskUpdateProblem(x))
    <3>1. \E op, arg : /\ op \notin {"createCase", "updateCase", "updateProblem"}
                       /\ Passes(x, op, arg, NoCase)
      <4>1. CASE AskDeleteProblem(x) \/ AskPublishToClass(x) \/ AskUnpublish(x)
        BY <4>1 DEF AskDeleteProblem, AskPublishToClass, AskUnpublish
      <4>2. CASE AskAttach(x) \/ AskDetach(x) \/ AskAssign(x) \/ AskUnassign(x) \/ AskPublishExam(x)
        BY <4>2 DEF AskAttach, AskDetach, AskAssign, AskUnassign, AskPublishExam
      <4>3. CASE AskEnrollStudent(x) \/ AskRemoveStudent(x) \/ AskRotateCode(x) \/ AskJoinExam(x)
        BY <4>3 DEF AskEnrollStudent, AskRemoveStudent, AskRotateCode, AskJoinExam
      <4>4. CASE AskJoinClass(x)
        BY <4>4 DEF AskJoinClass
      <4>5. CASE AskUpdateClass(x)
        BY <4>5 DEF AskUpdateClass
      <4>6. CASE AskStartPractice(x)
        BY <4>6 DEF AskStartPractice
      <4> QED BY <2>5, <4>1, <4>2, <4>3, <4>4, <4>5, <4>6 DEF Ask
    <3> QED BY <3>1
  <2> QED BY <2>1, <2>2, <2>3, <2>4, <2>5
<1>4. PICK op, arg, row : Fits(op, arg, row) /\ Passes(x, op, arg, row)
  BY <1>2
<1>5. /\ req' = [req EXCEPT ![x] = [op |-> op, arg |-> arg, row |-> row]]
      /\ db' = db /\ graded' = graded /\ raced' = raced
  BY <1>4 DEF Passes
<1>6. RowsTypeOK'
  BY <1>5 DEF RowsInv, RowsTypeOK
<1>7. RequestsHold'
  BY <1>4, <1>5 DEF RowsInv, RowsTypeOK, RequestsHold
<1>8. ExamStaysReady' /\ GradedBy'
  BY <1>5 DEF RowsInv, ExamStaysReady, GradedBy
<1> QED BY <1>6, <1>7, <1>8 DEF RowsInv

\* The clock and the scheduler leave what an exam needs alone; the worker grades with it.
LEMMA SystemRowsInv ==
  ASSUME RowsInv, ClockTick \/ SchedulerStarts \/ SchedulerEnds \/ LoadCases \/ Judge
  PROVE  RowsInv'
<1> USE DEF RowsInv, RowsTypeOK
<1>1. req' = req /\ raced' = raced
  BY DEF ClockTick, SchedulerStarts, SchedulerEnds, LoadCases, Judge
<1>2. RequestsHold'
  BY <1>1 DEF RequestsHold
<1>3. CASE ClockTick
  <2>1. \E c \in {"during", "after"} : db' = [db EXCEPT !.clock = c]
    BY <1>3 DEF ClockTick
  <2>2. /\ db' \in Rows /\ db'.cases = db.cases /\ db'.status = db.status
        /\ db'.assigned = db.assigned /\ db'.attached = db.attached
    BY <2>1 DEF Rows
  <2>3. graded' = graded
    BY <1>3 DEF ClockTick
  <2> QED BY <1>1, <1>2, <2>2, <2>3 DEF ExamStaysReady, GradedBy, Ready
<1>4. CASE SchedulerStarts
  <2>1. db' = [db EXCEPT !.status = "ONGOING"] /\ db.status = "SCHEDULED" /\ graded' = graded
    BY <1>4 DEF SchedulerStarts
  <2>2. /\ db' \in Rows /\ db'.cases = db.cases /\ db'.status = "ONGOING"
        /\ db'.assigned = db.assigned /\ db'.attached = db.attached
    BY <2>1 DEF Rows, Statuses
  <2> QED BY <1>1, <1>2, <2>1, <2>2 DEF ExamStaysReady, GradedBy, Ready
<1>5. CASE SchedulerEnds
  <2>1. \E p \in {"none", "IN_PROGRESS", "over"} :
          db' = [db EXCEPT !.status = "ENDED", !.participation = p]
    BY <1>5 DEF SchedulerEnds, Rows
  <2>2. db' \in Rows /\ db'.cases = db.cases /\ db'.status = "ENDED" /\ graded' = graded
    BY <1>5, <2>1 DEF SchedulerEnds, Rows, Statuses
  <2> QED BY <1>1, <1>2, <2>2 DEF ExamStaysReady, GradedBy, Ready
<1>6. CASE LoadCases
  <2>1. /\ db' = db /\ db.status \in {"SCHEDULED", "ONGOING", "ENDED"}
        /\ graded' = IF db.status = "ENDED" THEN graded ELSE graded \union {db.cases}
    BY <1>6 DEF LoadCases
  <2> QED BY <1>1, <1>2, <2>1 DEF ExamStaysReady, GradedBy
<1>7. CASE Judge
  <2>1. db' = db /\ graded' = graded
    BY <1>7 DEF Judge
  <2> QED BY <1>1, <1>2, <2>1 DEF ExamStaysReady, GradedBy
<1> QED BY <1>3, <1>4, <1>5, <1>6, <1>7

\* So it always holds.
LEMMA RowsInvariance == Spec => []RowsInv
<1>1. RowsInv /\ [Next]_vars => RowsInv'
  <2> SUFFICES ASSUME RowsInv, [Next]_vars PROVE RowsInv'
    OBVIOUS
  <2>1. CASE UNCHANGED vars
    BY <2>1 DEF vars, RowsInv, RowsTypeOK, RequestsHold, ExamStaysReady, GradedBy
  <2> QED BY <2>1, AskRowsInv, WriteRowsInv, SystemRowsInv DEF Next
<1> QED BY <1>1, InitRowsInv, PTL DEF Spec

-----------------------------------------------------------------------------
(* The grading.                                                            *)

\* What a case can fail with.
Failures == {"INTERNAL_ERROR", "TIME_LIMIT_EXCEEDED", "OUTPUT_LIMIT_EXCEEDED", "RUNTIME_ERROR",
             "WRONG_ANSWER", "COMPILE_ERROR"}

\* The states of a job.
JobState == [pc : {"idle", "running", "done"}, lang : Languages \union {""}, base : Nat,
             todo : Seq(AnyCase), all : Seq(AnyCase), passed : Seq(AnyCase),
             failed : Seq(AnyCase), first : Failures \union {""}, internal : BOOLEAN,
             verdict : Failures \union {"", "ACCEPTED"}, score : Nat \union {NoScore}]

\* After k cases: those that ran are the first k, each passed or failed, and their
\* weights are nowhere counted twice.
Ran(k) ==
    /\ job.todo = SubSeq(job.all, k + 1, Len(job.all))
    /\ Len(job.passed) + Len(job.failed) = k
    /\ WeightOf(job.passed) + WeightOf(job.failed) = WeightOf(SubSeq(job.all, 1, k))

\* A failure of the compiler leaves nothing passed and nothing to run, a fault of the
\* judge is remembered beyond the first failure.
Consistent ==
    /\ job.first = "" <=> job.failed = <<>>
    /\ job.first = "INTERNAL_ERROR" => job.internal
    /\ job.first = "COMPILE_ERROR" => job.passed = <<>> /\ job.todo = <<>>

\* While a job runs, some number of its cases are done.
GradingHolds ==
    job.pc = "running" => /\ job.all # <<>>
                          /\ \E k \in 0 .. Len(job.all) : Ran(k)
                          /\ Consistent

\* The inductive invariant of the grading.
JobInv == job \in JobState /\ GradingHolds /\ ScoreIsFair

\* An empty sequence is one without elements.
LEMMA LengthFacts ==
  ASSUME NEW s \in Seq(AnyCase)
  PROVE  Len(s) \in Nat /\ (Len(s) = 0 <=> s = <<>>)
OBVIOUS

\* No job has wrong points.
LEMMA InitJobInv == Init => JobInv
<1> SUFFICES ASSUME Init PROVE JobInv
  OBVIOUS
<1>1. job = NoJob
  BY DEF Init
<1>2. <<>> \in Seq(AnyCase)
  OBVIOUS
<1>3. job \in JobState /\ job.pc = "idle"
  BY <1>1, <1>2 DEF NoJob, JobState
<1> QED BY <1>3 DEF JobInv, GradingHolds, ScoreIsFair

\* A job starts with nothing run and all cases to run.
LEMMA LoadJobInv ==
  ASSUME RowsInv, JobInv, LoadCases
  PROVE  JobInv'
<1>1. CASE job' = job
  BY <1>1 DEF JobInv, GradingHolds, ScoreIsFair, Ran, Consistent
<1>2. CASE ~(job' = job)
  <2>1. PICK s \in Ordered(db.cases), lang \in Languages, base \in Bases : StartJob(s, lang, base)
    BY <1>2 DEF LoadCases
  <2>10. base \in Nat
    BY GraderAssumption
  <2>2. IsFiniteSet(db.cases) /\ db.cases # {} /\ db.cases \subseteq AnyCase
    BY DEF LoadCases, RowsInv, RowsTypeOK, Rows
  <2>3. Cardinality(db.cases) \in Nat /\ Cardinality(db.cases) # 0
    BY <2>2, FS_CardinalityType, FS_EmptySet
  <2>4. s \in Seq(AnyCase) /\ s # <<>>
    <3>1. s \in [1 .. Cardinality(db.cases) -> db.cases]
      BY DEF Ordered
    <3> QED BY <2>2, <2>3, <3>1
  <2>5. /\ job'.pc = "running" /\ job'.todo = s /\ job'.all = s /\ job'.passed = <<>>
        /\ job'.failed = <<>> /\ job'.first = "" /\ job'.internal = FALSE
    BY <2>1 DEF StartJob, NoJob
  <2>6. job' \in JobState
    <3>1. <<>> \in Seq(AnyCase)
      OBVIOUS
    <3> QED BY <2>1, <2>4, <2>10, <3>1 DEF StartJob, NoJob, JobState
  <2>7. Ran(0)'
    <3>1. SubSeq(s, 0 + 1, Len(s)) = s /\ SubSeq(s, 1, 0) = <<>> /\ Len(<<>>) = 0
      BY <2>4
    <3>2. job'.todo = SubSeq(job'.all, 0 + 1, Len(job'.all))
      BY <2>5, <3>1
    <3>3. Len(job'.passed) + Len(job'.failed) = 0
      <4>1. Len(job'.passed) = 0 /\ Len(job'.failed) = 0
        BY <2>5, <3>1, Zenon
      <4> QED BY <4>1
    <3>4. WeightOf(job'.passed) + WeightOf(job'.failed) = WeightOf(SubSeq(job'.all, 1, 0))
      <4>1. WeightOf(job'.passed) = 0 /\ WeightOf(job'.failed) = 0
        BY <2>5, WeightOfNone, Zenon
      <4>2. WeightOf(SubSeq(job'.all, 1, 0)) = 0
        BY <2>5, <3>1, WeightOfNone, Zenon
      <4> QED BY <4>1, <4>2
    <3> QED BY <3>2, <3>3, <3>4 DEF Ran
  <2>8. 0 \in 0 .. Len(job'.all)
    <3>1. Len(s) \in Nat
      BY <2>4, LengthFacts
    <3>2. Len(job'.all) = Len(s)
      BY <2>5, Zenon
    <3> QED BY <3>1, <3>2
  <2>9. Consistent'
    BY <2>5 DEF Consistent
  <2> QED BY <2>4, <2>5, <2>6, <2>7, <2>8, <2>9 DEF JobInv, GradingHolds, ScoreIsFair
<1> QED BY <1>1, <1>2

\* What a case can end with, before and after the checks of its output.
LEMMA Verdicts ==
  ASSUME NEW out \in RunOutcomes, NEW compiled \in CompileOutcomes
  PROVE  /\ PythonVerdict(out) \in Failures \union {"ACCEPTED"}
         /\ CppVerdict(compiled, out) \in Failures \union {"ACCEPTED"}
         /\ \A raw \in Failures \union {"ACCEPTED"} :
              /\ CaseVerdict(raw, out) \in Failures \union {"ACCEPTED"}
              /\ raw # "COMPILE_ERROR" => CaseVerdict(raw, out) # "COMPILE_ERROR"
<1>1. LimitVerdict(out) \in Failures \union {"ACCEPTED"}
  BY DEF LimitVerdict, RunOutcomes, Failures
<1>2. PythonVerdict(out) \in Failures \union {"ACCEPTED"}
  BY <1>1 DEF PythonVerdict, Failures
<1>3. CppVerdict(compiled, out) \in Failures \union {"ACCEPTED"}
  BY <1>1 DEF CppVerdict, CompileOutcomes, Failures
<1>4. \A raw \in Failures \union {"ACCEPTED"} :
        /\ CaseVerdict(raw, out) \in Failures \union {"ACCEPTED"}
        /\ raw # "COMPILE_ERROR" => CaseVerdict(raw, out) # "COMPILE_ERROR"
  BY DEF CaseVerdict, Failures
<1> QED BY <1>2, <1>3, <1>4

\* One more case of the list is run, or the compiler stopped the job.
LEMMA RunJobInv ==
  ASSUME JobInv, RunCase
  PROVE  JobInv'
<1> DEFINE n == Len(job.all)
<1>1. /\ job \in JobState /\ job.pc = "running" /\ job.todo # <<>> /\ job.all # <<>> /\ Consistent
      /\ job.all \in Seq(AnyCase) /\ job.todo \in Seq(AnyCase)
      /\ job.passed \in Seq(AnyCase) /\ job.failed \in Seq(AnyCase)
      /\ n \in Nat
  <2>1. job \in JobState /\ job.pc = "running" /\ job.todo # <<>> /\ job.all # <<>> /\ Consistent
    BY DEF JobInv, GradingHolds, RunCase
  <2>2. /\ job.all \in Seq(AnyCase) /\ job.todo \in Seq(AnyCase)
        /\ job.passed \in Seq(AnyCase) /\ job.failed \in Seq(AnyCase)
    BY <2>1 DEF JobState
  <2> QED BY <2>1, <2>2, LengthFacts
<1>2. PICK k \in 0 .. n : Ran(k)
  BY <1>1 DEF JobInv, GradingHolds
<1> HIDE DEF n
<1>3. PICK raw \in Failures \union {"ACCEPTED"}, verdict \in Failures \union {"ACCEPTED"} :
        /\ raw # "COMPILE_ERROR" => verdict # "COMPILE_ERROR"
        /\ job' = IF raw = "COMPILE_ERROR" THEN StopAtCompileError
                  ELSE [job EXCEPT
                          !.todo = Tail(@),
                          !.internal = @ \/ verdict = "INTERNAL_ERROR",
                          !.passed = IF verdict = "ACCEPTED" THEN Append(@, Head(job.todo)) ELSE @,
                          !.failed = IF verdict # "ACCEPTED" THEN Append(@, Head(job.todo)) ELSE @,
                          !.first = IF verdict # "ACCEPTED" /\ @ = "" THEN verdict ELSE @]
  <2>1. PICK out \in RunOutcomes, compiled \in CompileOutcomes :
          LET raw == IF job.lang = "CPP17" THEN CppVerdict(compiled, out) ELSE PythonVerdict(out)
              verdict == CaseVerdict(raw, out)
          IN  job' = IF raw = "COMPILE_ERROR" THEN StopAtCompileError
                     ELSE [job EXCEPT
                          !.todo = Tail(@),
                          !.internal = @ \/ verdict = "INTERNAL_ERROR",
                          !.passed = IF verdict = "ACCEPTED" THEN Append(@, Head(job.todo)) ELSE @,
                          !.failed = IF verdict # "ACCEPTED" THEN Append(@, Head(job.todo)) ELSE @,
                          !.first = IF verdict # "ACCEPTED" /\ @ = "" THEN verdict ELSE @]
    BY DEF RunCase
  <2> DEFINE r == IF job.lang = "CPP17" THEN CppVerdict(compiled, out) ELSE PythonVerdict(out)
             v == CaseVerdict(r, out)
  <2>2. r \in Failures \union {"ACCEPTED"}
    BY Verdicts
  <2>3. v \in Failures \union {"ACCEPTED"} /\ (r # "COMPILE_ERROR" => v # "COMPILE_ERROR")
    BY <2>2, Verdicts
  <2>4. job' = IF r = "COMPILE_ERROR" THEN StopAtCompileError
               ELSE [job EXCEPT
                          !.todo = Tail(@),
                          !.internal = @ \/ v = "INTERNAL_ERROR",
                          !.passed = IF v = "ACCEPTED" THEN Append(@, Head(job.todo)) ELSE @,
                          !.failed = IF v # "ACCEPTED" THEN Append(@, Head(job.todo)) ELSE @,
                          !.first = IF v # "ACCEPTED" /\ @ = "" THEN v ELSE @]
    BY <2>1
  <2> HIDE DEF r, v
  <2> QED BY <2>2, <2>3, <2>4
<1>4. CASE raw = "COMPILE_ERROR"
  <2>1. job' = [job EXCEPT !.todo = <<>>, !.first = "COMPILE_ERROR", !.passed = <<>>,
                           !.failed = job.all]
    BY <1>3, <1>4 DEF StopAtCompileError
  <2>2. <<>> \in Seq(AnyCase) /\ "COMPILE_ERROR" \in Failures
    BY DEF Failures
  <2>3. job' \in JobState
    BY <1>1, <2>1, <2>2 DEF JobState
  <2>4. /\ job'.todo = <<>> /\ job'.first = "COMPILE_ERROR" /\ job'.passed = <<>>
        /\ job'.failed = job.all /\ job'.all = job.all /\ job'.pc = "running"
    BY <1>1, <2>1 DEF JobState
  <2> PICK m \in Nat : m = n
    BY <1>1
  <2>5. Ran(m)'
    <3>1. m = Len(job.all) /\ SubSeq(job.all, m + 1, m) = <<>> /\ SubSeq(job.all, 1, m) = job.all
      BY <1>1 DEF n
    <3>2. job'.todo = SubSeq(job'.all, m + 1, Len(job'.all))
      BY <2>4, <3>1, Zenon
    <3>3. Len(job'.passed) + Len(job'.failed) = m
      <4>1. Len(job'.passed) = 0
        BY <2>4
      <4>2. Len(job'.failed) = m
        BY <2>4, <3>1, Zenon
      <4> QED BY <4>1, <4>2
    <3>4. WeightOf(job'.passed) + WeightOf(job'.failed) = WeightOf(SubSeq(job'.all, 1, m))
      <4>1. WeightOf(job'.passed) = 0
        BY <2>4, WeightOfNone, Zenon
      <4>2. WeightOf(job'.failed) = WeightOf(job.all)
        BY <2>4, Zenon
      <4>3. WeightOf(SubSeq(job'.all, 1, m)) = WeightOf(job.all)
        BY <2>4, <3>1, Zenon
      <4>4. WeightOf(job.all) \in Nat
        BY <1>1, WeightIsNat
      <4> QED BY <4>1, <4>2, <4>3, <4>4
    <3> QED BY <3>2, <3>3, <3>4 DEF Ran
  <2>6. m \in 0 .. Len(job'.all)
    <3>1. Len(job'.all) = m
      BY <2>4, Zenon DEF n
    <3> QED BY <3>1
  <2>7. Consistent'
    BY <1>1, <2>4 DEF Consistent
  <2> QED BY <1>1, <2>3, <2>4, <2>5, <2>6, <2>7 DEF JobInv, GradingHolds, ScoreIsFair
<1>5. CASE raw # "COMPILE_ERROR"
  <2> DEFINE c == Head(job.todo)
             ok == verdict = "ACCEPTED"
  <2>1. c \in AnyCase /\ Tail(job.todo) \in Seq(AnyCase)
    BY <1>1
  <2>2. /\ k + 1 \in 0 .. n /\ k \in Nat /\ c = job.all[k + 1]
        /\ Tail(job.todo) = SubSeq(job.all, k + 1 + 1, n)
    <3>1. job.todo = SubSeq(job.all, k + 1, n) /\ k \in Nat
      BY <1>1, <1>2 DEF Ran, n
    <3>2. Len(job.todo) # 0
      BY <1>1
    <3>3. k + 1 <= n
      BY <1>1, <1>2, <3>1, <3>2 DEF n
    <3> QED BY <1>1, <3>1, <3>3 DEF n
  <2> HIDE DEF c
  <2>3. job' = [job EXCEPT !.todo = Tail(@),
                           !.internal = @ \/ verdict = "INTERNAL_ERROR",
                           !.passed = IF ok THEN Append(@, c) ELSE @,
                           !.failed = IF ok THEN @ ELSE Append(@, c),
                           !.first = IF ~ok /\ @ = "" THEN verdict ELSE @]
    BY <1>3, <1>5 DEF c
  <2>4. /\ job'.todo = Tail(job.todo)
        /\ job'.internal = (job.internal \/ verdict = "INTERNAL_ERROR")
        /\ job'.passed = IF ok THEN Append(job.passed, c) ELSE job.passed
        /\ job'.failed = IF ok THEN job.failed ELSE Append(job.failed, c)
        /\ job'.first = IF ~ok /\ job.first = "" THEN verdict ELSE job.first
        /\ job'.all = job.all /\ job'.pc = job.pc
    BY <1>1, <2>3 DEF JobState
  <2>5. job' \in JobState
    <3>1. Append(job.passed, c) \in Seq(AnyCase) /\ Append(job.failed, c) \in Seq(AnyCase)
      BY <1>1, <2>1
    <3>2. ~ok => verdict \in Failures
      OBVIOUS
    <3>3. (job.internal \/ verdict = "INTERNAL_ERROR") \in BOOLEAN
      OBVIOUS
    <3>4. /\ (IF ok THEN Append(job.passed, c) ELSE job.passed) \in Seq(AnyCase)
          /\ (IF ok THEN job.failed ELSE Append(job.failed, c)) \in Seq(AnyCase)
          /\ (IF ~ok /\ job.first = "" THEN verdict ELSE job.first) \in Failures \union {""}
      BY <1>1, <3>1, <3>2 DEF JobState
    <3>5. PICK t \in Seq(AnyCase), p \in Seq(AnyCase), f \in Seq(AnyCase),
               v \in Failures \union {""}, i \in BOOLEAN :
            job' = [job EXCEPT !.todo = t, !.internal = i, !.passed = p, !.failed = f, !.first = v]
      BY <2>1, <2>3, <3>3, <3>4, Zenon
    <3> QED BY <1>1, <3>5 DEF JobState
  <2>6. Ran(k + 1)'
    <3>1. SubSeq(job.all, 1, k + 1) = Append(SubSeq(job.all, 1, k), c)
          /\ SubSeq(job.all, 1, k) \in Seq(AnyCase)
      BY <1>1, <2>2 DEF n
    <3>2. WeightOf(SubSeq(job.all, 1, k + 1)) = WeightOf(SubSeq(job.all, 1, k)) + c.weight
      BY <2>1, <3>1, WeightOfAppend
    <3>3. /\ WeightOf(Append(job.passed, c)) = WeightOf(job.passed) + c.weight
          /\ WeightOf(Append(job.failed, c)) = WeightOf(job.failed) + c.weight
      BY <1>1, <2>1, WeightOfAppend
    <3>4. /\ WeightOf(job.passed) \in Nat /\ WeightOf(job.failed) \in Nat
          /\ WeightOf(SubSeq(job.all, 1, k)) \in Nat /\ c.weight \in Nat
      BY <1>1, <2>1, <3>1, WeightIsNat DEF AnyCase
    <3>5. WeightOf(job.passed) + WeightOf(job.failed) = WeightOf(SubSeq(job.all, 1, k))
      BY <1>2 DEF Ran
    <3>6. WeightOf(job'.passed) + WeightOf(job'.failed) = WeightOf(SubSeq(job'.all, 1, k + 1))
      <4>1. CASE ok
        <5>1. /\ job'.passed = Append(job.passed, c)
              /\ job'.failed = job.failed /\ job'.all = job.all
          BY <2>4, <4>1
        <5> QED BY <3>2, <3>3, <3>4, <3>5, <5>1
      <4>2. CASE ~ok
        <5>1. /\ job'.failed = Append(job.failed, c)
              /\ job'.passed = job.passed /\ job'.all = job.all
          BY <2>4, <4>2
        <5> QED BY <3>2, <3>3, <3>4, <3>5, <5>1
      <4> QED BY <4>1, <4>2
    <3>7. Len(job'.passed) + Len(job'.failed) = k + 1
      <4>1. /\ Len(job.passed) + Len(job.failed) = k
            /\ Len(job.passed) \in Nat /\ Len(job.failed) \in Nat
        BY <1>1, <1>2, LengthFacts DEF Ran
      <4>5. PICK p \in Nat, f \in Nat : p = Len(job.passed) /\ f = Len(job.failed) /\ p + f = k
        BY <4>1
      <4>6. p + f = k
        BY <4>5, Zenon
      <4>2. /\ Len(Append(job.passed, c)) = Len(job.passed) + 1
            /\ Len(Append(job.failed, c)) = Len(job.failed) + 1
        BY <1>1, <2>1
      <4>3. CASE ok
        <5>1. Len(job'.passed) = Len(Append(job.passed, c)) /\ Len(job'.failed) = Len(job.failed)
          BY <2>4, <4>3
        <5>2. Len(job'.passed) = p + 1 /\ Len(job'.failed) = f
          BY <4>2, <4>5, <5>1, Zenon
        <5>3. (p + 1) + f = k + 1
          BY <4>6
        <5> QED BY <5>2, <5>3, Zenon
      <4>4. CASE ~ok
        <5>1. Len(job'.passed) = Len(job.passed) /\ Len(job'.failed) = Len(Append(job.failed, c))
          BY <2>4, <4>4
        <5>2. Len(job'.passed) = p /\ Len(job'.failed) = f + 1
          BY <4>2, <4>5, <5>1, Zenon
        <5>3. p + (f + 1) = k + 1
          BY <4>6
        <5> QED BY <5>2, <5>3, Zenon
      <4> QED BY <4>3, <4>4
    <3>8. job'.todo = SubSeq(job'.all, k + 1 + 1, Len(job'.all))
      BY <2>2, <2>4 DEF n
    <3> QED BY <3>6, <3>7, <3>8 DEF Ran
  <2>7. Consistent'
    <3>1. job.first # "COMPILE_ERROR"
      BY <1>1 DEF Consistent
    <3>2. ~ok => verdict \notin {"", "COMPILE_ERROR", "ACCEPTED"}
      BY <1>3, <1>5 DEF Failures
    <3>3. Append(job.failed, c) # <<>>
      BY <1>1, <2>1
    <3>4. job'.first # "COMPILE_ERROR"
      BY <2>4, <3>1, <3>2
    <3>5. job'.first = "" <=> job'.failed = <<>>
      <4>1. job.first = "" <=> job.failed = <<>>
        BY <1>1 DEF Consistent
      <4>2. CASE ok
        BY <2>4, <4>1, <4>2
      <4>3. CASE ~ok
        BY <2>4, <3>2, <3>3, <4>3
      <4> QED BY <4>2, <4>3
    <3>6. job'.first = "INTERNAL_ERROR" => job'.internal
      BY <1>1, <2>4 DEF Consistent
    <3> QED BY <3>4, <3>5, <3>6 DEF Consistent
  <2>8. k + 1 \in 0 .. Len(job'.all)
    BY <2>2, <2>4 DEF n
  <2>9. job'.pc = "running" /\ job'.all # <<>>
    BY <1>1, <2>4
  <2> QED BY <2>5, <2>6, <2>7, <2>8, <2>9 DEF JobInv, GradingHolds, ScoreIsFair
<1> QED BY <1>4, <1>5

\* The points are worked out from the passed cases.
LEMMA FinishJobInv ==
  ASSUME JobInv, FinishJob
  PROVE  JobInv'
<1> DEFINE n == Len(job.all)
           base == job.base
           score == ScoreOf(base, job.passed, job.all)
<1>1. /\ job \in JobState /\ job.pc = "running" /\ job.todo = <<>> /\ job.all # <<>> /\ Consistent
      /\ job.all \in Seq(AnyCase)
      /\ job.passed \in Seq(AnyCase) /\ job.failed \in Seq(AnyCase)
      /\ n \in Nat /\ n # 0 /\ base \in Nat
  <2>1. /\ job \in JobState /\ job.pc = "running" /\ job.todo = <<>> /\ job.all # <<>>
        /\ Consistent
    BY DEF JobInv, GradingHolds, FinishJob
  <2>2. job.all \in Seq(AnyCase) /\ job.passed \in Seq(AnyCase) /\ job.failed \in Seq(AnyCase)
        /\ base \in Nat
    BY <2>1 DEF JobState
  <2> QED BY <2>1, <2>2, LengthFacts
<1>2. Ran(n)
  <2>1. PICK k \in 0 .. n : Ran(k)
    BY DEF JobInv, GradingHolds, FinishJob
  <2>2. Len(SubSeq(job.all, k + 1, n)) = 0
    BY <1>1, <2>1 DEF Ran
  <2>3. k = n
    BY <1>1, <2>1, <2>2
  <2> QED BY <2>1, <2>3
<1>3. /\ Len(job.passed) + Len(job.failed) = n
      /\ Len(job.passed) \in Nat /\ Len(job.failed) \in Nat
      /\ WeightOf(job.passed) + WeightOf(job.failed) = WeightOf(job.all)
      /\ WeightOf(job.passed) \in Nat /\ WeightOf(job.failed) \in Nat /\ WeightOf(job.all) \in Nat
  <2>1. SubSeq(job.all, 1, n) = job.all
    BY <1>1
  <2>2. /\ Len(job.passed) + Len(job.failed) = n
        /\ WeightOf(job.passed) + WeightOf(job.failed) = WeightOf(job.all)
    BY <1>2, <2>1 DEF Ran
  <2> QED BY <1>1, <2>2, WeightIsNat, LengthFacts
<1> DEFINE Full == IF WeightOf(job.all) > 0 THEN WeightOf(job.failed) = 0 ELSE job.failed = <<>>
<1>4. /\ score \in 0 .. base
      /\ Full => score = base
      /\ score = base => Full \/ base = 0
      /\ job.passed = <<>> => score = 0
  <2>1. CASE WeightOf(job.all) > 0
    <3> DEFINE a == WeightOf(job.passed)
               b == WeightOf(job.all)
    <3>1. a \in Nat /\ b \in Nat /\ b # 0 /\ a <= b
          /\ (a = b <=> WeightOf(job.failed) = 0) /\ (job.passed = <<>> => a = 0)
      BY <1>3, <2>1, WeightOfNone
    <3>2. score = (base * a) \div b
      BY <2>1 DEF ScoreOf
    <3> HIDE DEF a, b, score, base
    <3>3. /\ score \in 0 .. base /\ (a = b => score = base)
          /\ (score = base => a = b \/ base = 0) /\ (a = 0 => score = 0)
      BY <1>1, <3>1, <3>2, ShareOf
    <3> QED BY <2>1, <3>1, <3>3
  <2>2. CASE ~(WeightOf(job.all) > 0)
    <3> DEFINE a == Len(job.passed)
    <3>1. a \in Nat /\ a <= n /\ (a = n <=> job.failed = <<>>) /\ (job.passed = <<>> => a = 0)
      <4>1. job.failed = <<>> <=> Len(job.failed) = 0
        BY <1>1, LengthFacts
      <4>2. job.passed = <<>> => Len(job.passed) = 0
        BY <1>1, LengthFacts
      <4> HIDE DEF n
      <4>5. PICK p \in Nat, f \in Nat : p = Len(job.passed) /\ f = Len(job.failed) /\ p + f = n
        BY <1>3
      <4>6. p + f = n
        BY <4>5, Zenon
      <4>3. a = p /\ (job.failed = <<>> <=> f = 0) /\ (job.passed = <<>> => p = 0)
        BY <4>1, <4>2, <4>5, Zenon
      <4>4. p <= n /\ (p = n <=> f = 0)
        BY <4>6
      <4> HIDE DEF a
      <4> QED BY <4>3, <4>4
    <3>2. score = (base * a) \div n
      BY <2>2 DEF ScoreOf
    <3> HIDE DEF a, n, score, base
    <3>3. /\ score \in 0 .. base /\ (a = n => score = base)
          /\ (score = base => a = n \/ base = 0) /\ (a = 0 => score = 0)
      BY <1>1, <3>1, <3>2, ShareOf
    <3> QED BY <2>2, <3>1, <3>3
  <2> QED BY <2>1, <2>2
<1>5. WeightOf(job.failed) = 0 <=> \A i \in DOMAIN job.failed : job.failed[i].weight = 0
  BY <1>1, WeightIsZero
<1> HIDE DEF score, n, base
<1>6. /\ job'.pc = "done" /\ job'.passed = job.passed /\ job'.failed = job.failed
      /\ job'.all = job.all /\ job'.base = base
      /\ job'.verdict = IF job.internal THEN "INTERNAL_ERROR"
                        ELSE IF job.first = "" THEN "ACCEPTED" ELSE job.first
      /\ job'.score = IF job.internal THEN NoScore ELSE score
  BY <1>1 DEF FinishJob, JobState, score, base
<1>7. score \in Nat
  BY <1>1, <1>4
<1>8. job' \in JobState
  <2> DEFINE verdict == IF job.internal THEN "INTERNAL_ERROR"
                        ELSE IF job.first = "" THEN "ACCEPTED" ELSE job.first
             points == IF job.internal THEN NoScore ELSE score
  <2>1. verdict \in Failures \union {"", "ACCEPTED"} /\ points \in Nat \union {NoScore}
    BY <1>1, <1>7 DEF JobState, Failures
  <2>2. job' = [job EXCEPT !.pc = "done", !.verdict = verdict, !.score = points]
    BY DEF FinishJob, score, base
  <2> HIDE DEF verdict, points
  <2> QED BY <1>1, <2>1, <2>2 DEF JobState
<1>9. NoScore \notin Nat
  BY GraderAssumption
<1>10. ScoreIsFair'
  <2>1. job'.verdict = "INTERNAL_ERROR" <=> job'.score = NoScore
    BY <1>1, <1>6, <1>7, <1>9 DEF Consistent
  <2>2. job'.verdict = "ACCEPTED" => job'.score = job'.base
    <3> SUFFICES ASSUME job'.verdict = "ACCEPTED" PROVE job'.score = job'.base
      OBVIOUS
    <3>1. ~job.internal /\ job.first = ""
      BY <1>1, <1>6 DEF JobState, Failures
    <3>2. job.failed = <<>>
      BY <1>1, <3>1 DEF Consistent
    <3> QED BY <1>4, <1>6, <3>1, <3>2, WeightOfNone
  <2>3. job'.verdict = "COMPILE_ERROR" => job'.score = 0
    BY <1>1, <1>4, <1>6 DEF Consistent
  <2>4. job'.score # NoScore =>
           /\ job'.score \in 0 .. job'.base
           /\ job'.base > 0 =>
                (job'.score = job'.base <=>
                   IF WeightOf(job'.all) > 0
                     THEN \A i \in DOMAIN job'.failed : job'.failed[i].weight = 0
                     ELSE job'.failed = <<>>)
    <3> DEFINE Fails == IF WeightOf(job.all) > 0
                          THEN \A i \in DOMAIN job.failed : job.failed[i].weight = 0
                          ELSE job.failed = <<>>
    <3>1. Full <=> Fails
      BY <1>5
    <3>2. base > 0 => (score = base <=> Fails)
      <4> HIDE DEF Full, Fails
      <4> QED BY <1>1, <1>4, <3>1
    <3> QED BY <1>4, <1>6, <3>2
  <2> QED BY <2>1, <2>2, <2>3, <2>4 DEF ScoreIsFair
<1> QED BY <1>6, <1>8, <1>10 DEF JobInv, GradingHolds

\* So the grading is always as JobInv says.
LEMMA JobInvariance == Spec => []JobInv
<1>1. RowsInv /\ JobInv /\ [Next]_vars => JobInv'
  <2> SUFFICES ASSUME RowsInv, JobInv, [Next]_vars PROVE JobInv'
    OBVIOUS
  <2>1. CASE job' = job
    BY <2>1 DEF JobInv, GradingHolds, ScoreIsFair, Ran, Consistent
  <2>2. \A x \in Requests : Ask(x) \/ Write(x) => job' = job
    BY DEF Ask, Write, Commits, CreateCase, UpdateCase, DeleteCase, UpdateProblem,
           DeleteProblem, PublishToClass, Unpublish, EnrollStudent, JoinClass, RemoveStudent,
           UpdateClass, RotateCode, JoinExam, StartPractice, Attach, Detach, Assign, Unassign,
           PublishExam, Passes, AskCreateCase, AskUpdateCase, AskDeleteCase, AskUpdateProblem,
           AskDeleteProblem, AskPublishToClass, AskUnpublish, AskAttach, AskDetach, AskAssign,
           AskUnassign, AskPublishExam, AskEnrollStudent, AskJoinClass, AskRemoveStudent,
           AskUpdateClass, AskRotateCode, AskJoinExam, AskStartPractice
  <2>3. ClockTick \/ SchedulerStarts \/ SchedulerEnds \/ UNCHANGED vars => job' = job
    BY DEF ClockTick, SchedulerStarts, SchedulerEnds, vars
  <2> QED BY <2>1, <2>2, <2>3, LoadJobInv, RunJobInv, FinishJobInv DEF Next, Judge
<1> QED BY <1>1, InitJobInv, RowsInvariance, PTL DEF Spec

-----------------------------------------------------------------------------
(* Theorems.                                                               *)

\* An exam that students can take keeps the class, the problem and the test cases that
\* publish_exam asked for, by the guards of three services, unless a request raced.
THEOREM PublishedStaysReady == Spec => []ExamStaysReady
<1>1. RowsInv => ExamStaysReady
  BY DEF RowsInv
<1> QED BY <1>1, RowsInvariance, PTL

\* All submissions judged before the exam is ended are judged with one set of test cases,
\* unless a request raced.
THEOREM EverybodyGradedAlike == Spec => []GradedAlike
<1>1. ASSUME NEW C, graded \subseteq {C}
      PROVE  Cardinality(graded) <= 1
  <2>1. IsFiniteSet({C}) /\ Cardinality({C}) = 1
    BY FS_Singleton
  <2> QED BY <1>1, <2>1, FS_Subset
<1>2. RowsInv => GradedAlike
  BY <1>1 DEF RowsInv, GradedBy, GradedAlike
<1> QED BY <1>2, RowsInvariance, PTL

\* The three places that decide on practice agree for every row there can be.
THEOREM PracticeIsOneQuestion == Spec => []PracticeAgrees
<1>1. RowsInv => PracticeAgrees
  BY DEF RowsInv, RowsTypeOK, Rows, Visibility, PracticeAgrees, Listed, Viewable,
     Practisable
<1> QED BY <1>1, RowsInvariance, PTL

\* Points are fair whatever the number of test cases, their weights and the points of the
\* problem: rounding never gives full marks, where there are any, to who failed a case that
\* counts.
THEOREM PointsAreFair == Spec => []ScoreIsFair
<1>1. JobInv => ScoreIsFair
  BY DEF JobInv
<1> QED BY <1>1, JobInvariance, PTL
=============================================================================

----------------------------- MODULE JudgedOnce -----------------------------
(***************************************************************************)
(* What judging promises a student, without queue, workers, generations or *)
(* the reconciler: a submission is judged at most once, its result never   *)
(* changes, and a first ACCEPTED practice submission of a problem enters   *)
(* the point ledger in the very step that publishes its verdict.           *)
(***************************************************************************)
CONSTANTS Submissions,   (* every submission of the student               *)
          Practice,      (* those outside an exam                          *)
          ProblemOf,     (* the problem a submission answers               *)
          Results        (* what grading can return                        *)

VARIABLES result,        (* result[j]: {} or the singleton of j's result   *)
          ledger         (* submissions that earned practice points        *)

vars == <<result, ledger>>

Init == /\ result = [j \in Submissions |-> {}]
        /\ ledger = {}

EarnsPoints(j, r) ==
    /\ j \in Practice
    /\ r.verdict = "ACCEPTED"
    /\ \A k \in ledger : ProblemOf[k] # ProblemOf[j]

Judge(j) ==
    /\ result[j] = {}
    /\ \E r \in Results :
         /\ result' = [result EXCEPT ![j] = {r}]
         /\ ledger' = IF EarnsPoints(j, r) THEN ledger \union {j} ELSE ledger

Next == \E j \in Submissions : Judge(j)

Spec == Init /\ [][Next]_vars
=============================================================================

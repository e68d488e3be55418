-------------------------------- MODULE Grader ------------------------------
(***************************************************************************)
(* One submission is graded: its test cases run in order in the sandbox,   *)
(* each gets a verdict, and verdict and score of the submission are        *)
(* computed from them.  What a program does in the sandbox is chosen.      *)
(***************************************************************************)
EXTENDS Integers, Sequences, FiniteSetsExt

CONSTANTS
    Bases,     (* score_base: the points of the problem in the exam, or 100   *)
    NoScore,   (* None                                                     *)
    Languages  (* bound: of the submission's code                          *)

ASSUME GraderAssumption ==
    /\ Bases \subseteq Nat
    /\ NoScore \notin Nat
    /\ Languages \subseteq {"PYTHON3", "CPP17"}

VARIABLE job   (* the grading under way, or the last one                   *)

\* todo: cases still to run.  passed, failed: weights of the cases that ran.
NoJob == [pc |-> "idle", lang |-> "", base |-> 0, todo |-> <<>>, all |-> <<>>,
          passed |-> <<>>, failed |-> <<>>, first |-> "", internal |-> FALSE, verdict |-> "", score |-> NoScore]

\* What the sandbox reports of a run: the exit code, a limit, or its own failure.
RunOutcomes == {"right", "wrong", "slow", "crash", "syntax", "timeout", "flood", "broken"}
CompileOutcomes == {"ok", "error", "timeout", "broken"}

LimitVerdict(out) ==
    CASE out = "timeout" -> "TIME_LIMIT_EXCEEDED"
      [] out = "flood" -> "OUTPUT_LIMIT_EXCEEDED"
      [] out = "broken" -> "INTERNAL_ERROR"
      [] out \in {"crash", "syntax"} -> "RUNTIME_ERROR"
      [] OTHER -> "ACCEPTED"

\* A traceback of a SyntaxError makes it a compilation failure, at whichever case it comes.
PythonVerdict(out) == IF out = "syntax" THEN "COMPILE_ERROR" ELSE LimitVerdict(out)

\* C++ is compiled again for every case; a compiler out of time is a compilation failure.
CppVerdict(compiled, out) ==
    CASE compiled \in {"error", "timeout"} -> "COMPILE_ERROR"
      [] compiled = "broken" -> "INTERNAL_ERROR"
      [] OTHER -> LimitVerdict(out)

\* A program that ended well may still have been too slow, or wrong.
CaseVerdict(raw, out) ==
    CASE raw # "ACCEPTED" -> raw
      [] out = "slow" -> "TIME_LIMIT_EXCEEDED"
      [] out = "wrong" -> "WRONG_ANSWER"
      [] OTHER -> "ACCEPTED"

WeightOf(s) == MapThenSumSet(LAMBDA i : s[i].weight, DOMAIN s)

StartJob(cases, lang, base) ==
    job' = [NoJob EXCEPT !.pc = "running", !.lang = lang, !.base = base, !.todo = cases,
                         !.all = cases]

\* Mutant of StopAtCompileError: the cases that passed before still count.
StopKeepingPassed == [job EXCEPT !.todo = <<>>, !.first = "COMPILE_ERROR"]

\* A compilation failure ends the grading and discards the results so far.
StopAtCompileError ==
    [job EXCEPT !.todo = <<>>, !.first = "COMPILE_ERROR", !.passed = <<>>, !.failed = job.all]

RunCase ==
    /\ job.pc = "running"
    /\ job.todo # <<>>
    /\ \E out \in RunOutcomes, compiled \in CompileOutcomes :
         LET raw == IF job.lang = "CPP17" THEN CppVerdict(compiled, out) ELSE PythonVerdict(out)
             verdict == CaseVerdict(raw, out)
         IN  job' = IF raw = "COMPILE_ERROR" THEN StopAtCompileError
                    ELSE [job EXCEPT
                            !.todo = Tail(@),
                            !.internal = @ \/ verdict = "INTERNAL_ERROR",
                            !.passed = IF verdict = "ACCEPTED" THEN Append(@, Head(job.todo)) ELSE @,
                            !.failed = IF verdict # "ACCEPTED" THEN Append(@, Head(job.todo)) ELSE @,
                            !.first = IF verdict # "ACCEPTED" /\ @ = "" THEN verdict ELSE @]

\* By weight; with all weights zero, by the number of cases.
ScoreOf(base, passed, all) ==
    IF WeightOf(all) > 0 THEN (base * WeightOf(passed)) \div WeightOf(all)
                         ELSE (base * Len(passed)) \div Len(all)

FinishJob ==
    /\ job.pc = "running"
    /\ job.todo = <<>>
    /\ job' = [job EXCEPT
                 !.pc = "done",
                 !.verdict = IF job.internal THEN "INTERNAL_ERROR"
                             ELSE IF job.first = "" THEN "ACCEPTED" ELSE job.first,
                 !.score = IF job.internal THEN NoScore ELSE ScoreOf(job.base, job.passed, job.all)]

\* Full marks are for submissions that fail no case that counts, unless the problem is worth
\* nothing; an accepted one has them, a failure to compile has none, and a fault of the judge
\* is never turned into points.
ScoreIsFair ==
    job.pc = "done" =>
      /\ job.verdict = "INTERNAL_ERROR" <=> job.score = NoScore
      /\ job.verdict = "ACCEPTED" => job.score = job.base
      /\ job.verdict = "COMPILE_ERROR" => job.score = 0
      /\ job.score # NoScore =>
           /\ job.score \in 0 .. job.base
           /\ job.base > 0 =>
                (job.score = job.base <=>
                   IF WeightOf(job.all) > 0 THEN \A i \in DOMAIN job.failed : job.failed[i].weight = 0
                                            ELSE job.failed = <<>>)
=============================================================================

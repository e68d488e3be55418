CONSTANTS
    r1 = r1 s1 = s1 s2 = s2 s3 = s3 s4 = s4 s5 = s5 q1 = q1 q2 = q2 p1 = p1 w1 = w1 w2 = w2
    Runs = {r1}
    Submissions = {s1, s2}
    Workers = {w1}
    Problems = {q1, q2}
    Participations = {p1}
    Practice = Practice
    ProblemOf <- ExamPairProblems
    ParticipationOf <- ExamPairParticipations
    MaxScore = 1
    NoScore = NoScore
    NoJob = NoJob
    MaxFaults = 1
SPECIFICATION FairSpec
INVARIANTS TotalIsBestScores
PROPERTY EveryJobSettles

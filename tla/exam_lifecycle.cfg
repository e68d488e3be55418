CONSTANTS
    a = a b = b q1 = q1 c1 = c1 i1 = i1 i2 = i2 r1 = r1 r2 = r2
    Students = {a}
    Problems = {q1}
    Classes = {c1}
    Gradable = {q1}
    Sessions = {i1, i2}
    Requests = {r1, r2}
    Nobody = Nobody
    Nothing = Nothing
    StartTime = 1
    EndTime = 4
    Duration = 2
    MaxTime = 4
    MaxFaults = 0
SYMMETRY RequestSymmetry
SPECIFICATION EditsInTime
INVARIANTS OneActiveSession TimeoutKeepsWork NobodyExpiresEarly
PROPERTIES ParticipationFinal ExamForward

SPECIFICATION Spec
CONSTANTS
    Bases = {0, 10}
    NoScore = NoScore
    Languages = {"PYTHON3", "CPP17"}
    Requests = {x1, x2}
    Orders = {1, 2}
    Weights = {0, 1, 2}
    Texts = {"t", "u"}
    Scenes <- AllScenes
SYMMETRY Symmetry
CHECK_DEADLOCK FALSE
INVARIANTS ExamStaysReady GradedAlike PracticeAgrees ScoreIsFair

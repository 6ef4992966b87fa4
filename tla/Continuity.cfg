SPECIFICATION SceneSpec
CONSTANTS
    None = None
    Requests = {r1, r2}
    DecisionIds = {d1}
    Inputs = {a, b}
    Retention = 1
    MaxTime = 2
    MaxCommands = 2
    MaxBoundaries = 2
SYMMETRY Symmetries
INVARIANTS
    HistoryAnswers DrawsKept WindowKept
PROPERTY AnswersStand
CHECK_DEADLOCK FALSE

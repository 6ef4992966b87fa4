SPECIFICATION SceneSpec
CONSTANTS
    Proposals = {1, 2, 3}
    ShapesOf <- Apart
    MaxTime = 4
    Budgeted = FALSE
INVARIANTS
    RulesSound ProceduresSound EngagementsSound
PROPERTY StepsSound
CHECK_DEADLOCK FALSE

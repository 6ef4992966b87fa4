SPECIFICATION SceneSpec
CONSTANTS
    NoRef = NoRef
    Refs = {"a", "b"}
    KindOf <- SomeKinds
    Entities = {"hold"}
    CreateOnly = {}
    AllowRetired = {}
    MaxClosure = 2
    MaxVersion = 3
    MaxWrites = 1
    MaxComponents = 1
    MaxStaged = 2
    MaxBoundaries = 2
INVARIANTS
    StagesSound ManifestsPending CommittedAsDeclared ReservationsSound
PROPERTIES
    ShownOrUndone
CHECK_DEADLOCK FALSE

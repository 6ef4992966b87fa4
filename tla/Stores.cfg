SPECIFICATION SceneSpec
CONSTANTS
    a = a
    b = b
    c = c
    NoRef = NoRef
    Refs = {a, b, c}
    KindOf <- SomeKinds
    Entities = {"hold"}
    CreateOnly = {}
    AllowRetired = {"note"}
    MaxClosure = 3
    MaxVersion = 3
    MaxBundle = 2
    MaxReferences = 1
SYMMETRY Symmetry
INVARIANTS
    RecordsSound LedgersSound PublicationSound
PROPERTY LifeCycle
CHECK_DEADLOCK FALSE

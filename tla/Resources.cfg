SPECIFICATION SceneSpec
CONSTANTS
    Leases = {1}
    Class <- OneClass
    Target <- OneTarget
    Capacity = 1
    MaxPending = 2
    Tokens = 2
    TTL = 7
    Guard = 2
    Moves = TRUE
    MaxTime = 1
    MaxBoundary = 10
INVARIANTS
    LeasesSound CoordinatorSound AccountsSound
PROPERTIES
    ActivationsHold AccountsInOrder
CHECK_DEADLOCK FALSE

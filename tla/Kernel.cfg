SPECIFICATION SceneSpec
CONSTANTS
    Requests = {"r1", "r2"}
    Plugins = {"p", "q"}
    EventPlugins = {"p"}
    CadencePlugins = {"q"}
    Host = "host"
    Event = "event"
    PacketClasses = {2}
    Priorities = {0, 1}
    Delays = {0, 1}
    Programs <- SomePrograms
    Reactions <- SomeReactions
    MaxDepth = 2
    MaxTime = 2
    MaxIngress = 3
    MaxEvents = 2
    MaxBoundaries = 1
    MaxFailures = 1
INVARIANTS
    TypeOK OneWinnerPerRevision EventsSeenOnce QueueSound JournalSound
PROPERTY ImplementsLedger

SPECIFICATION DecisionsSpec
CONSTANTS
    t1 = t1
    t2 = t2
    c1 = c1
    c2 = c2
    c3 = c3
    anna = anna
    ben = ben
    None = None
    Makers = {anna, ben}
    Controllers = {c1, c2, c3}
    Tickets = {t1, t2}
    People = {anna, ben}
    Registered = {c1, c2, c3}
    Seat <- OneSeat
    Authority <- BensController
    Mutations <- LineageMutations
    MaxTime = 0
    MaxRevision = 2
    MaxRequests = 3
    MaxKeys = 1
    MaxArchives = 1
    MaxFailures = 0
INVARIANTS
    BookSound HistorySound
PROPERTIES
    ArchiveKeepsBatch ImplementsBook

SPECIFICATION Spec
CONSTANTS
    h1 = h1
    h2 = h2
    Hosts <- TwoHosts
    Me = 1
    Others = {2}
    AloneAfter = 2
    MaxMoves = 1
    MaxFailures = 1
    Failed = Failed
    Callers = {1, 2}
    Slotted = {"j", "k"}
    Free = Free
    Hashes = {"p", "q", "r"}
    Capacity = 2
    MaxRecords = 7
    Drain = 3
    ServiceDrain = 3
    MaxSignals = 3
    MaxInFlight = 2
INVARIANTS
    FloorOnceGone
    ServedToTheEnd
PROPERTIES
    OnlyAnswersCount
    SeedsSettle
    CallsReturn
    NamesTheLastDenied

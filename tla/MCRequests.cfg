CONSTANTS
    t1 = t1
    t2 = t2
    Keys <- TwoKeys
    NSlots = 2
    First <- Crossed1
    Second <- Crossed2
    Threads <- TwoThreads
    MaxChecks = 2
    MaxTicks = 2
    ClassNames = {"gold", "pro"}
    DefaultClass = ""
    TheKeys = {"k", "g"}
    KeyClass <- ClassOfKey
    Rates = {1, 2}
    MaxClasses = 1
    MaxKeyLimits = 1
    Changes <- EachChange
    MaxChanges = 3
    Editors = {1, 2}
    NoLimit = NoLimit
    Pods = {1, 2}
    Ladder <- GuideLadder
    MaxSteps = 2
    MaxFlight = 1
    Ms = 4
    MaxNanos = 20000000
    NodeCount = 2
    SimSeeds = {0}
    TICK = 2
    Period = 4
    Latency = 1
    Jitter = 0
    Window = 1
    ConfigLimit <- WideBurst
    KeyLimits <- NarrowBursts
    MaxTime = 3
    MaxInputs = 2
    Clients <- TwoThreads
    MaxRequests = 2
    MaxRounds = 2
    UnknownClass = TRUE
    Users <- TwoThreads
    Tried <- SlowAndQuick
    MaxCalls = 5
    MaxClock = 1
SYMMETRY ThreadSymmetry
SPECIFICATION RequestsSpec
INVARIANTS
    ExactlyOneCopy
    TickSettles
    TablesKept
    FreshInForce
    UnderstoodThroughout
    SimulatorHolds
    
    ShadowForgets

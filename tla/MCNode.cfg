SPECIFICATION FairSpec
CONSTANTS
    Nodes = {1, 2, 3}
    Observed = {1, 2}
    Founders = {1, 2, 3}
    Leavers = {3}
    Hold = 3
    QuorumMemory = 2
    HeardWithin = 1
    TombstoneRounds = 1
    MaxMembers = 3
    Starts <- AllScenarios
    Pair = {1, 2}
    R = 12
    BetaParts = 3
    ColdParts = 2
    Demands = {0, 1, 3}
    RiseDelay = 2
    Members = {1, 2, 3}
    Probers = {1, 2}
    IndirectProbes = 1
    CutLink = {1, 2}
    Weathers = {"chaos", "cut"}
    MaxSeq <- SeqBounds
    ThisNode = 1
    Peers = {2, 3, 4}
    MaxNews = 3
    JoinSeeds = {2}
    ReconnectEvery = 2
INVARIANTS
    PartsKept
    NoTwoWholes
    HeldSize
    SharesFit
    VouchedFor
    LinkFaultTolerated
    ProbedInTurn
PROPERTIES
    ImplementsMembership
    QuorumReturns

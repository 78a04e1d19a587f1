SPECIFICATION Spec
CONSTANTS
    Nodes = {1, 2, 3, 4}
    Observed = {1, 2}
    Founders = {1, 2, 3}
    Leavers = {}
    Hold = 3
    QuorumMemory = 2
    HeardWithin = 1
    TombstoneRounds = 1
    MaxMembers = 4
    Starts <- NewcomerScenario
    Pair = {1, 2}
    R = 12
    BetaParts = 3
    ColdParts = 2
    Demands = {0, 1, 3}
    RiseDelay = 2
    Members = {1, 2, 3}
    Probers = {1, 2}
    IndirectProbes = 1
    CutLink = {1, 2}
    Weathers = {"chaos", "cut"}
    MaxSeq <- SeqBounds
    ThisNode = 1
    Peers = {2, 3, 4}
    MaxNews = 3
    JoinSeeds = {2}
    ReconnectEvery = 2
INVARIANTS
    NoTwoWholes

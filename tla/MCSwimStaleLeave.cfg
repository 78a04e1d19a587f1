SPECIFICATION Spec
CONSTANTS
    Nodes = {1, 2}
    Seeds <- EveryoneSeeds
    MaxUpdates = 12
    RetransmitLimit = 1
    MaxMembers = 2
    MaxNet = 2
    Budget <- StaleLeaveBudget
    Starts <- AllUp
INVARIANT
    DepartedSaidSo

SPECIFICATION Spec
CONSTANTS
    Nodes = {1, 2, 3}
    Seeds <- StarSeeds
    MaxUpdates = 12
    RetransmitLimit = 1
    MaxMembers = 2
    MaxNet = 1
    Budget <- SafetyBudget
    Starts <- AllUp
INVARIANTS
    TypeOK
    OnlyTheOwnerRaises
    TablesBounded

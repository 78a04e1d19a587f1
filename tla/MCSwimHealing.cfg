SPECIFICATION FairSpec
CONSTANTS
    Nodes = {1, 2, 3}
    Seeds <- StarSeeds
    MaxUpdates = 2
    RetransmitLimit = 2
    MaxMembers = 3
    MaxNet = 1
    Budget <- HealingBudget
    Starts <- HealingOrJoining
PROPERTIES
    Healing

CONSTANTS
    t1 = t1
    t2 = t2
    Keys <- TwoKeys
    NSlots = 2
    First <- Crossed1
    Second <- Crossed2
    Threads <- TwoThreads
    MaxChecks = 3
    MaxTicks = 1
SYMMETRY ThreadSymmetry
SPECIFICATION Spec
INVARIANTS
    KeptUnderCheck

SPECIFICATION Spec
CONSTANTS
    Keys = {"a", "b"}
    Loads <- FewLoads
    Circle = 8
    FirstRound = 6
    MaxContested = 1
    PastEpochs = 1
    Hold = 1
    MaxAge = 2
    MaxDelay = 1
    MaxEpoch = 2
    MaxClock = 5
INVARIANTS
    TypeOK
    NeverLooser
    InOrderIsExact
    DepartedIsSilent

SPECIFICATION Spec
CONSTANTS
    MaxNanos = 31
    OneSec = 96
    IntervalLimit = 4
    Units <- MCUnits
    HotSetSize = 1
    Cooldown = 1
    Keys = {1, 2}
    Checked = {1}
    Limits <- MCLimits
    RatesOf <- MCRates
    Foreign = {1}
    ShareRates = {48}
    Sizes = {2}
    Alpha = 2
    Beta = 8
    MaxTrackedKeys = 1
    Horizon = 3
    MaxChecks = 3
INVARIANTS
    CapsKept
    HistoryKept
    DebtBounded
PROPERTIES
    NoAttemptLost
    HotSetSettles

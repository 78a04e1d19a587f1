SPECIFICATION Spec
CONSTANTS
    t1 = t1
    t2 = t2
    Threads <- TwoThreads
    Quotas <- ChangeQuotas
    FirstQuota <- ChangeFirst
    MaxNanos = 31
    Horizon = 2
SYMMETRY ThreadSymmetry
INVARIANT ChangeBound

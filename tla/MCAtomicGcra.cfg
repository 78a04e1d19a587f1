SPECIFICATION Spec
CONSTANTS
    t1 = t1
    t2 = t2
    Threads <- TwoThreads
    Quotas <- CappedQuotas
    FirstQuota <- CappedFirst
    MaxNanos = 13
    Horizon = 6
INVARIANTS
    WindowBound
PROPERTIES
    NoEarlyAdmission
    ImplementsGcra

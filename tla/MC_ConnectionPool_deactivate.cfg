CONSTANTS
    t1 = t1
    t2 = t2
    t3 = t3
    a1 = a1
    a2 = a2
    None = None
    Threads = {t1, t2, t3}
    Addresses = {a1}
    MaxPoolSize = 3
    AcquisitionTimeoutPositive = TRUE
    LifetimeEnabled = TRUE
    ProtocolVersion = 3
    ConnIds <- MCConnIds
    DequeIds <- MCDequeIds
SPECIFICATION Spec
INVARIANT DeactivateNeverRaises

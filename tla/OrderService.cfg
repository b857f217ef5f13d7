SPECIFICATION FairSpec
CONSTANTS
    None = None
    o1 = o1
    o2 = o2
    good = good
    bad = bad
    Orders = {o1, o2}
    Payments = {good, bad}
    PaysFor <- MCPaysFor
    Declined = {bad}
    Threads = {t1, t2}
    Workers = {w1, w2}
    BatchLimit = 2
    MaxDeliveries <- MCMaxDeliveries
    MaxAborts = 1
CHECK_DEADLOCK FALSE
INVARIANTS
    TypeOK
    CancelAnnounced
    ExpiredOnce
PROPERTIES
    PaidIsFinal
    AppliedOnce
    ImplementsLifecycle
    PendingIsResolved

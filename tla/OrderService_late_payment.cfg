SPECIFICATION Spec
CONSTANTS
    None = None
    o1 = o1
    o2 = o2
    good = good
    bad = bad
    Orders = {o1}
    Payments = {good, bad}
    PaysFor <- MCPaysFor
    Declined = {bad}
    Threads = {t1}
    Workers = {}
    BatchLimit = 1
    MaxDeliveries <- MCMaxDeliveries
    MaxAborts = 0
CHECK_DEADLOCK FALSE
PROPERTY CancelledIsFinal

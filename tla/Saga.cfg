SPECIFICATION FairSpec
CONSTANTS
    None = None
    o1 = o1
    o2 = o2
    o3 = o3
    Orders = {o1, o2, o3}
    Products = {p1}
    Units = 2
    InitialStock <- MCInitialStock
    good = good
    bad = bad
    other = other
    Payments = {good, bad, other}
    PaysFor <- MCPaysFor
    Declined = {bad}
    MaxRepeats = 1
    MaxParked = 1
CHECK_DEADLOCK FALSE
INVARIANTS
    TypeOK
    Conserved
PROPERTIES
    EveryUnitSettled
    PaymentCounts

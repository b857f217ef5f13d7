SPECIFICATION FairSpec
CONSTANTS
    r1 = r1
    r2 = r2
    r3 = r3
    o1 = o1
    good = good
    bad = bad
    stray = stray
    EmptyId = EmptyId
    None = None
    Requests = {r1, r2, r3}
    Payments = {good, bad, stray}
    Orders = {o1}
    Keyless = {r3}
    Declined = {bad}
    KeyOf <- MCKeyOf
    Endpoints <- MCEndpoints
    PaysFor <- MCPaysFor
    MaxFaults = 1
INVARIANTS
    TypeOK
    NoMissedWakeup
    ToldStaysTrue
PROPERTIES
    EveryRequestAnswered
CHECK_DEADLOCK FALSE

SPECIFICATION FairSpec
CONSTANTS
    None = None
    Callers = {c1, c2}
    Services = {"auth", "order"}
    Names = {n1}
    Passwords = {p1, p2}
    MaxRequests = 1
    MinRequests = 2
    Interval = 1
    Timeout = 2
    CallTimeout = 1
    MaxCount = 3
INVARIANTS
    TypeOK
    OpensForCause
    ProbesBounded
    OneWinner
PROPERTIES
    NeverStuck

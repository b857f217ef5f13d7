SPECIFICATION Spec
CONSTANTS
    None = None
    p1 = p1
    p2 = p2
    Members = {m1, m2}
    Partitions = {p1, p2}
    MaxRecords = 2
    Permanent = {}
    MaxAttempts = 2
    Faults = {"poll"}
    MaxFaults = 1
CHECK_DEADLOCK FALSE
INVARIANTS
    CommittedIsHandled

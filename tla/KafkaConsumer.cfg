SPECIFICATION FairSpec
CONSTANTS
    None = None
    p1 = p1
    p2 = p2
    Members = {m1, m2}
    Partitions = {p1, p2}
    MaxRecords = 2
    Permanent <- MCPermanent
    MaxAttempts = 2
    Faults = {"handler", "poll", "dlq", "commit", "move", "crash"}
    MaxFaults = 2
CHECK_DEADLOCK FALSE
INVARIANTS
    TypeOK
    NothingElseLost
    HandledInOrder
PROPERTIES
    ImplementsDelivery
    EveryRecordHandled

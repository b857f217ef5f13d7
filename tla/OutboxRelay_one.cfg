SPECIFICATION FairSpec
CONSTANTS
    a1 = a1
    a2 = a2
    Aggregates = {a1, a2}
    MaxRows = 3
    AggregateOf <- MCAggregateOf
    Workers = {w1}
    BatchLimit = 2
    Returns = "ordered"
    MaxAttempts = 2
    MaxProduceErrors = 1
    MaxTxErrors = 2
CHECK_DEADLOCK FALSE
INVARIANTS
    FirstInOrder
PROPERTIES
    EveryRowSettled

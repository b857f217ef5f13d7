SPECIFICATION Spec
CONSTANTS
    a1 = a1
    a2 = a2
    Aggregates = {a1, a2}
    MaxRows = 3
    AggregateOf <- MCAggregateOf
    Workers = {w1, w2}
    BatchLimit = 2
    Returns = "unordered"
    MaxAttempts = 2
    MaxProduceErrors = 2
    MaxTxErrors = 1
SYMMETRY Symmetry
CHECK_DEADLOCK FALSE
INVARIANTS
    TypeOK
    SentIsPublished
PROPERTIES
    SettledIsFinal
    ImplementsDelivery

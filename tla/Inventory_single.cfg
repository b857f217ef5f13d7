SPECIFICATION Spec
CONSTANTS
    None = None
    Products = {p1}
    Keys = {k1, k2}
    Calls = {c1, c2, c3}
    Replicas = {r1}
    CancelEvents = {e1}
    StockLevel = 2
    InitialStock <- MCInitialStock
    MaxQty = 2
    TTL = 3
    Grace = 1
    Deadline = 1
    ReuseAfterExpiry = FALSE
    CancelsPerOrder = 1
    MaxDeliveries = 1
    PromptJob = FALSE
    MaxJobErrors = 1
    MaxReleases = 0
    MaxRestarts = 0
SYMMETRY Symmetry
INVARIANTS
    TypeOK
    StockNonNegative
    EmittedNeverReconciled
    OneRowPerKey
    NoOversell

PROPERTY ImplementsLedger

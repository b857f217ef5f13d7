SPECIFICATION Spec
CONSTANTS
    None = None
    Products = {p1}
    Keys = {k1}
    Calls = {c1}
    Replicas = {r1}
    CancelEvents = {e1}
    StockLevel = 2
    InitialStock <- MCInitialStock
    MaxQty = 1
    TTL = 3
    Grace = 1
    Deadline = 1
    ReuseAfterExpiry = FALSE
    CancelsPerOrder = 1
    MaxDeliveries = 2
    PromptJob = FALSE
    MaxJobErrors = 0
    MaxReleases = 0
    MaxRestarts = 0
SYMMETRY Symmetry
PROPERTY CompensationIdempotent

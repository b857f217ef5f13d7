SPECIFICATION Spec
CONSTANTS
    None = None
    Products = {p1}
    Keys = {k1, k2}
    Calls = {c1, c2}
    Replicas = {r1}
    CancelEvents = {e1}
    StockLevel = 2
    InitialStock <- MCInitialStock
    MaxQty = 2
    TTL = 4
    Grace = 1
    Deadline = 1
    ReuseAfterExpiry = FALSE
    CancelsPerOrder = 1
    MaxDeliveries = 2
    PromptJob = TRUE
    MaxJobErrors = 1
    MaxReleases = 1
    MaxRestarts = 1
SYMMETRY Symmetry
INVARIANTS
    NoLeakForgotten
    StockAccounted

CONSTANTS
    Adapter = {"tick", "fn", "rec", "obd"}
    Null = "tick"
    Source <- MCSource
    Kind <- MCKind
    Target <- MCTarget
    Delayed <- MCDelayed
    Period <- MCPeriod
    PartBDelay <- MCPartBDelay
    Tol = 0
    Horizon = 2
    Inf = 20
    MaxPending = 1
    Failing = TRUE
SPECIFICATION Spec
CHECK_DEADLOCK FALSE
INVARIANT NullEventStays

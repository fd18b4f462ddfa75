CONSTANTS
    Events = {"event"}
    Objects = {"relay"}
    Period <- MCPeriod
    Start <- MCStart
    tStop = 6
    Tol = 1
    Small = 2
    Probe = 2
    MaxSmall = 1
    MaxRoots = 2
    Inf = 20
SPECIFICATION Spec
CHECK_DEADLOCK FALSE
INVARIANT ResetBeforeSolve

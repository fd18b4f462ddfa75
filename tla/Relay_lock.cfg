CONSTANTS
    Designs <- MCDelayedOne
    Horizon = 6
    Inf = 20
SPECIFICATION Spec
CHECK_DEADLOCK FALSE
INVARIANT NoSelfLock

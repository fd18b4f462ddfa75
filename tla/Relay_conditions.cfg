CONSTANTS
    Designs <- MCRelays
    Horizon = 6
    Inf = 20
SPECIFICATION Spec
CHECK_DEADLOCK FALSE
INVARIANTS HeldForDelay HeldTogether ChecksScheduled DisabledIsSilent
PROPERTY RootsTrigger

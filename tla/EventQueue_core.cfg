CONSTANTS
    Adapter = {"null", "ev", "ob1", "ob2"}
    Null = "null"
    Source <- MCSource
    Kind <- MCKind
    Target <- MCTarget
    Delayed <- MCDelayed
    Period <- MCPeriod
    PartBDelay <- MCPartBDelay
    Tol = 1
    Horizon = 2
    Inf = 20
    MaxPending = 1
    Failing = FALSE
SPECIFICATION FairSpec
CHECK_DEADLOCK FALSE
INVARIANTS FrontIsEarliest DueEventsServed OneShotFiresOnce NoLostUpdate
PROPERTIES NeverEarly EventsEventuallyFire ImplementsAgenda

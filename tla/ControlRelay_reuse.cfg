CONSTANTS
    ActionDelay = 0
    Kinds = {"SET", "CANCEL"}
    ClientIds = {11}
    MaxRequests = 3
    Horizon = 3
SPECIFICATION Spec
CHECK_DEADLOCK FALSE
INVARIANT NotBeforeDue

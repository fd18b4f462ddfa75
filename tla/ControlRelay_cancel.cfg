CONSTANTS
    ActionDelay = 1
    Kinds = {"SET now", "SET", "GET", "CANCEL"}
    ClientIds = {2}
    MaxRequests = 4
    Horizon = 3
SPECIFICATION Spec
CHECK_DEADLOCK FALSE
INVARIANTS PendingHasAdapter NoneLost AtMostOnce CancelledNeverTaken
PROPERTY ImplementsService

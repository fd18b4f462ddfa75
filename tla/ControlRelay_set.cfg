CONSTANTS
    ActionDelay = 0
    Kinds = {"SET now", "SET", "GET now", "other"}
    ClientIds = {11}
    MaxRequests = 3
    Horizon = 4
SPECIFICATION FairSpec
CHECK_DEADLOCK FALSE
INVARIANT NotBeforeDue
PROPERTY EventuallyTaken

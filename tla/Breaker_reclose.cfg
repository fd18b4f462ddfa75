CONSTANTS
    Designs <- MCBreakers
    Horizon = 8
    Inf = 20
SPECIFICATION Spec
CHECK_DEADLOCK FALSE
INVARIANTS AssertsHold NeverBlind RecloseLimitPrompt
PROPERTIES RecloseWaits ClearingWaits

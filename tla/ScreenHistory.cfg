SPECIFICATION ScreenSpec
CONSTANTS
    None = None
    t1 = t1
    Terminals = {t1}
    MaxLosses = 2
    MaxCrashes = 1
    MaxRequests = 2
    MaxHandled = 3
INVARIANT HistoryWhole
CHECK_DEADLOCK FALSE

CONSTANTS
    Fds = {3, 5}
    Types = {"WAIT_READ"}
    Delays = {0, 1}
    Faults = {"ERR"}
    QuietErrors = TRUE
    MayCall <- TimedClient
    MaxHandlers = 1
    MaxTime = 1
SPECIFICATION FairSpec
PROPERTY RunReturns

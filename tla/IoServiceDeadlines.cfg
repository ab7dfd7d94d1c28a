CONSTANTS
    Fds = {3, 5}
    Types = {"WAIT_READ", "WAIT_WRITE"}
    Delays = {0, 1}
    Faults = {}
    QuietErrors = FALSE
    MayCall <- MostlyTimedClient
    MaxHandlers = 3
    MaxTime = 1
SPECIFICATION FairSpec
INVARIANTS CalledAtMostOnce TimersLive EarliestFirst RemainingTime
PROPERTIES KeepsContract RunReturns

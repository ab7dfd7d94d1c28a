CONSTANTS
    Fds = {3, 5, 7}
    Types = {"WAIT_READ"}
    Delays = {}
    Faults = {}
    QuietErrors = FALSE
    MayCall <- SchedulingClient
    MaxHandlers = 3
    MaxTime = 0
SPECIFICATION Spec
INVARIANT CalledAtMostOnce

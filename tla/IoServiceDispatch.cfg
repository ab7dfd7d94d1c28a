CONSTANTS
    Fds = {3, 5}
    Types = {"WAIT_READ", "WAIT_WRITE", "WAIT_EXCEPTION"}
    Delays = {}
    Faults = {"ERR", "HUP", "NVAL"}
    QuietErrors = FALSE
    MayCall <- CarefulClient
    MaxHandlers = 3
    MaxTime = 0
SPECIFICATION Spec
INVARIANTS TypeOK OnlyHangupsCrash PollSetExact
PROPERTY KeepsContract

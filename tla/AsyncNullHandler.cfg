SPECIFICATION Spec
CONSTANTS
    Ops <- MCOps
    Kinds <- MCKinds
    Event <- MCEvent
    Nbytes <- MCNbytes
    Groups <- MCGroups
    SizeMax = 9
    NumAwaits = 2
    Tasks <- MCTasks
INVARIANT NullHandlersRefused
CHECK_DEADLOCK FALSE

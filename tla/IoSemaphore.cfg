SPECIFICATION FairSpec
CONSTANTS
    Handlers = {1, 2, 3, 4}
    NullHandlers = {4}
    InitVals <- MCInitVals
    MaxSignals = 3
INVARIANTS TypeOK InOnePlace UnitsConserved
PROPERTIES ImplementsSemaphore ReleasedAreCalled

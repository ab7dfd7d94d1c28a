SPECIFICATION FairSpec
CONSTANTS
    Ops <- MCOps
    Kinds <- MCKinds
    Event <- MCEvent
    Nbytes <- MCNbytes
    Groups <- MCGroups
    SizeMax = 9
    NumAwaits = 2
    Tasks <- MCTasks
INVARIANTS TypeOK TransferExact StatusDocumented ContextsExact GroupCountsTasks
    CleanedUpOnce
PROPERTIES ResumesAfterAll StopResumes
CHECK_DEADLOCK FALSE

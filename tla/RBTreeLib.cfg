CONSTANT
    Fds = {1, 2, 3, 4, 5, 6, 7, 8, 9, 10}
SPECIFICATION Spec
INVARIANTS TypeOK ProbeFindsKeys ParentsExact BalanceKept
CHECK_DEADLOCK FALSE

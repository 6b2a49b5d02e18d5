SPECIFICATION SideBySide
CONSTANTS
    u1 = u1
    u2 = u2
    u3 = u3
    Threads = {t1, t2}
    Batches <- MCBatches
    Expiring = {u3}
    Budget = 2
    MaxCalls = 2
    MaxFailures = 1
    LateCalls = TRUE
    NoOp = NoOp
    kept = kept
    expiredUuid = expiredUuid
    None = None
    MaxCells = 7
    MaxFaults = 2
INVARIANTS OwnRemovesFirst OperationAlive IndexExact
PROPERTIES EveryCallAnswered ExpiredAreSwept ScanExact
CHECK_DEADLOCK FALSE

SPECIFICATION FairSpec
CONSTANTS
    u1 = u1
    u2 = u2
    u3 = u3
    Threads = {t1, t2}
    Batches <- SmallBatches
    Expiring = {}
    Budget = 1
    MaxCalls = 1
    MaxFailures = 0
    LateCalls = FALSE
    NoOp = NoOp
PROPERTY StopReturns
CHECK_DEADLOCK FALSE

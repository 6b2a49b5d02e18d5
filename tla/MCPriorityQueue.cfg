SPECIFICATION FairSpec
CONSTANTS
    p1 = p1
    p2 = p2
    hi1 = hi1
    hi2 = hi2
    hi3 = hi3
    lo1 = lo1
    lo2 = lo2
    Producers = {p1, p2}
    Consumers = {c1, c2}
    Messages = {hi1, hi2, hi3, lo1}
    Sender <- MCSender
    Priority <- MCPriority
    MaxBand = 1
    NoMessage = NoMessage
INVARIANTS TokenPerMessage
PROPERTIES ScanHonoursPriority EveryMessageDequeued
CHECK_DEADLOCK FALSE

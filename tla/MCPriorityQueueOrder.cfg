SPECIFICATION Spec
CONSTANTS
    p1 = p1
    p2 = p2
    hi1 = hi1
    hi2 = hi2
    hi3 = hi3
    lo1 = lo1
    lo2 = lo2
    Producers = {p1, p2}
    Consumers = {c1}
    Messages = {hi1, hi2, lo1, lo2}
    Sender <- MCSender
    Priority <- MCPriority
    MaxBand = 2
    NoMessage = NoMessage
PROPERTY HigherBandFirst
CHECK_DEADLOCK FALSE

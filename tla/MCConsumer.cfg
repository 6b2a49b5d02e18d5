SPECIFICATION SideBySide
CONSTANTS
    m1 = m1
    m2 = m2
    client = client
    transacted = transacted
    auto = auto
    Consumers = {c1, c2, c3}
    Tracking = {c1, c2}
    Messages = {m1, m2, m3}
    Null = Null
    MaxReceives = 3
INVARIANTS ChainInOrder InUseIsAlive  
PROPERTIES ImplementsPromise
CHECK_DEADLOCK FALSE

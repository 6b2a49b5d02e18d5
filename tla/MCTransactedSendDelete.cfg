CONSTANTS
    p1 = p1  p2 = p2  p3 = p3  d1 = d1  d2 = d2  m1 = m1  m2 = m2  m3 = m3  m4 = m4
    Producers = {p2, p3}
    Destinations = {d1, d2}
    Messages = {m3, m4}
    DestinationOf <- MCDestinationOf
    ProducerOf <- MCProducerOf
    Persistent = {m3, m4}
    Delayed = {}
    MaxTx = 2
    MaxDeletes = 1
    MaxCrashes = 0
    MaxFailures = 0
SPECIFICATION Spec
INVARIANTS CommittedSurvive
CHECK_DEADLOCK FALSE

SPECIFICATION SideBySide
CONSTANTS
    p1 = p1  p2 = p2  p3 = p3  d1 = d1  d2 = d2  m1 = m1  m2 = m2  m3 = m3  m4 = m4
    q1 = q1  q2 = q2  text1 = text1  text2 = text2
    Producers = {p1, p2, p3}
    Destinations = {d1, d2}
    Messages = {m1, m2, m3, m4}
    DestinationOf <- MCDestinationOf
    ProducerOf <- MCProducerOf
    Persistent = {m1, m2, m3}
    Delayed = {m2, m3, m4}
    MaxTx = 3
    MaxDeletes = 1
    MaxCrashes = 1
    MaxFailures = 1
INVARIANTS CommittedStored DeliveredAreStored  StoredDelayResolved
INVARIANTS ParsesGrammar  ContentKept CacheAgrees  
CHECK_DEADLOCK FALSE

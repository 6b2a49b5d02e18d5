SPECIFICATION Spec
CONSTANTS
    m1 = m1
    m2 = m2
    m3 = m3
    Durable = {d1}
    Plain = {s1}
    Messages = {m1, m2, m3}
    Persistent = {m1, m2}
    Transacted = {m2}
    Selectors <- MatchSome
    MaxRestarts = 1
INVARIANTS OnlineAgrees OwedStored OwnCopy AckedStaysAway OnlySinceSubscribed
CHECK_DEADLOCK FALSE

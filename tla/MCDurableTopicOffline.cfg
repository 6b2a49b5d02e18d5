CONSTANTS
    m1 = m1
    m2 = m2
    m3 = m3
    Durable = {d1}
    Plain = {}
    Messages = {m1, m2}
    Persistent = {m1, m2}
    Transacted = {m2}
    Selectors <- MatchAll
    MaxRestarts = 0
SPECIFICATION Spec
INVARIANTS OfflineBuffered
CHECK_DEADLOCK FALSE

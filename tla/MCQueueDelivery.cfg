SPECIFICATION FairSpec
CONSTANTS
    client = client
    transacted = transacted
    dupsOk = dupsOk
    auto = auto
    m1 = m1
    m2 = m2
    Sessions = {client, transacted, dupsOk}
    Mode <- MCMode
    Messages = {m1}
    Persistent = {m1}
    Expiring = {m1}
    Selected <- NoSelector
    MaxRedeliveries = 1
    Backoff = TRUE
    DeadLetterQueue = "open"
    DupsOkBatch = 2
    MaxCount = 1
    MaxDestinations = 1
    MaxConsumers = 2
    MaxCloses = 1
    MaxCrashes = 1
    MaxFailures = 0
    MaxForeign = 1
CONSTRAINT FewEvents
INVARIANTS NeverLost NothingVanishes DeliveryBound
PROPERTIES  EveryMessageHandled
CHECK_DEADLOCK FALSE

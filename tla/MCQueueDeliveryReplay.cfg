SPECIFICATION Spec
CONSTANTS
    client = client
    transacted = transacted
    dupsOk = dupsOk
    auto = auto
    m1 = m1
    m2 = m2
    Sessions = {client}
    Mode <- MCMode
    Messages = {m1}
    Persistent = {m1}
    Expiring = {}
    Selected <- NoSelector
    MaxRedeliveries = 1
    Backoff = FALSE
    DeadLetterQueue = "none"
    DupsOkBatch = 1
    MaxCount = 1
    MaxDestinations = 1
    MaxConsumers = 1
    MaxCloses = 0
    MaxCrashes = 0
    MaxFailures = 0
    MaxForeign = 0
PROPERTIES ReplaysPreviousLifetime
CHECK_DEADLOCK FALSE

SPECIFICATION FairSpec
CONSTANTS
    due = due
    soon1 = soon1
    soon2 = soon2
    later = later
    absurd = absurd
    Messages = {soon1, soon2, later, absurd}
    DeliveryTime <- MCDeliveryTime
    Persistent = {soon1, later, absurd}
    MaxFuture = 10
    MaxWait = 2
    MaxTime = 5
INVARIANTS ExactlyOnePlace NoOversleep
PROPERTIES NeverEarly InDueOrder ScheduledAreDelivered StopReturns
CHECK_DEADLOCK FALSE

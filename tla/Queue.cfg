CONSTANTS
    Caller = {c1, c2}
    Capacity = 1
    MaxAttempts = 2
    RequiredAcks = 1
    IdempotentEnabled = TRUE
    MaxMessages = 2
    MaxRestarts = 1
    MaxRebalances = 1
SPECIFICATION FairSpec
INVARIANTS
    LossBounded
    NoRedelivery
    AckedStored
PROPERTIES
    FirstInOrder
    CloseEnds
    CallersReturn

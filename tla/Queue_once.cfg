CONSTANTS
    Caller = {c1}
    Capacity = 1
    MaxAttempts = 2
    RequiredAcks = 1
    IdempotentEnabled = TRUE
    MaxMessages = 2
    MaxRestarts = 0
    MaxRebalances = 0
SPECIFICATION Spec
INVARIANT
    ExactlyOnce

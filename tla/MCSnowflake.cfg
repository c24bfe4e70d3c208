CONSTANTS
    Proc = {p1, p2}
    NoProc = NoProc
    ShardVals = {0, 1}
    TimestampSize = 5
    HashSize = 2
    SequenceSize = 2
    WordSize = 16
    MaxBackward = 1
    MinClock = 1
    MaxClock = 4
    MaxSteps = 1
    MaxRestarts = 1
    MaxIDs = 3
    StepWhileAsleep = FALSE
    RestartBehind = FALSE
SPECIFICATION FairSpec
INVARIANTS
    UniqueIDs
    NoFutureIDs
PROPERTIES
    LastTimeMonotone
    ErrorMeansBackward
    ImplementsIDSource
    CallsReturn

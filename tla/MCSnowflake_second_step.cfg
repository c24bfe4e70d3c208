CONSTANTS
    Proc = {p1, p2}
    NoProc = NoProc
    ShardVals = {0, 1}
    TimestampSize = 8
    HashSize = 2
    SequenceSize = 2
    WordSize = 16
    MaxBackward = 1
    MinClock = 1
    MaxClock = 4
    MaxSteps = 2
    MaxRestarts = 0
    MaxIDs = 3
    StepWhileAsleep = TRUE
    RestartBehind = FALSE
SYMMETRY Symmetry
SPECIFICATION Spec
INVARIANTS
    UniqueIDs

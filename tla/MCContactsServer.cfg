CONSTANTS
    Proc = {p1, p2}
    NoProc = NoProc
    ShardVals = {0, 1, 2, 3, 4, 5, 6, 7, 8, 9, 10, 11, 12, 13, 14, 15}
    TimestampSize = 4
    HashSize = 2
    SequenceSize = 2
    WordSize = 16
    MaxBackward = 0
    MinClock = 1
    MaxClock = 3
    MaxSteps = 1
    MaxRestarts = 1
    MaxIDs = 3
    StepWhileAsleep = FALSE
    RestartBehind = FALSE
    DBCount = 1
    TBCount = 2
    e1 = e1
    Emails = {e1}
    Mobiles = {m1}
    Hash <- OneHash
    Strangers = {}
SYMMETRY Symmetry
SPECIFICATION ServerSpec
PROPERTIES
    ImplementsContacts
CHECK_DEADLOCK FALSE

CONSTANTS
    TimestampSize = 2
    HashSize = 8
    SequenceSize = 2
    DBCounts = {1, 2, 3, 4}
    TBCounts = {1, 2, 3}
    MaxShardVal = 17
    MaxShuffled = 4
SPECIFICATION Spec
INVARIANTS
    RoutesAgree
    BroadcastReachesRowOnce
    RoundRobinAlternates

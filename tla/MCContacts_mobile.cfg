CONSTANTS
    TimestampSize = 1
    HashSize = 4
    SequenceSize = 2
    DBCount = 2
    TBCount = 2
    Req = {r1, r2}
    e1 = e1
    e2 = e2
    Emails = {e1, e2}
    Mobiles = {m1, m2}
    Hash <- TwoHashes
    Strangers = {5}
    MaxIDs = 3
SYMMETRY Symmetry
SPECIFICATION Spec
INVARIANT
    MobileUnique
CHECK_DEADLOCK FALSE

CONSTANTS
    SIDs = {s1, s2}
    Users = {u1}
    Requests = {r1, r2}
    SessionLife = 2
    AccessLife = 1
    RefreshLife = 3
SPECIFICATION FairSpec
INVARIANTS NoRevival TokensBacked NoLateRefresh
PROPERTY AccessEnds

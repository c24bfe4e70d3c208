CONSTANTS
    Caller = {c1, c2, c3}
    NoCaller = NoCaller
    Lives = {0, 2, 3, 4}
    Margin = 2
    Timeout = 1
SPECIFICATION FairSpec
INVARIANTS
    NoneWasted
    StillValid
PROPERTY
    AllAnswered

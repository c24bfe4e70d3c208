CONSTANTS
    Redis = Redis
    Databases = {db_0, db_1}
    Logger = Logger
    Server = Server
    Requests = {r1}
    Sessions = {s1, s2}
    Nobody = Nobody
    IgnoreLists = {{"SignIn", "RefreshToken"}, {"SignIn", "SignOut", "ApplyContact"}}
SPECIFICATION HttpSpec
INVARIANTS
    ServedWithClients
    CleanExit
    NoneLeftOpen
    SignedIn
    ForeignRefused
    AnsweredOnce
    AllowedPageServed
    EndedByOwner
PROPERTY
    SignOutEnds
CHECK_DEADLOCK FALSE

CONSTANTS
    Thread = {t1, t2}
    Key = {k1, k2}
    NoThread = NoThread
    NoKey = NoKey
    MaxCached = 1
    MaxClients = 4
    MaxCommands = 4
SPECIFICATION FairSpec
INVARIANTS
    TypeOK
    CacheBounded
    CachedNotClosed
PROPERTY
    LockPassedOn
    ImplementsHostCommands
CHECK_DEADLOCK FALSE

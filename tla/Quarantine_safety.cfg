\* Failed saves, a crash and a lost key; the clock stands still, nothing expires.
CONSTANTS
    w1 = w1
    w2 = w2
    Workers = {w1}
    orig = orig
    side = side
    none = none
    small = small
    large = large
    part = part
    Paths <- MCPaths
    Siblings <- MCSiblings
    Contents <- EmptyOrSmall
    Size <- SizesE
    Partial = part
    NoFile = NoFile
    NoEntry = NoEntry
    NoBlob = NoBlob
    NoCall = NoCall
    Nobody = Nobody
    NoJob = NoJob
    RecentWindow = 0
    MaxAge = 1
    MaxBytes = 1
    MaxEntries = 2
    MaxTime = 0
    MaxKeys = 2
    MaxFaults = 1
    MaxCrashes = 1
SPECIFICATION Spec
INVARIANTS TakenIsKept ListedIsBacked DiskFollowsMemory
PROPERTIES ImplementsVault

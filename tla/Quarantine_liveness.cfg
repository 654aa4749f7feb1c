\* Two callers of the store, every step fair.
CONSTANTS
    w1 = w1
    w2 = w2
    Workers = {w1, w2}
    orig = orig
    side = side
    none = none
    small = small
    large = large
    part = part
    Paths <- OnePath
    Siblings <- OneSiblings
    Contents <- SmallOrLarge
    Size <- SizesL
    Partial = part
    NoFile = NoFile
    NoEntry = NoEntry
    NoBlob = NoBlob
    NoCall = NoCall
    Nobody = Nobody
    NoJob = NoJob
    RecentWindow = 1
    MaxAge = 1
    MaxBytes = 2
    MaxEntries = 2
    MaxTime = 2
    MaxKeys = 1
    MaxFaults = 0
    MaxCrashes = 0
SPECIFICATION FairSpec
PROPERTIES LimitsHold CallsReturn

\* One caller; the new entry does not fit beside the old one.
CONSTANTS
    w1 = w1
    w2 = w2
    Workers = {w1}
    orig = orig
    side = side
    none = none
    small = small
    large = large
    part = part
    Paths <- OnePath
    Siblings <- OneSiblings
    Contents <- SmallOrLarge
    Size <- SizesL
    Partial = part
    NoFile = NoFile
    NoEntry = NoEntry
    NoBlob = NoBlob
    NoCall = NoCall
    Nobody = Nobody
    NoJob = NoJob
    RecentWindow = 1
    MaxAge = 2
    MaxBytes = 2
    MaxEntries = 2
    MaxTime = 1
    MaxKeys = 1
    MaxFaults = 0
    MaxCrashes = 0
SPECIFICATION Spec
PROPERTIES AddKeepsItsCopy

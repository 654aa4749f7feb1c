\* Every monitor, started by settings that leave the others out; the memory
\* monitor's steps are fair.
CONSTANTS
    p1 = p1
    pm = pm
    mm = mm
    nm = nm
    h1 = h1
    h2 = h2
    t1 = t1
    Pids = {p1}
    Programs <- MCPrograms
    None = None
    ProcMons = {pm}
    MemMons = {mm}
    NetMons = {nm}
    Watchers = {h1, h2, t1}
    Kind <- MCKind
    Settings <- MCSettings
    Policies = {"prompt", "auto_delete"}
    StoreSeverity = "high"
    ReportInterval = 2
    SuspectRescan = 1
    MemRescan = 3
    BeaconWindow = 2
    Threshold = 2
    MaxLives = 2
    MaxPass = 1
    MaxHits = 3
    MaxFaults = 1
SPECIFICATION FairSpec
PROPERTIES OffendersOnly ToldOncePerInterval AnnouncedOnce SuspectsAreExamined AlertsAreSpaced

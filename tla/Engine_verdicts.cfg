\* A monitor, a scan and a client, every goroutine fair; a write of config.json fails.
CONSTANTS
    orig = orig
    Monitors = {m1}
    Scans = {s1}
    Users = {u1}
    Paths = {orig}
    Side <- OneSide
    None = None
    Policies = {"prompt", "auto_delete"}
    MaxEntries = 1
    MaxAsks = 2
    MaxFaults = 1
SPECIFICATION FairSpec
INVARIANTS NoDeadlock
PROPERTIES LateVerdictSpares ImplementsPreferences VerdictsEnd RestoresEnd
CHECK_DEADLOCK FALSE

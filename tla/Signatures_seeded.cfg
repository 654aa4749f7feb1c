\* One connection; a pack beside the program, one restart.
CONSTANTS
    h = h
    str = str
    dll = dll
    name = name
    Words = {h, str, dll, name}
    Clients = {c1}
    Scanners = {w1}
    Updates <- MCUpdates
    Bundles <- MCBundles
    SeedLines <- MCSeed
    Targets <- MCTargets
    NoScan = NoScan
    MaxRequests = 1
    MaxRestarts = 1
    MaxFaults = 0
SPECIFICATION Spec
INVARIANTS ImportsSurvive

\* Two connections and a scan; a restart or crash, a failed write, with a pack and without.
CONSTANTS
    h = h
    str = str
    dll = dll
    name = name
    Words = {h, str, dll, name}
    Clients = {c1, c2}
    Scanners = {w1}
    Updates <- MCUpdates
    Bundles <- MCBundles
    SeedLines <- MCSeed
    Targets <- MCTargets
    NoScan = NoScan
    MaxRequests = 3
    MaxRestarts = 2
    MaxFaults = 1
SPECIFICATION Spec
INVARIANTS AckedIsOnFile ListIsExplained AckedIsKnown ScanKnowsImports PackIsLoaded

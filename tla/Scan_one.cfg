\* A scan, the page, and one change of the files or the exclusions or one failed read.
CONSTANTS
    top = top
    inner = inner
    git = git
    a = a
    b = b
    s1 = s1
    None = None
    Scans = {s1}
    Nodes <- MCNodes
    Dirs = {top, inner, git}
    Parent <- MCParent
    Above <- MCAbove
    Order <- MCOrder
    Scannable = {a, b}
    SkipNames = {git}
    Mod <- MCMod
    Requests <- MCRequests
    Volatile = {top, inner, a}
    MaxFiles = 3
    MaxChanges = 1
    MaxInbox = 1
SPECIFICATION FairSpec
INVARIANTS CompleteIsWhole SmartTakesNewest ExcludedIsLeft
PROPERTIES ScansEnd ResultsArrive
CHECK_DEADLOCK FALSE

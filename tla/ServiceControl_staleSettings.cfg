\* One client that saves the settings it has read before a restore.
CONSTANTS
    c1 = c1
    fs = fs
    steam = steam
    game = game
    site = site
    file = file
    Conns = {c1}
    Main = Main
    Monitors <- MCMonitors
    Janitor = Janitor
    Names <- MCNames
    DefaultNames <- MCDefault
    Domains <- MCDomains
    DefaultDomains <- MCDomains
    Paths <- MCPaths
    None = None
    EarlyClient = FALSE
    MaxCalls = 3
    MaxFaults = 0
    MaxRestarts = 0
SPECIFICATION Spec
INVARIANTS RestoredStaysExcluded
CHECK_DEADLOCK FALSE

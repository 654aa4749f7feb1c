\* One client, which speaks when the service has started.
CONSTANTS
    c1 = c1
    fs = fs
    steam = steam
    game = game
    site = site
    file = file
    Conns = {c1}
    Main = Main
    Monitors <- MCMonitors
    Janitor = Janitor
    Names <- MCNames
    DefaultNames <- MCDefault
    Domains <- MCDomains
    DefaultDomains <- MCDomains
    Paths <- MCPaths
    None = None
    EarlyClient = FALSE
    MaxCalls = 3
    MaxFaults = 1
    MaxRestarts = 1
SPECIFICATION FairSpec
INVARIANTS OffMeansOff 
PROPERTIES MonitorsEnd ImplementsPreferences
CHECK_DEADLOCK FALSE

\* One call and one verdict; the two goroutines that connect at the start; a stop
\* or a late write, every goroutine fair.
CONSTANTS
    x1 = x1
    v1 = v1
    p1 = p1
    p2 = p2
    Calls = {x1}
    Verdicts = {v1}
    Connectors = {p1, p2}
    None = None
    MaxConns = 2
    MaxFaults = 1
SPECIFICATION FairSpec
INVARIANTS ChannelUsedOnce WaiterIsKnown PendingHasReader
PROPERTIES ImplementsRequests CallsReturn VerdictsAreSent Reconnects
CHECK_DEADLOCK FALSE

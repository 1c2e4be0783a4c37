\* Two connections, one of which may have to wait.
SPECIFICATION WSpec
CONSTANTS
    c1 = c1
    c2 = c2
    Conns = {c1, c2}
    Requests <- MCRequests
    Asks <- MCAsks
    End = End
    NoRequest = NoRequest
    HeaderBytes = 2
    Bandwidths = {1, 2}
    ConnectionLimits = {1, 2}
    MaxBacklog = 1
    MaxKeepAlive = 2
    IncomingDataLimit = 4
    Width = 16
    MaxSpent = 2
INVARIANTS TimersRun WithinBandwidth OnlyEmptyStalls
PROPERTIES ServedInOrder

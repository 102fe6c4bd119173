CONSTANTS
    c1 = c1
    c2 = c2
    NoConn = NoConn
    Conns <- MCConns
    deadQueueSize = 2
    sendQueueSize = 2
    MaxBroadcasts = 2
    MaxIds = 3
    MaxResponses = 0
    MaxFaults = 1
    Rejected <- MCNone
    Unencodable <- MCNone
SPECIFICATION Spec
SYMMETRY MCSymmetry
INVARIANT NothingLostSilently
CHECK_DEADLOCK FALSE

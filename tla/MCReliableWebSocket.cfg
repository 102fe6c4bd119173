CONSTANTS
    c1 = c1
    c2 = c2
    NoConn = NoConn
    Conns <- MCConns
    deadQueueSize = 2
    sendQueueSize = 2
    MaxBroadcasts = 3
    MaxIds = 4
    MaxResponses = 1
    MaxFaults = 1
    Rejected <- MCNone
    Unencodable <- MCSecond
SPECIFICATION Spec
SYMMETRY MCSymmetry
INVARIANTS TypeOK DeliveredIsPrefix IndexIsUsable OneConnPerId DeadQueueIsContiguous
PROPERTIES NeverRepeated ImplementsStream
CHECK_DEADLOCK FALSE

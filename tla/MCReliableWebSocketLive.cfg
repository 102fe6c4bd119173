CONSTANTS
    c1 = c1
    c2 = c2
    NoConn = NoConn
    Conns <- MCConns
    deadQueueSize = 2
    sendQueueSize = 2
    MaxBroadcasts = 3
    MaxIds = 5
    MaxResponses = 0
    MaxFaults = 1
    Rejected <- MCSecond
    Unencodable <- MCThird
SPECIFICATION FairSpec
PROPERTY EventuallyCaughtUp
CHECK_DEADLOCK FALSE

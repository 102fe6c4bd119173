CONSTANTS
    s1 = s1
    s2 = s2
    t1 = t1
    t2 = t2
    t3 = t3
    None = None
    Sockets <- MCSockets
    Timers <- MCTimers
    minWebSocketRetryTime = 1
    maxWebSocketRetryTime = 2
    maxWebSocketFails = 1
    reconnectJitterRange = 1
    MaxSeq = 3
    MaxFaults = 2
    MaxNetwork = 1
    MaxRequests = 1
    MaxCloses = 1
SPECIFICATION FairSpec
INVARIANTS OneSocket NothingLeaks NeverIdle SilenceIsNoticed WaitsForAnAnswer
PROPERTIES AttemptsApart KeepsConnected

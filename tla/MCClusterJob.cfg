CONSTANTS
    p1 = p1
    p2 = p2
    NoClient = NoClient
    Clients <- MCClients
    Interval = 2
    MaxTime = 4
    MaxSchedules = 2
    MaxFaults = 1
SPECIFICATION FairSpec
INVARIANTS JobInv LastFinishedIsLast
PROPERTIES RunsApart RunsAgain CloseReturns
CHECK_DEADLOCK FALSE

CONSTANTS
    s1 = s1
    s2 = s2
    j1 = j1
    j2 = j2
    k1 = k1
    k2 = k2
    None = None
    NoClient = NoClient
    Servers <- MCOneServer
    Jobs <- MCTwoJobs
    Calls <- MCOneCall
    Clients <- MCClients
    RunAts <- MCRunAt
    maxNumFails = 1
    MaxTime = 1
    MaxSchedules = 1
    MaxCancels = 1
    MaxFaults = 0
SPECIFICATION FairSpec
PROPERTY CallsReturn
CHECK_DEADLOCK FALSE

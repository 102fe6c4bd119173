CONSTANTS
    s1 = s1
    s2 = s2
    j1 = j1
    j2 = j2
    k1 = k1
    k2 = k2
    None = None
    NoClient = NoClient
    Servers <- MCTwoServers
    Jobs <- MCTwoJobs
    Calls <- MCOneCall
    Clients <- MCClients
    RunAts <- MCRunAt
    maxNumFails = 1
    MaxTime = 1
    MaxSchedules = 1
    MaxCancels = 0
    MaxFaults = 1
SPECIFICATION FairSpec
PROPERTY ScheduledRuns
CHECK_DEADLOCK FALSE

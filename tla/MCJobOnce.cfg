CONSTANTS
    s1 = s1
    s2 = s2
    j1 = j1
    j2 = j2
    k1 = k1
    k2 = k2
    None = None
    NoClient = NoClient
    Servers <- MCTwoServers
    Jobs <- MCTwoJobs
    Calls <- MCOneCall
    Clients <- MCClients
    RunAts <- MCRunAts
    maxNumFails = 0
    MaxTime = 1
    MaxSchedules = 2
    MaxCancels = 1
    MaxFaults = 1
SPECIFICATION Spec
SYMMETRY MCSymmetry
INVARIANTS JobOnceInv RunsWhatIsScheduled RunsAtMostOnce ActiveIsRunning
CHECK_DEADLOCK FALSE

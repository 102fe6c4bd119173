CONSTANTS
    p1 = p1
    p2 = p2
    p3 = p3
    NoClient = NoClient
    Clients <- MCClients
    ttl = 8
    refreshInterval = 4
    Delay = 1
    MaxFaults = 2
SPECIFICATION FairSpec
INVARIANTS MutexInv MutualExclusion KeyOutlivesHolder
PROPERTIES ImplementsLock SomeoneGetsIt

CONSTANTS
    n1 = n1
    n2 = n2
    j1 = j1
    j2 = j2
    None = None
    Nodes <- MCNodes
    Jobs <- MCJobs
    NumBatches = 2
    MaxFaults = 1
    MaxStops = 1
    MaxDivergences = 1
SPECIFICATION FairSpec
INVARIANTS TypeOK OneNodeRuns NoBatchSkipped NothingRepeated
PROPERTIES FinalIsFinal PendingEnds
CHECK_DEADLOCK FALSE

CONSTANTS
    deadQueueSize = 3
    MaxWritten = 7
    Payloads <- MCPayloads
SPECIFICATION Spec
INVARIANTS ReplayInv ReplayIsExact NumberingResumes
PROPERTY LossReportedExactly
CHECK_DEADLOCK FALSE

SPECIFICATION FairSpec
CONSTANTS
    Request = {q1, q2}
    Limits <- MCLimits
    LoadTime = 0
    Grace = 1
    CheckInterval = 1
    DrainTimeout = 2
    DrainPoll = 1
    StopTime = 1
    Attempts = 2
    CallTimeout = 0
    RetryDelays = {1}
    MaxTime = 6
INVARIANTS
    TypeOK
    RestartsInTime
    ExitIsReported
PROPERTIES
    ImplementsRun
    DrainedRequestsFinish
    IdleMeansIdle
    ScheduledRunEnds
\* the process ends
CHECK_DEADLOCK FALSE

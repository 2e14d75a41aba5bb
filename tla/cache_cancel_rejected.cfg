\* A job is cancelled after its source was rejected.
SPECIFICATION Spec
CONSTANTS
    MaxJobs = 1
    Sources = {s1}
    Keys = {k1}
    Workers = {w1}
    Nobody = Nobody
    RunningCapacity = 1
    QueuedCapacity = 1
    BusyMaxAttempts = 1
    MaxAttempts = 2
    Faults <- SourceOnly
PROPERTY CancelledIsCleaned
CHECK_DEADLOCK FALSE

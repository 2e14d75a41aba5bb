\* A poll is deferred by a rate limit and taken up again at once.
SPECIFICATION Spec
CONSTANTS
    MaxJobs = 1
    Sources = {s1}
    Keys = {k1}
    Workers = {w1}
    Nobody = Nobody
    RunningCapacity = 1
    QueuedCapacity = 1
    BusyMaxAttempts = 1
    MaxAttempts = 2
    Faults <- TransientOnly
PROPERTY BackoffRespected
CHECK_DEADLOCK FALSE

\* One job, one worker or two that take it from each other, every fault.
SPECIFICATION OneSpec
CONSTANTS
    MaxJobs = 1
    Sources = {s1}
    Keys = {k1}
    Workers = {w1, w2}
    Nobody = Nobody
    RunningCapacity = 1
    QueuedCapacity = 1
    BusyMaxAttempts = 2
    MaxAttempts = 3
    Faults <- AllFaults
INVARIANTS
    TypeOK
    RowsWellFormed
    AtMostOneSubmission
    ClaimHolderCanWrite
PROPERTIES
    CancelledIsNeverSubmitted
    AloneCleanedLeavesNothing
    AloneCancellationConverges
    AloneCleaningEnds
    AloneSubmissionSettles
\* The last job may reach a terminal status: nothing is left to do.
CHECK_DEADLOCK FALSE

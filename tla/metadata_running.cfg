\* Two movies and one slot, one fault.
SPECIFICATION Spec
CONSTANTS
    OPTIONAL_STAGES <- OneOptional
    Requests <- Urgent
    Movies = {m1, m2}
    MaxRunning = 1
    InitialLimit = 1
    MaxJobs = 2
    MaxFaults = 1
INVARIANT RunningWithinContract
CHECK_DEADLOCK FALSE

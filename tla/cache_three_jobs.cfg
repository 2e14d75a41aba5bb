\* Three jobs of two sources that compete for one running slot; a source
\* may come back after its job ended.
SPECIFICATION Spec
CONSTANTS
    MaxJobs = 3
    Sources = {s1, s2}
    Keys = {k1, k2, k3}
    Workers = {w1}
    Nobody = Nobody
    RunningCapacity = 1
    QueuedCapacity = 1
    BusyMaxAttempts = 1
    MaxAttempts = 2
    Faults <- SomeFaults
SYMMETRY Symmetry
INVARIANTS
    CapacityRespected
    OneLiveJobPerSource
PROPERTIES
    TerminalIsFinal
    LedgerSpec
CHECK_DEADLOCK FALSE

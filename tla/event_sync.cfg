\* A cache job and the credential, two writers, three events; faults stop.
SPECIFICATION FairSpec
CONSTANTS
    CacheJobs = {j1}
    Permanent = {c1}
    Writers = {w1, w2}
    None = None
    MaxEvents = 3
    Faults = {"drop", "refuse", "fail_retried"}
INVARIANTS
    TypeOK
    NothingIsMissed
PROPERTIES
    ContinuationIsApplied
    ReconnectCatchesUp
\* When every number is given out nothing need happen any more.
CHECK_DEADLOCK FALSE

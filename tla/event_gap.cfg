\* A jump of the sequence while a recovery is in flight; no faults.
SPECIFICATION FairSpec
CONSTANTS
    CacheJobs = {j1}
    Permanent = {c1}
    Writers = {w1}
    None = None
    MaxEvents = 2
    Faults = {}
PROPERTY GapIsRecovered
CHECK_DEADLOCK FALSE

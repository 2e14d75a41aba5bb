\* Three jobs of which one may be ready, one worker process.
SPECIFICATION FairSpec
CONSTANTS
    Jobs = {j1, j2, j3}
    Workers = {w1}
    Nobody = Nobody
    Lost = Lost
    ReadyCapacity = 1
INVARIANT TypeOK
PROPERTIES
    EvictionIsNeeded
    LeaseBeatsExpiry
    RetentionConverges
CHECK_DEADLOCK FALSE

\* Two jobs of which one may be ready: a lease against an eviction.
SPECIFICATION Spec
CONSTANTS
    Jobs = {j1, j2}
    Workers = {w1}
    Nobody = Nobody
    Lost = Lost
    ReadyCapacity = 1
PROPERTY PlayedIsKept
CHECK_DEADLOCK FALSE

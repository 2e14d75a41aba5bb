\* Two consumers of each queue, two requests (three of the rankings); one movie
\* with two metadata jobs and every kind of request; one fault.
SPECIFICATION Spec
CONSTANTS
    Workers = {w1, w2}
    Modes = {"full"}
    Boards = {"daily", "top250"}
    Digests = {d1, d2}
    MaxRequests = 2
    Releases <- TheReleases
    Assets <- TheAssets
    Providers <- TheProviders
    MaxFaults = 1
    Movies = {m1}
    MaxJobs = 2
    OPTIONAL_STAGES <- OneOptional
    Requests <- EveryKind
    MaxRunning = 1
    InitialLimit = 1
INVARIANTS
    TypeOK
    NothingIsSkipped
    OneSnapshotPerRequest
    DerivedFollowsCurrent
    CatalogFollowsJobs
PROPERTIES
    RankingImplementsWorkQueue
    PlaintextGoes
    RequestsEnd
    ActiveJobsEnd
\* When requests and jobs are used up nothing need happen any more.
CHECK_DEADLOCK FALSE

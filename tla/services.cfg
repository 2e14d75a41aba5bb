\* Two installations, QR codes, posts, children and movies; one fault of each kind.
SPECIFICATION Spec
CONSTANTS
    Clients = {"windows"}
    Slots = {a1, a2}
    MaxSessions = 2
    MaxRotations = 1
    MaxLosses = 1
    Accounts = {acc}
    Qrs = {a1, a2}
    Scopes = {b1, b2}
    Capacity = 1
    Installations = {a1, a2}
    Positions = {10}
    Duration = 1000
    MaxVersion = 2
    MaxPlays = 2
    MaxGiveUps = 1
    Posts = {a1, a2}
    Numbers = {b1, b2}
    Children = {a1, a2}
    Texts = {b1, b2}
    Urls = {b1, b2}
    Contents = {file}
    MaxJobs = 2
    MaxClaims = 3
    Movies = {a1, a2}
    OPTIONAL_STAGES <- NoStages
    Requests <- Urgent
    MaxRunning = 1
    InitialLimit = 1
    MaxFaults = 1
    None = None
SYMMETRY Symmetry
INVARIANTS
    TypeOK
    ReuseMeansLoss
    VersionsAgree
    PaidOnce
    OnlyStaleChildLosesFile
    SlotsRespected
PROPERTIES
    RescanWins
    NoLostUpdate
    RejectedStays
    ImplementsWorkQueue
\* When the bounds are used up nothing need happen any more.
CHECK_DEADLOCK FALSE

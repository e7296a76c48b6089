\* The parts of the hub, one per behaviour.
CONSTANTS
    Foci = {"creation", "cron", "comment", "turns", "limit", "volumes", "delivery", "routes"}
    MaxClaws = 2
    Keys = {"k1"}
    NoKey = "manual"
    Groups = {"g1"}
    GroupOf <- MCGroupOf
    GroupLimit <- MCGroupLimit
    Paths <- MCPaths
    MaxCreators = 2
    MaxMishaps = 1
    CronRuns = {1, 2}
    Hooks = {"h1", "h2"}
    MaxUpsets = 1
    MaxStops = 2
    MaxPosts = 2
    MaxRows = 2
    MaxConns = 2
    MaxBreaks = 1
    LostTurnMax = 0
    LClaws = {"a", "b"}
    MaxAutoRetries = 2
    MaxUpheavals = 4
    VClaws = {"c1", "c2"}
    MaxVersions = 3
    Heads = {"h1", "h2"}
    FirstHead = "h1"
    Workers = {"hook", "agent"}
    MaxClaims = 1
    MaxPushes = 1
    MaxReports = 1
    MaxFaults = 0
    PublishTries = 1
    Names = {"x", "y"}
    Types = {"a", "b"}
    Kinds <- MCKinds
    Accepts <- MCAccepts
    Incumbent = "x"
    MaxTransient = 2
    MaxHappened = 2
    MaxChanges = 2
SPECIFICATION PartsSpec
INVARIANTS
    PartsTypeOK
    
    OneDelivery
    
    PauseMirrored
    LimitRecordHolds
    SatisfiedWasEarned
    
PROPERTIES
    DeletedStaysDeleted
    OverlapRespected
    VolumesSafe
    NoReplay
\* A part comes to rest when its bounds are used up.
CHECK_DEADLOCK FALSE

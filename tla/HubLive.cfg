\* What the parts of the hub must do in the end.
CONSTANTS
    Foci = {"creation", "cron", "comment", "turns", "limit", "delivery", "routes"}
    MaxClaws = 2
    Keys = {"k1"}
    NoKey = "manual"
    Groups = {"g1"}
    GroupOf <- MCGroupOf
    GroupLimit <- MCGroupLimit
    Paths <- MCOnePath
    MaxCreators = 1
    MaxMishaps = 1
    CronRuns = {1, 2}
    Hooks = {"h1"}
    MaxUpsets = 1
    MaxStops = 2
    MaxPosts = 2
    MaxRows = 2
    MaxConns = 1
    MaxBreaks = 1
    LostTurnMax = 1
    LClaws = {"a", "b"}
    MaxAutoRetries = 2
    MaxUpheavals = 2
    VClaws = {"c1"}
    MaxVersions = 1
    Heads = {"h1", "h2"}
    FirstHead = "h1"
    Workers = {"poll"}
    MaxClaims = 0
    MaxPushes = 1
    MaxReports = 1
    MaxFaults = 1
    PublishTries = 1
    Names = {"x", "y"}
    Types = {"a", "b"}
    Kinds <- MCKinds
    Accepts <- MCAccepts
    Incumbent = "x"
    MaxTransient = 2
    MaxHappened = 1
    MaxChanges = 1
SPECIFICATION PartsFairSpec
PROPERTIES
    
    SlotComesBack
    CommentDelivered
    QueueDrains
    ParkedIsFreed
    DeliveryConverges
    OwedIsTold
\* A part comes to rest when its bounds are used up.
CHECK_DEADLOCK FALSE

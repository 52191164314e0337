SPECIFICATION AnySpec
CONSTANTS
    Size = 3
    MaxRevision = 2
    MaxFailures = 1
    NoPod = NoPod
    ProxySQL = TRUE
    MaxVersion = 2
    MaxEdits = 1
    MaxCalls = 1
    MaxCrashes = 1
    MaxFlaps = 1
    MaxFaults = 1
    Events = {"timeout", "switch", "backup", "proxy", "error", "crash"}
INVARIANT OnePodDown
INVARIANT ReadyIsCurrent
PROPERTY PrimaryLast
PROPERTY UpdateCompletes
PROPERTY VersionJobsApart
PROPERTY VersionNeverGoesBack
PROPERTY LoopSettles

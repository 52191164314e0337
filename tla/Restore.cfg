SPECIFICATION FairSpec
CONSTANTS
    Restores = {r1, r2}
    NoRestore = NoRestore
    Size = 2
    ProxySize = 1
    WithPITR = {r2}
    PreparesCluster = TRUE
    EventSets <- MCEventSets
INVARIANT QuietData
INVARIANT OneRestoreWorks
PROPERTY SucceedsAsPromised
PROPERTY RestoresEnd
CHECK_DEADLOCK FALSE

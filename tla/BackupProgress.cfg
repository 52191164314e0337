SPECIFICATION FairSpec
CONSTANTS
    Backups = {b1, b2}
    NoLease = NoLease
    Workers = 1
    BackupIfUnhealthy = FALSE
    Deadlines = {"suspended"}
    UserFinalizers = {{"delete-backup"}}
    OnVolume = {b1}
    Unhealthy = {"degraded"}
    Events = {"delete", "finalizer"}
    MaxDisturbances = 1
PROPERTY EveryBackupEnds
PROPERTY DeletionCompletes
CHECK_DEADLOCK FALSE

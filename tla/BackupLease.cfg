SPECIFICATION Spec
CONSTANTS
    Backups = {b1, b2}
    NoLease = NoLease
    Workers = 1
    BackupIfUnhealthy = FALSE
    Deadlines = {}
    UserFinalizers = {{}, {"delete-backup"}}
    OnVolume = {}
    Unhealthy = {"degraded"}
    Events = {"crash", "release", "finalizer", "delete", "misconfigure"}
    MaxDisturbances = 2
INVARIANT LeaseHolderAccountable
INVARIANT JobsDoNotOverlap
PROPERTY ImplementsBackupQueue
SYMMETRY BackupSymmetry
CHECK_DEADLOCK FALSE

SPECIFICATION Spec
CONSTANTS
    Backups = {b1, b2}
    NoLease = NoLease
    Workers = 1
    BackupIfUnhealthy = FALSE
    Deadlines = {}
    UserFinalizers = {{}}
    OnVolume = {}
    Unhealthy = {}
    Events = {"read"}
    MaxDisturbances = 1
INVARIANT NextJobAfterPreviousFailed
SYMMETRY BackupSymmetry
CHECK_DEADLOCK FALSE

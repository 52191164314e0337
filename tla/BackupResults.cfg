SPECIFICATION Spec
CONSTANTS
    Backups = {b1, b2}
    NoLease = NoLease
    Workers = 1
    BackupIfUnhealthy = FALSE
    Deadlines = {"running", "starting"}
    UserFinalizers = {{}}
    OnVolume = {}
    Unhealthy = {"degraded"}
    Events = {"crash", "read", "status", "sideEffects", "toggle", "ttl", "staleCondition"}
    MaxDisturbances = 1
PROPERTY ResultIsFinal
PROPERTY JobOutlivesItsResult
SYMMETRY BackupSymmetry
CHECK_DEADLOCK FALSE

SPECIFICATION Spec
CONSTANTS
    Plans <- SomePlans
    MaxBackups = 3
    MaxChanges = 2
    MaxMishaps = 1
    Jobs = {"b1", "b2"}
    MaxTries = 2
    MaxLosses = 2
    Peers = {"p0", "p1"}
    WaitPeriod = 3
    MaxChurn = 3
    MaxGlitches = 2
    MaxSent = 7
    MaxHitches = 1
    MaxStarts = 2
INVARIANTS
    SucceededIsWhole
    RecoversExactly
    PeersReachTheScript
    ProbeReadsLastState
    CollectedAsSaid
PROPERTIES
    RetentionKeepsToThePlan
    ServicesConverge
CHECK_DEADLOCK FALSE

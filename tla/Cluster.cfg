SPECIFICATION Spec
CONSTANTS
    Size = 3
    FinalizerLists <- SomeLists
    MaxCuts = 1
    LastPod = 2
    MaxSeq = 3
    MaxFalls = 3
    MaxOperator = 1
    MaxResize = 1
    TLSPods = {"p1", "p2"}
    MaxToggles = 2
    MaxPauses = 1
    MaxHitches = 1
    RPods = {"p1", "p2"}
    MaxOrders = 2
    MaxMoves = 1
    MaxSlips = 1
INVARIANTS
    NoSplitBrain
    NeverMixed
    OneReplica
    AppliedIsSound
PROPERTIES
    FinalizersKeepTheirWord
    NothingLost
    NotesKept
    ClusterConverges
CHECK_DEADLOCK FALSE

SPECIFICATION Spec
CONSTANTS
    GiB = 2
    Sizes <- MCSizes
    FirstSize = 2
    ClusterSize = 2
    Leftovers = 1
    Events = {}
    MaxHappened = 0
    MaxEdits = 1
PROPERTY BeganForAPod

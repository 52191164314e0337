SPECIFICATION FairSpec
CONSTANTS
    GiB = 2
    Sizes <- MCSizes
    FirstSize = 2
    ClusterSize = 2
    Leftovers = 0
    Events = {"crash", "quota", "fail", "same", "shrink", "disable"}
    MaxHappened = 2
    MaxEdits = 2
PROPERTY DeletedWhenResized
PROPERTY ResizesEnd

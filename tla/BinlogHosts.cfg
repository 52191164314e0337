SPECIFICATION Spec
CONSTANTS
    Hosts = {h1, h2}
    Collectors = {c1}
    NoHost = NoHost
    h1 = h1
    h2 = h2
    c1 = c1
    MaxTxn = 3
    PerSecond = 1
    MaxBackups = 1
    Events = {"crash", "purge", "purgeInUse", "hosts", "slow"}
SYMMETRY HostSymmetry
CONSTRAINT BackupsEarly
INVARIANT NoSilentGap

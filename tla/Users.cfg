SPECIFICATION FairSpec
CONSTANTS
  UserNames <- MCUserNames
  Passwords = {"p0", "p1", "p2", "weak"}
  Generated = "p0"
  Weak = "weak"
  None = "none"
  Confs <- MCConfs
  ProxyPods = 2
  MountPods <- MCMountPods
  MaxEdits = 2
  MaxCuts = 2
INVARIANTS
  OperatorConnects
  MountedPasswordAccepted
  NodeStartAccepts
PROPERTIES
  RotationEnds

SPECIFICATION Spec
CONSTANTS
  n1 = n1
  n2 = n2
  None = None
  Nodes = {n1, n2}
  FailsafeMode = FALSE
  CheckTimeline = TRUE
  MaxLag = 1
  NoFailover <- NoNodes
  NoWatchdog <- NoNodes
  StartTimeout = 0
  QuickRestart = FALSE
  MaxWrites = 1
  MaxFaults = 1
  MaxRequests = 1
  MaxPauses = 1
  MaxEvents = 2
  MaxTimeline = 3
SYMMETRY Symmetry
INVARIANTS TypeOK
PROPERTIES SwitchoverKeepsWrites PauseKeepsPrimary
CHECK_DEADLOCK FALSE

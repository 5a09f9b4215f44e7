SPECIFICATION Spec
CONSTANTS
  n1 = n1
  n2 = n2
  None = None
  Nodes = {n1, n2}
  FailsafeMode = TRUE
  CheckTimeline = TRUE
  MaxLag = 0
  NoFailover <- NoNodes
  NoWatchdog <- NoNodes
  StartTimeout = 1
  QuickRestart = FALSE
  MaxWrites = 1
  MaxFaults = 2
  MaxRequests = 0
  MaxPauses = 0
  MaxEvents = 2
  MaxTimeline = 3
INVARIANTS SinglePrimary
PROPERTIES BoundedLoss LatestTimeline KeyIsHeld
CHECK_DEADLOCK FALSE

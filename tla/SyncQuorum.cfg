SPECIFICATION Spec
CONSTANTS
  N = 3
  Modes = {"quorum", "sync"}
  Counts = {1}
  Strict = FALSE
  MaxFaults = 2
  MaxChanges = 1
  DivergedRaces = FALSE
  EveryAck = FALSE
  Unwaited = TRUE
  MaxWal = 2
  MaxTimeline = 2
INVARIANTS TypeOK NoAckedLoss OverlapInForce Settled
CHECK_DEADLOCK FALSE

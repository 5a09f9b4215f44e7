SPECIFICATION Spec
CONSTANTS
  Nodes = {a, b, c}
  NoFailover = {}
  None = None
  HotStandbyFeedback = FALSE
  SlotsTTL = 1
  MaxLsn = 1
  MaxFaults = 2
SYMMETRY Symmetry
PROPERTY WalIsRetained
CHECK_DEADLOCK FALSE

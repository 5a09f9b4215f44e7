SPECIFICATION LogicalSpec
CONSTANTS
  Slots = {l1, l2}
  PromptFeedback = TRUE
  MaxPos = 2
  MaxChanges = 2
  MaxThreadFaults = 1
INVARIANTS NeverAhead ReadyIsSafe
PROPERTY EventuallyReady
CHECK_DEADLOCK FALSE

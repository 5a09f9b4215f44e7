SPECIFICATION Spec
CONSTANTS
  Hosts <- MCHosts
  MaxEvents = 2
INVARIANT NoPauseCommitted
PROPERTIES PrimaryHasLed LeaderShown
CHECK_DEADLOCK FALSE

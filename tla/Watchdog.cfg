SPECIFICATION Spec
CONSTANTS
  Devices = {"soft", "hard"}
  Settable = {"soft"}
  Closable = {"soft"}
  DefaultTimeout = 3
  Configs <- MCConfigs
  SafetyMargin <- HalfOfTtl
  SetFails = FALSE
  FailsafeMode = TRUE
INVARIANTS TypeOK Fenced FedByLeaders
CHECK_DEADLOCK FALSE

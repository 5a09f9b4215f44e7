SPECIFICATION ExecutionSpec
CONSTANTS
  Workflows = {w1}
  Calls = {e1, e2}
  Broken = {}
  MaxAttempts = 2
  MaxClock = 1
  MaxFaults = 1
  NoWorkflow = NoWorkflow
SYMMETRY CallSymmetry
INVARIANTS
  ExecutionTypeOK
  RowsMatchRuns
  NoOrphanRows
  EffectsBounded
\* All calls answered, all runs closed, all workflows deleted: the system rests.
CHECK_DEADLOCK FALSE

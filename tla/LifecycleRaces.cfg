SPECIFICATION Spec
CONSTANTS
  gmail = gmail
  cron = cron
  mailA = mailA
  hourly = hourly
  daily = daily
  noCron = noCron
  Triggers = {gmail, cron}
  Configs = {mailA, hourly, daily, noCron}
  ValidConfigs = {mailA, hourly, daily}
  Unschedulable = {daily}
  EmptyConfigs = {noCron}
  TriggerOf <- MCTriggerOf
  NoConfig = NoConfig
  NoWorkflow = NoWorkflow
  Workflows = {w1}
  Requests = {r1, r2, r3}
  RegisteredBeforeLoad = {}
  MaxCrashes = 1
  MaxDbErrors = 1
SYMMETRY RequestSymmetry
INVARIANTS
  TypeOK
  NoSilentlyDeadWorkflow
  OnlyValidConfigsRun
\* All workflows deleted and no request: the server rests.
CHECK_DEADLOCK FALSE

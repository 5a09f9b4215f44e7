SPECIFICATION Spec
CONSTANTS
  Nodes = {n1, n2}
  n1 = n1
  n2 = n2
  Absent = Absent
  FirstLeader = n2
  FirstData <- First
  TimeoutChoices <- Tight
  ConnsChoices <- Connections
  Api = {n1}
  ZooKeeper = FALSE
  MaxEdits = 2
  MaxEvents = 1
INVARIANTS EffectiveIsValid StandbyStarts SaysSo
PROPERTIES EditsAreKept Converges
CHECK_DEADLOCK FALSE

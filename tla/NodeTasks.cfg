SPECIFICATION Spec
CONSTANTS
  Workers = {w1, w2}
  Rest = Rest
  None = None
  Overtaken = FALSE
  MaxEvents = 6
INVARIANTS TypeOK OneWriter CalledOffStaysDown
PROPERTY ShutdownEnds
CHECK_DEADLOCK FALSE

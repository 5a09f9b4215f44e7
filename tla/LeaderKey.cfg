SPECIFICATION Spec
CONSTANTS
  Clients = {c1, c2}
  None = None
  Backends = {"etcd", "etcd3", "raft", "kubernetes"}
  TTL = 2
  LoopWait = 1
  MaxRev <- MCMaxRev
  MaxLease = 3
  MaxFaults = 1
SYMMETRY Symmetry
INVARIANTS TypeOK Exclusive
PROPERTY LeaseSpec
CHECK_DEADLOCK FALSE

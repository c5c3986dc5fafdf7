SPECIFICATION Spec
CONSTANTS
  p1 = p1
  p2 = p2
  q1 = q1
  q2 = q2
  w1 = w1
  w2 = w2
  NoProc = NoProc
  NoBatch = NoBatch
  Procs = {p1, p2}
  Requests = {q1}
  Workers = {w1}
  MaxJobs = 2
  Chunks = {1}
  Faults = {"crash", "db", "lost"}
  MaxFaults = 1
  MaxShutdowns = 1
  Overlap = {"deploy", "boot", "retry"}
  Verdicts = {"revive"}
SYMMETRY Symmetry
INVARIANT DeliveryInv
INVARIANT AtMostOneDelivery
PROPERTY OrphanIsNeverResent
PROPERTY ImplementsBatchLifecycle
CHECK_DEADLOCK FALSE

SPECIFICATION Spec
CONSTANTS
  p1 = p1
  p2 = p2
  q1 = q1
  q2 = q2
  w1 = w1
  w2 = w2
  NoProc = NoProc
  NoBatch = NoBatch
  Procs = {p1}
  Requests = {q1}
  Workers = {w1, w2}
  MaxJobs = 4
  Chunks = {1, 2}
  Faults = {"crash", "db", "lost"}
  MaxFaults = 2
  MaxShutdowns = 1
  Overlap = {}
  Verdicts = {"expire", "revive", "skip"}
SYMMETRY Symmetry
INVARIANT TypeOK
INVARIANT OneActiveJob
INVARIANT NoPartBatchedTwice
INVARIANT SubmittedEmailAcknowledged
INVARIANT SubmittedEmailIsComplete
CHECK_DEADLOCK FALSE

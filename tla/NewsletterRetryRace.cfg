SPECIFICATION Spec
CONSTANTS
  p1 = p1
  p2 = p2
  q1 = q1
  q2 = q2
  w1 = w1
  w2 = w2
  NoProc = NoProc
  NoBatch = NoBatch
  Procs = {p1}
  Requests = {q1, q2}
  Workers = {w1, w2}
  MaxJobs = 3
  Chunks = {1}
  Faults = {}
  MaxFaults = 0
  MaxShutdowns = 0
  Overlap = {"retry"}
  Verdicts = {"expire", "revive", "skip"}
INVARIANT OneActiveJob
CHECK_DEADLOCK FALSE

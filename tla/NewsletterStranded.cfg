SPECIFICATION FairSpec
CONSTANTS
  p1 = p1
  p2 = p2
  q1 = q1
  q2 = q2
  w1 = w1
  w2 = w2
  NoProc = NoProc
  NoBatch = NoBatch
  Procs = {p1}
  Requests = {q1}
  Workers = {w1, w2}
  MaxJobs = 3
  Chunks = {1}
  Faults = {}
  MaxFaults = 0
  MaxShutdowns = 2
  Overlap = {}
  Verdicts = {"expire", "revive"}
PROPERTY InterruptedSendResumes
CHECK_DEADLOCK FALSE

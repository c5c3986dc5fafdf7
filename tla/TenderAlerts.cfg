SPECIFICATION Spec
SYMMETRY Symmetry
CONSTANTS
  p1 = p1
  p2 = p2
  m1 = m1
  t1 = t1
  t2 = t2
  Procs = {p1, p2}
  Members = {m1}
  Tenders = {t1, t2}
  Alerts <- OneAlert
  Closing = {}
  DailyCap = 1
  MaxDays = 1
  MaxChanges = 1
  MaxFaults = 1
INVARIANT TypeOK
INVARIANT LogTellsSends
INVARIANT CapNearlyKept
INVARIANT ToldOneWay
 
CHECK_DEADLOCK FALSE

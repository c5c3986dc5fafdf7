SPECIFICATION Spec
SYMMETRY Symmetry
CONSTANTS
  p1 = p1
  p2 = p2
  r1 = r1
  r2 = r2
  mail = mail
  wait = wait
  NoProc = NoProc
  NoAction = NoAction
  Actions = {mail, wait}
  Emails = {mail}
  BatchLimit = 1
  MaxAttempts = 2
  LockTimeout = 0
  RetryDelay = 1
  WaitDelay = 1
  Procs = {p1, p2}
  Runs = {r1}
  Paths <- BothOrders
  MaxSteps = 3
  MaxEdits = 1
  Faults = {"crash", "db", "lost", "slow"}
  MaxFaults = 1
INVARIANT TypeOK
INVARIANT RunIsSequential
INVARIANT TwiceOnlyAfterTrouble
PROPERTY LockProtects
PROPERTY ImplementsAutomationRun
CHECK_DEADLOCK FALSE

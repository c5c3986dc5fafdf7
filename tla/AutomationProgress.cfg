SPECIFICATION FairSpec
CONSTANTS
  p1 = p1
  p2 = p2
  r1 = r1
  r2 = r2
  mail = mail
  wait = wait
  NoProc = NoProc
  NoAction = NoAction
  Actions = {mail, wait}
  Emails = {mail}
  BatchLimit = 1
  MaxAttempts = 2
  LockTimeout = 0
  RetryDelay = 1
  WaitDelay = 2
  Procs = {p1, p2}
  Runs = {r1}
  Paths <- MailFirst
  MaxSteps = 2
  MaxEdits = 0
  Faults = {"crash", "lost", "slow"}
  MaxFaults = 2
INVARIANT SendsBounded
INVARIANT WaitingStepsArePolled
PROPERTY StepsEnd
CHECK_DEADLOCK FALSE

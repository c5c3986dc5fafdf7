SPECIFICATION FairSpec
CONSTANTS
  PageLimit = 2
  Second = 1
  Events = {1, 2, 3, 4}
  Opens = {4}
  Late = {1}
  Domains = 1
  DomainOf <- OneDomain
  Batched = TRUE
  MaxEvents = 2
  Trust = 2
  EndMargin = 1
  KnownJobs = {"opened", "others", "missing"}
  FirstSeen = 0
  MaxOccur = 1
  MaxTime = 4
  MaxFaults = 1
INVARIANT TypeOK
 
 
CHECK_DEADLOCK FALSE

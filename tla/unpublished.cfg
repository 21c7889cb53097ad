SPECIFICATION FairSpec
CONSTANTS
  NoJob = NoJob
  Jobs = {j1}
  Symbols = {s1, s2}
  Clients = {c1}
  Runs = {r1}
  j1 = j1
  s1 = s1
  s2 = s2
  c1 = c1
  r1 = r1
  MaxRetries = 1
  Faults = {"broker"}
  MaxFaults = 1
PROPERTIES
  RunningResolves
CHECK_DEADLOCK FALSE

SPECIFICATION Spec
CONSTANTS
  NoJob = NoJob
  Jobs = {j1}
  Symbols = {s1, s2}
  Clients = {c1, c2}
  Runs = {r1, r2}
  j1 = j1
  s1 = s1
  s2 = s2
  c1 = c1
  c2 = c2
  r1 = r1
  r2 = r2
  MaxRetries = 0
  Faults = {}
  MaxFaults = 0
INVARIANTS
  AtMostOnePipeline
CHECK_DEADLOCK FALSE

SPECIFICATION Spec
CONSTANTS
  NoJob = NoJob
  Jobs = {j1, j2}
  Symbols = {s1, s2}
  Clients = {c1}
  Runs = {r1, r2}
  j1 = j1
  j2 = j2
  s1 = s1
  s2 = s2
  c1 = c1
  r1 = r1
  r2 = r2
  MaxRetries = 3
  Faults = {"api", "broker", "db", "lost"}
  MaxFaults = 1
INVARIANTS
  TypeOK
  ErrorIffFailed
  TerminalMeansIdle
  AtMostOnePipeline
  FinalizeAfterAllTasks
PROPERTIES
  LifecycleSpec
CHECK_DEADLOCK FALSE

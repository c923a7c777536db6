SPECIFICATION FairSpec
CONSTANTS
  r1 = r1
  r2 = r2
  Rules = {r1}
  Events = {1, 2}
  People = {1}
  Timed = {2}
  Triggers <- Chained
  Once = {r1}
  Writes <- ContactRule
  Consumers = {c1}
  TimeJobs = {j1}
  WaitJobs = {w1}
  ReadBatch = 2
  MaxDeliveries = 2
  MaxDepth = 1
  AutoDisableAfter = 1
  MaxWaits = 1
  MaxEdits = 0
  MaxFaults = 1
  MaxErrors = 0
  MaxPrunes = 0
  None = None
CHECK_DEADLOCK FALSE
PROPERTIES
  EngineDrains

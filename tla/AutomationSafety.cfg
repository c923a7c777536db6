SPECIFICATION Spec
CONSTANTS
  r1 = r1
  r2 = r2
  Rules = {r1, r2}
  Events = {1, 2}
  People = {1}
  Timed = {}
  Triggers <- Chained
  Once = {r1}
  Writes <- ContactRule
  Consumers = {c1, c2}
  TimeJobs = {}
  WaitJobs = {w1, w2}
  ReadBatch = 2
  MaxDeliveries = 2
  MaxDepth = 1
  AutoDisableAfter = 1
  MaxWaits = 1
  MaxEdits = 1
  MaxFaults = 1
  MaxErrors = 1
  MaxPrunes = 1
  None = None
SYMMETRY Replicas
CHECK_DEADLOCK FALSE
INVARIANTS
  ActsOnce
  OneJourney
  WaitingRunIsParked
  AckedMeansJudged
  

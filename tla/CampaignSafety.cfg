SPECIFICATION Spec
CONSTANTS
  r1 = r1
  r2 = r2
  Rows = {r1, r2}
  Workers = {w1}
  Requests = {q1, q2, q3}
  Ops = {"start", "tick", "pause", "cancel", "retry", "delete", "import", "template"}
  InitStatus = "scheduled"
  Imported = {r1, r2}
  Audience <- NoAudience
  Rejected = {r2}
  MaxFaults = 1
  None = None
CHECK_DEADLOCK FALSE
SYMMETRY AllSymmetry
INVARIANTS
  SendsNeedJobs
  NoRecipientStranded
  CompletedMeansProcessed
  ScheduledStartSendsOnce

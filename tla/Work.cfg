SPECIFICATION Spec
CONSTANTS
  None = None
  Users = {ann, bob}
  Readers = {bob}
  Active = {ann}
  Contacts = {c1}
  RankLast = 3
  StageTypes <- MCStageTypes
  FirstBoard <- MCBoards
  PageSize = 1
  MaxPipes = 2
  MaxStages = 4
  MaxDeals = 3
  MaxTypes = 3
  MaxTasks = 2
  MaxJobs = 2
  MaxOps = 3
CHECK_DEADLOCK FALSE
INVARIANTS
  
  WorkInv
PROPERTIES
  Chased

SPECIFICATION Spec
CONSTANTS
  Workers = {w1, w2}
  Flows = {"f1", "f2"}
  None = None
  Graphs <- MCGraphs
  InitialGraph <- MCInitialGraph
  LegacySteps <- MCLegacySteps
  Trigger = "f1"
  Settings <- MCSettings
  InitialSettings <- MCInitialSettings
  MaxRetries = 2
  MaxIter = 5
  MaxMsgs = 2
  MaxSessions = 2
  MaxEdits = 1
CHECK_DEADLOCK FALSE
INVARIANTS
  ChatbotInv
PROPERTIES
  EndedStaysEnded
  WorkDrains

SPECIFICATION FairSpec
CONSTANTS
  Jobs = {job}
  Replicas = {a, b, c}
  Timeout <- Timeouts
  MaxCrashes = 1
  MaxErrors = 1
  Free = Free
  Gone = Gone
INVARIANTS
  OneLeader
  RunsAreOrderly
PROPERTIES
  JobKeepsRunning

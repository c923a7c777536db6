SPECIFICATION Spec
CONSTANTS
  Contacts = {c1}
  Agents = {a1, a2}
  Teams = {t1, t2}
  None = None
  MaxConvs = 2
  MaxTransfers = 2
  MaxFlight = 2
  MaxOps = 3
  Strategies = {"round_robin", "load_balanced"}
  SameAgent = TRUE
  AutoPending = TRUE
CHECK_DEADLOCK FALSE
SYMMETRY AgentSymmetry
INVARIANTS
  OneLiveConversation
  InboxInv
PROPERTIES
  
  TransfersKept

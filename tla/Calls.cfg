SPECIFICATION Spec
CONSTANTS
  None = None
  Agents = {a1, a2}
  Members = {a1}
  Nodes <- MCNodes
  Entry = "hi"
  Graph <- MCGraph
  MaxXfers = 2
  MaxOps = 2
CHECK_DEADLOCK FALSE

  
PROPERTIES
  ConnectedNotReoffered
  

SPECIFICATION Spec
CONSTANTS
  None = None
  Users = {ann, bob}
  Readers = {bob}
  Members = {ann}
  Words = {vip, gold}
  MaxContacts = 3
  MaxNesting = 3
  MaxHolders = 3
  MaxJobs = 2
  MaxOps = 3
SYMMETRY Symmetry
CHECK_DEADLOCK FALSE
INVARIANTS
  ContactsInv
  
PROPERTIES
  DecisionsStand

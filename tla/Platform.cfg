SPECIFICATION PlatformSpec
CONSTANTS
  Users = {ann, bob}
  Orgs = {acme, beta}
  Founder = ann
  Others = {TRUE, FALSE}
  MaxRequests = 2
  MaxEntries = 1
  People = {"ann", "bob"}
  Tabs = {"a1", "a2"}
  Person <- MCPerson
  OrgOfPerson <- MCOrgOfPerson
  Chats = {"joe"}
  Watching = {"deals"}
  Connected = {"a1"}
  Topics = {"deals", "calls"}
  MaxTopics = 1
  BufferSize = 1
  ChannelSize = 1
  MaxBroadcasts = 2
  MaxNotes = 3
  MaxPings = 1
  PageSize = 1
  MaxReads = 3
  Out = {"m1"}
  InIds = {"i1", "i2"}
  EchoIds = {"i1"}
  Agents = {"ann", "bob"}
  MaxCopies = 2
  MaxTouches = 2
  MaxStops = 1
  Requests = {"r1", "r2"}
  Texts = {0, 1, 2}
  Invalid = {2}
  MaxEdits = 2
  MaxFlowEdits = 5
  MaxVerdicts = 2
  MaxDeliveries = 2
  Accounts = {"A", "B"}
  Names = {"n1", "n2"}
  Phones = {"p1", "p2"}
  Tables = {"campaigns", "templates"}
  Menus = {"m1", "m2"}
  Subjects = {"settings", "sla", "rules", "flows", "contexts", "webhooks", "tags", "organization"}
  Handlers = {"h1", "h2"}
  MaxCalls = 2
  MaxMenuCalls = 4
  MaxWrites = 3
  MaxReads0 = 3
  FirstAccount = "A"
  FirstName = "n1"
  FirstPhone = "p1"
  FirstTable = "templates"
CHECK_DEADLOCK FALSE
INVARIANTS
  HubInv
  
  
PROPERTIES
  
  MirrorKept

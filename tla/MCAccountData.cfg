\* What the client keeps for an account, component by component.
SPECIFICATION SuiteSpec
CONSTANTS
  None = None
  Broken = Broken
  Invalid = Invalid
  ann = ann
  ben = ben
  v3 = v3
  v5 = v5
  p1 = p1
  p2 = p2
  s1 = s1
  s2 = s2
  Users = {ann, ben}
  Values = {v3}
  DefaultPriority = v3
  Operations = {"toggle", "note"}
  MaxCalls = 2
  MaxLoads = 3
  Places = {p1}
  Events = {"analytics"}
  MaxChanges = 3
  MaxWrites = 2
  MaxIds = 2
  Schools = {s1, s2}
  Fields = {"memo"}
  MaxEdits = 2
  MaxSaves = 2
  Languages = {"ja", "en"}
  Device = "en"
  Rows0 <- OneStart
  Entries = {"home"}
  Fills <- OneNick
  MaxId = 4
  MaxFaults = 1
  MaxHist = 2
  MaxRuns = 1
INVARIANTS
  NothingLeavesItsUser
  AccountsStayApart
  ShownIsStored
PROPERTIES
  SavesNeverErase
CHECK_DEADLOCK FALSE

\* Family sharing, joining a family and the maintenance flag, component by component.
SPECIFICATION SuiteSpec
CONSTANTS
  Nobody = Nobody
  NoValue = NoValue
  MaxSwitches = 1
  MaxInFlight = 3
  MaxFailures = 1
  MaxMounts = 2
  Joiners = {"mother", "child"}
  Guest = "guest"
  NoSession = "nobody"
  Tokens = {"s"}
  NoToken = "none"
  AccountChanges = 1
  Refreshes = 1
  Loads = 2
  Lost = 1
  Users = {"mother", "child", "guest"}
  Anonymous = {"guest"}
  Groups = {"g"}
  MaxRows = 4
  Devices = {"d1", "d2"}
  FirstUser <- FirstOnDevices
  Switches = 0
  Closings = 0
  Failures = 1
  MaxOps = 2
  Accepting = 1
  Start <- Family
INVARIANTS
  OneRowPerPerson
  ScreenFollows
PROPERTIES
  NothingElseChanges
  InvitationIsForOne
CHECK_DEADLOCK FALSE

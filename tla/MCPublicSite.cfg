\* What anybody sees without an account, component by component.
SPECIFICATION SuiteSpec
CONSTANTS
  Prefs = {"p", "q"}
  Cities = {"c", "d"}
  Index <- PrefIndexes
  Texts = {"x"}
  Occurs <- Occurrences
  Span = 1
  MaxLoads = 2
  Phases = {"rescue", "retired"}
  LastDay = 0
  NoticeDays = 1
  MaxAttempts = 0
  Visits <- AllRequests
  Queries = {"x", "z"}
  Form <- TextForms
  Known = {"z"}
  Towns <- Municipalities
  Fit <- CityFit
  Limit = 2
  Slots = {1, 2}
  BodyLimit = 5
  Lengths = {0, 4, 5, 6, 9}
  Documents <- OneDocument
  Null = Null
  Ids = {"a", "b"}
  NoId = "none"
  Releases = {1, 2}
  Rows <- SchoolRows
  Components = {"map"}
  MaxGen = 3
  MaxOpen = 3
INVARIANTS
  DetailIsOfItsSchool
  ShownAsAskedFor
  EdgeKeepsItsPromises
PROPERTIES
  NothingGoesBack
CHECK_DEADLOCK FALSE

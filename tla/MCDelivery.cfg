\* From the build to what the origins serve, component by component.
SPECIFICATION SuiteSpec
CONSTANTS
  Null = Null
  Nothing = Nothing
  Absent = Absent
  Placeholder = Placeholder
  Foreign = Foreign
  pa = pa
  pb = pb
  sk = sk
  d1 = d1
  d2 = d2
  oa = oa
  ob = ob
  g1 = g1
  g2 = g2
  good1 = good1
  good2 = good2
  bad1 = bad1
  b1 = b1
  b2 = b2
  l1 = l1
  l2 = l2
  Packages = {pa, pb}
  Script <- OneScript
  Declared = {sk}
  HasWorker = TRUE
  Dirs = {d1, d2}
  Ops = {oa, ob}
  MaxVersions = 4
  MaxFaults = 1
  Requests = {"r1", "r2", "r3"}
  Proposals = {"p1", "p2", "p3"}
  Candidates = {"c1", "c2"}
  RequestOf <- ThreeRequests
  CandidateOf <- TwoCandidates
  Bound = TRUE
  Files <- FewFiles
  Rules = {}
  Redirects <- OldPath
  Shells <- MapPage
  Routes <- AnyRoute
  Lanes = {l1, l2}
  Attempts = 3
  MaxFailures = 1
SYMMETRY AnyDirAnyOperator
INVARIANTS
  OneStateThroughout
  ConfirmedUnderConsent
  LiveIsAsPackaged
  PassedIsServed
PROPERTIES
  ActiveWasVerified
CHECK_DEADLOCK FALSE

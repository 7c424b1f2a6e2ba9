\* Builds of up to five schools, and what can go wrong in those of three.
SPECIFICATION BoundedSpec
CONSTANTS
  Prefs = {"a", "b"}
  Munis <- MCMunis
  Nothing = Nothing
  Other = Other
  Nowhere = Nowhere
  NeighborMax = 3
  FillTarget = 3
  FillKm = 10
  MinCount = 3
  Kinds <- MCKinds
  Schools = {1, 2, 3, 4, 5}
  MaxFaults = 1
INVARIANTS
  CleanIsAccepted
  AcceptedIsTrue
  CleanLinksResolve
CHECK_DEADLOCK FALSE

\* Two corrections, one of them derived from a submission, and two publications.
\* No deadlock check: once every id is used and final, no call changes a row.
SPECIFICATION BoundedSpec
CONSTANTS
  None = None
  Deviations = {d1, d2}
  Publications = {p1, p2}
  Derived = {d1}
  Sources = {s1, s2}
  Generations = {g1}
  Pins = {b1, b2}
  Evidence = {e1}
  MaxCohort = 2
  MaxRevision <- AnyRevision
  MaxEffort = 9
SYMMETRY AllSymmetry
INVARIANTS
  QueueTypeOK
  PublicOnlyWithAuditLog
  CohortsDisjoint
  LaterCorrectionsWait
  PinnedNeverReleased
PROPERTIES
  FinalStatesAreFinal
  ResumesTheSameWork
  ImplementsLifecycle
CHECK_DEADLOCK FALSE

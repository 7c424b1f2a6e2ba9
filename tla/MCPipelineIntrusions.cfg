\* Consent that is withdrawn, edits and releases of others, failures reported by hand.
SPECIFICATION Spec
CONSTANTS
  None = None
  Deviations = {d1}
  Publications = {p1}
  Derived = {d1}
  Edits = {x1}
  Department <- OwnDepartments
  NewValue <- NewValues
  FirstValue <- FirstValues
  Builds = {b1, b2}
  Evidence = {e1}
  MaxCohort = 2
  MaxRevision <- FewClaims
  ManualFail = TRUE
  OtherReleases = TRUE
SYMMETRY Symmetry
INVARIANTS
  PipelineTypeOK
  QueueAgreesWithSource
  UploadIsPinned
CHECK_DEADLOCK FALSE

\* A publication nobody has generated yet, which the owner wants to release.
SPECIFICATION Spec
CONSTANTS
  None = None
  Deviations = {d1}
  Publications = {p1, p2}
  Derived = {}
  Edits = {}
  Department <- OwnDepartments
  NewValue <- NewValues
  FirstValue <- FirstValues
  Builds = {b1}
  Evidence = {e1}
  MaxCohort = 2
  MaxRevision <- FewClaims
  ManualFail = FALSE
  OtherReleases = FALSE
SYMMETRY Symmetry
INVARIANTS
  UngeneratedCohortCanBeReleased
CHECK_DEADLOCK FALSE

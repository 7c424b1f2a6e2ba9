\* Two corrections of one department, of which one changes its value, and a publication of one or both.
SPECIFICATION Spec
CONSTANTS
  None = None
  Deviations = {d1, d2}
  Publications = {p1}
  Derived = {}
  Edits = {}
  Department <- OneDepartment
  NewValue <- OneKeepsTheValue
  FirstValue <- FirstValues
  Builds = {b1}
  Evidence = {e1}
  MaxCohort = 2
  MaxRevision <- FewClaims
  ManualFail = FALSE
  OtherReleases = FALSE
INVARIANTS
  SourceFrozenWhilePublishing
  NoBlindOverwrite
  StateFileIsTruthful
PROPERTIES
  PipelineImplementsLifecycle
CHECK_DEADLOCK FALSE

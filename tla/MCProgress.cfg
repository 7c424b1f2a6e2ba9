\* Loads, calls and releases end when what they wait for is answered.
SPECIFICATION SuiteFairSpec
CONSTANTS
  Null = Null
  Broken = Broken
  Invalid = Invalid
  Nobody = Nobody
  Void = Void
  ann = ann
  ben = ben
  v3 = v3
  p1 = p1
  s1 = s1
  l1 = l1
  l2 = l2
  Targets = {"apex", "high"}
  ForeignMax = 2
INVARIANTS
  ReleaseIsTrue
PROPERTIES
  AnswersArrive
  WorkEnds
CHECK_DEADLOCK FALSE

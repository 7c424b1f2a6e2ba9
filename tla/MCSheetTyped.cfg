\* A text typed during a save.
SPECIFICATION Spec
CONSTANTS
  None = None
  Invalid = Invalid
  Users = {ua}
  Schools = {s1}
  Fields = {"memo"}
  MaxEdits = 2
  MaxSaves = 1
  MaxLoads = 1
INVARIANTS
  TypedTextSurvives
CHECK_DEADLOCK FALSE

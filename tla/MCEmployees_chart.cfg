CONSTANTS
  People = {a, b, c}
  Requests = {r1, r2, r3}
  Days = {1, 2}
  Today = 1
  Edits <- SomeEdits
  None = None
  Unset = Unset
SPECIFICATION Spec
SYMMETRY Interchangeable
INVARIANTS
  DatesStayUnseen
PROPERTIES
  LoopsNeedAnOvertaking
  NoEditIsUndone
CHECK_DEADLOCK FALSE

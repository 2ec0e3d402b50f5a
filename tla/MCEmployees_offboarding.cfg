CONSTANTS
  People = {a, b, c}
  Requests = {r1, r2}
  Days = {1, 2}
  Today = 1
  Edits <- SomeEdits
  None = None
  Unset = Unset
SPECIFICATION Spec
SYMMETRY Interchangeable
INVARIANTS
  AnybodyCanBeOffboarded
CHECK_DEADLOCK FALSE

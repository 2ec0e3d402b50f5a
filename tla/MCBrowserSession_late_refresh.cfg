SPECIFICATION Spec
CONSTANTS
  Tabs = {"t1"}
  Calls = {"c1"}
  MaxTokens = 2
  Outages = 0
  Slow = FALSE
  None = None
  Offers <- OneTab
INVARIANTS
  SignedOutHoldsNothing
CHECK_DEADLOCK FALSE

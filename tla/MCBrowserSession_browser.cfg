SPECIFICATION FairSpec
CONSTANTS
  Tabs = {"t1", "t2"}
  Calls = {"c1"}
  MaxTokens = 2
  Outages = 1
  Slow = FALSE
  None = None
  Offers <- TwoTabs
INVARIANTS
  ShellHoldsItsToken
PROPERTIES
  NeverRacesItself
  DetectionSparesTheLive
  SignedOutStaysOut
  EveryRequestEnds
CHECK_DEADLOCK FALSE

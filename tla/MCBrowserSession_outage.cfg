SPECIFICATION FairSpec
CONSTANTS
  Tabs = {"t1"}
  Calls = {"c1"}
  MaxTokens = 2
  Outages = 1
  Slow = FALSE
  None = None
  Offers <- OneTab
PROPERTIES
  TabsLeaveUnknown
CHECK_DEADLOCK FALSE

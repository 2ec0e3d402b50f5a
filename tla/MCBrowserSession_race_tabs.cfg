SPECIFICATION Spec
CONSTANTS
  Tabs = {"t1", "t2"}
  Calls = {"c1"}
  MaxTokens = 2
  Outages = 0
  Slow = FALSE
  None = None
  Offers <- TwoTabs
PROPERTIES
  LiveCookieIsKept
CHECK_DEADLOCK FALSE

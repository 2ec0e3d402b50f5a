CONSTANTS
  Links = {l1, l2}
  Account = Account
  Requests = {r1, r2}
  None = None
SPECIFICATION Spec
INVARIANTS
  TurnedAwayForGood
PROPERTIES
  ImplementsOffers
  KnownLinksDie
  RequestsEnd

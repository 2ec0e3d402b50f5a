SPECIFICATION FairSpec
CONSTANTS
  u1 = u1
  s1 = s1
  s2 = s2
  f1 = f1
  r1 = r1
  r2 = r2
  None = None
  Users = {u1}
  SessionIds = {s1, s2}
  Families = {f1}
  Requests = {r1, r2}
  Handlers = {"login", "refresh", "revoke", "changePassword", "resetPassword", "deactivate", "reactivate"}
  LegacyDigests = {u1}
  Grace = 0
  Ttl = 1
  MaxNow = 1
  MaxVersion = 2
  MaxPassword = 1
INVARIANTS SuspendedSessionsAreStale
PROPERTIES OnlyARotationOutlivesAClosing RefusedTokenStaysRefused EveryRequestEnds
CHECK_DEADLOCK FALSE

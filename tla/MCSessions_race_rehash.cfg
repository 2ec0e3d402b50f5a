SPECIFICATION Spec
CONSTANTS
  u1 = u1
  s1 = s1
  s2 = s2
  f1 = f1
  f2 = f2
  r1 = r1
  r2 = r2
  None = None
  Users = {u1}
  SessionIds = {s1, s2}
  Families = {f1, f2}
  Requests = {r1, r2}
  Handlers = {"login", "resetPassword"}
  LegacyDigests = {u1}
  Grace = 1
  Ttl = 3
  MaxNow = 1
  MaxVersion = 0
  MaxPassword = 1
SYMMETRY Symmetry
PROPERTIES PasswordOnlyMovesForward

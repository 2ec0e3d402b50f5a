SPECIFICATION Spec
CONSTANTS
  u1 = u1
  s1 = s1
  s2 = s2
  s3 = s3
  f1 = f1
  f2 = f2
  r1 = r1
  r2 = r2
  None = None
  Users = {u1}
  SessionIds = {s1, s2, s3}
  Families = {f1, f2}
  Requests = {r1, r2}
  Handlers = {"login", "refresh", "signOut", "revokeOthers"}
  LegacyDigests = {}
  Grace = 1
  Ttl = 2
  MaxNow = 2
  MaxVersion = 0
  MaxPassword = 0
SYMMETRY Symmetry
INVARIANTS OneLiveRowPerFamily ChainNeverForks
PROPERTIES RevocationIsFinal OnlyARotationOutlivesAClosing ImplementsTokenFamilies

SPECIFICATION BatchSpec
CONSTANTS
  Users = {"root","ann","bob"}
  Actors = {"ann","bob"}
  Roles = {"owner","editors","writers"}
  SystemRoles = {"owner"}
  Keys = {"role:assign","role:create","role:update","role:delete","permission:override","secret"}
  Bystanders = {"root"}
  Requests = {r1, r2}
  Compositions = {{"role:update"},{"secret"}}
  Exceptions = {"secret"}
  Terms = {"temporary"}
  VersionWrap = 2
  Root = "root"
  Handlers = {"assign", "createRole", "deleteRole", "writeOverride"}
  None = None
  InitialHeld <- TwoCustomRoles
  InitialGrants <- WideEditors
  InitialDenied <- AnnDenied
  Drafts <- SomeDrafts
SYMMETRY Interchangeable
INVARIANTS
  AuthorityIsConserved
PROPERTIES
  DraftersKeepTheirWayBack
CHECK_DEADLOCK FALSE

SPECIFICATION Spec
CONSTANTS
  Users = {"root","ann","bob"}
  Actors = {"root","ann","bob"}
  Roles = {"owner","admin"}
  SystemRoles = {"owner","admin"}
  Keys = {"role:revoke"}
  Bystanders = {}
  Requests = {r1, r2}
  Compositions = {{}}
  Exceptions = {}
  Terms = {"lasting"}
  VersionWrap = 2
  Root = "root"
  Handlers = {"revoke"}
  None = None
  InitialHeld <- TwoOwners
  InitialGrants <- SystemGrants
  InitialDenied <- NobodyDenied
PROPERTIES
  RevocationsLeaveAnOwner

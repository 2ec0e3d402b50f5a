SPECIFICATION Spec
CONSTANTS
  Users = {"root","ann","bob"}
  Actors = {"root","ann","bob"}
  Roles = {"owner","admin"}
  SystemRoles = {"owner","admin"}
  Keys = {"user:suspend"}
  Bystanders = {}
  Requests = {r1, r2}
  Compositions = {{}}
  Exceptions = {}
  Terms = {"lasting"}
  VersionWrap = 2
  Root = "root"
  Handlers = {"deactivate"}
  None = None
  InitialHeld <- OneAdministrator
  InitialGrants <- SystemGrants
  InitialDenied <- NobodyDenied
PROPERTIES
  OffboardedOnce

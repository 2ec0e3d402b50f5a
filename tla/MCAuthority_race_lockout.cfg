SPECIFICATION Spec
CONSTANTS
  Users = {"root","ann","bob"}
  Actors = {"root","ann"}
  Roles = {"owner","editors","writers"}
  SystemRoles = {"owner"}
  Keys = {"role:update"}
  Bystanders = {}
  Requests = {r1, r2}
  Compositions = {{}}
  Exceptions = {}
  Terms = {"lasting"}
  VersionWrap = 2
  Root = "root"
  Handlers = {"updateRole"}
  None = None
  InitialHeld <- TwoCustomRoles
  InitialGrants <- TwoCustomGrants
  InitialDenied <- NobodyDenied
PROPERTIES
  EditorsKeepTheirWayBack

SPECIFICATION Spec
CONSTANTS
  Users = {"root","ann","bob"}
  Actors = {"root","ann"}
  Roles = {"owner","admin"}
  SystemRoles = {"owner","admin"}
  Keys = {"role:assign"}
  Bystanders = {}
  Requests = {r1}
  Compositions = {{}}
  Exceptions = {}
  Terms = {"lasting","temporary"}
  VersionWrap = 2
  Root = "root"
  Handlers = {"assign"}
  None = None
  InitialHeld <- OneAdministrator
  InitialGrants <- SystemGrants
  InitialDenied <- NobodyDenied
PROPERTIES
  AssignedMeansHeld

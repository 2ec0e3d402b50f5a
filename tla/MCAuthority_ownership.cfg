SPECIFICATION Spec
CONSTANTS
  Users = {"root","ann","bob"}
  Actors = {"root","ann","bob"}
  Roles = {"owner","admin"}
  SystemRoles = {"owner","admin"}
  Keys = {"role:revoke","role:assign"}
  Bystanders = {}
  Requests = {r1, r2}
  Compositions = {{}}
  Exceptions = {}
  Terms = {"lasting"}
  VersionWrap = 2
  Root = "root"
  Handlers = {"transfer", "revoke"}
  None = None
  InitialHeld <- AdministersForAWhile
  InitialGrants <- RevokingAdministrator
  InitialDenied <- NobodyDenied
SYMMETRY Interchangeable
PROPERTIES
  OwnershipMovesByTheRoot
  RepeatsSignNobodyOut

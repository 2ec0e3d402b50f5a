SPECIFICATION Spec
CONSTANTS
  Users = {"root","ann"}
  Actors = {"root","ann"}
  Roles = {"owner","admin","editors"}
  SystemRoles = {"owner","admin"}
  Keys = {"role:assign","role:revoke","role:update","user:suspend","user:reactivate","permission:override","role:create","role:delete"}
  Bystanders = {}
  Requests = {r1}
  Compositions = {{},{"role:update"}}
  Exceptions = {"role:update"}
  Terms = {"lasting"}
  VersionWrap = 2
  Root = "root"
  Handlers = {"transfer", "assign", "revoke", "deactivate", "reactivate", "createRole", "updateRole", "deleteRole", "writeOverride", "removeOverride"}
  None = None
  InitialHeld <- OneAdministrator
  InitialGrants <- SystemGrants
  InitialDenied <- NobodyDenied
INVARIANTS
  RootIsActive
PROPERTIES
  VersionFollowsRights
  EditorsKeepTheirWayBack

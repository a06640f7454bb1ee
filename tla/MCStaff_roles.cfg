CONSTANTS
  Nobody = Nobody
  Root = root
  Users = {root, u1}
  Super = super
  Roles = {super, r1}
  SuperName = n0
  Names = {n0, n1, n2}
  Split <- Actions
  Inherited <- SomeInherited
  GrantSets <- SmallGrants
  NameSets = {{n0}, {n1}}
  Probe <- RolesUpdate
  Requests = {w1, w2}
  StaffOps = {"createUser", "setRoles", "setActive", "createRole", "rename", "setGrants", "deleteRole"}
  TTL = 1
SPECIFICATION Spec
SYMMETRY Symmetry
INVARIANTS SuperAdminIntact AssignmentsStand 
PROPERTIES UpgradeKeepsAccess 

SPECIFICATION Spec
CONSTANTS
  Requests = {r1, r2}
  Names = {"a", "b"}
  Patches <- MCPatches
  Actions = {"totp"}
  MaxVersion = 3
  Callers = {c1, c2}
  Users = {"u", "x"}
  OrgUsers = {"u"}
  GroupNames = {"g", "h"}
  GroupPatches <- MCGroupPatches
  UserGroups = {"g", "h"}
  Apps = {"app1", "app2"}
  MaxSyncs = 2
  Admins = {a1, a2, a3}
  None = None
SYMMETRY DirectorySymmetry
INVARIANTS
    
    
    
    GrantsAreSound
PROPERTIES
    LockIsATicketCounter
CHECK_DEADLOCK FALSE

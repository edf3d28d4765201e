SPECIFICATION Spec
CONSTANTS
  a1 = a1
  a2 = a2
  o1 = o1
  o2 = o2
  Users = {u1, u2}
  Tokens = {k1, k2}
  Hosts = {h1, h2}
  None = None
  TokenTTL = 1
  TestTokenTTL = 1
  CookieTTL = 1
  Day = 3
  Policies <- MCPolicies
  MaxSoftwarePerHost = 1
  Bodies <- MCBodies
  MaxChanges = 1
  MaxTime = 2
  Admins = {a1, a2}
  Orgs = {o1, o2}
  FleetHosts = {h1, h2}
  Teams = {k1, k2}
  Names = {n1}
  Nobody = Nobody
  AdminOrg <- MCAdminOrg
  SystemAdmins = {a2}
  MaxRequests = 4
  Factors = {totp, key}
  Callers = {c1, c2}
  Batches = {b1, b2, b3}
  NoBatch = NoBatch
  MaxEnrolls = 2
  Replicas = {r1, r2}
  Devices = {h1, h2}
  Persons = {u1, u2}
  Events = {e1, e2}
  OnboardEvents = {e1}
  Null = Null
  Retention = 1
  MaxPasses = 2
  MaxMoves = 3
SYMMETRY HostSymmetry
INVARIANTS
    
    OnlyOwnHosts
    
    CoverageFollows
    
    SnapshotIsTruthful
CHECK_DEADLOCK FALSE

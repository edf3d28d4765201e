SPECIFICATION Spec
CONSTANTS
  MaxTime = 3
  Clients = {k1, k2, k3}
  Calls = {c1, c2}
  Limit = 2
  Window = 2
  MaxEntries = 2
  LimiterTime = 2
  RedisLimit = 2
  RedisWindow = 2
  Subjects = {s1, s2}
  Changing = {s1}
  Checks = {d1, d2}
  TTL = 1
  MaxQuery = 1
  Kids = {1, 2}
  FirstKid = 1
  Bearers = {b1, b2}
  KeysTTL = 2
  MinInterval = 1
  MaxFetch = 1
  People = {boss, ann, bob}
  Supers = {boss}
  Orgs = {org1, org2}
  DefaultOrg = org1
  ApiTokens = {t1}
  Gated = {g1, g2}
SYMMETRY GateSymmetry
INVARIANTS
    MemoryLimiterHolds
    RedisLimiterHolds
    CacheIsBounded
    KeysFollowRealm
    ActsWhereItStands

    
CHECK_DEADLOCK FALSE

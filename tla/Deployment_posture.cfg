SPECIFICATION DeploymentSpec
CONSTANTS
    Replicas = {r1, r2, r3}
    Nobody = nobody
    Servers = {s1, s2}
    Jobs = {j1, j2}
    Latest = 2
    NoOne = NoOne
    MaxFaults = 2
    Askers = {q1, q2, q3}
    NoAsker = NoAsker
    Runners = {q1, q2}
    MaxPeriods = 3
    MaxUser = 4
    PageSize = 2
    MaxChanges = 3
    NoReport = NoReport
    Savers = {w1, w2}
    Relays = {"r"}
    Passwords = {"p"}
    NoPassword = NoPassword
    MaxKeys = 1
    Components <- MCComponents
    Wishes <- MCWishes
    Editors = {e1, e2}
    Sources = {k1, k2}
    Directories = {d1, d2}
    Absent = Absent
    MaxTime = 4
    FleetUrls = {0, 1}
    FleetTokens = {0, 1}
    FleetTTL = 2
    NoClient = NoClient
CHECK_DEADLOCK FALSE
INVARIANT
    PostureInForce

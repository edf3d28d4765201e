CONSTANTS
    NoToken = NoToken
    Requests = {r1, r2}
    Kinds = {"offboard", "approved", "scim"}
    Patchers = {r1, r2}
    Sessions = {s1}
    Tokens = {t1}
    Hosts = {h1, h2}
SPECIFICATION Spec
INVARIANTS
    
    
    DevicesAccounted

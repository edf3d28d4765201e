CONSTANTS
    Requests = {r1, r2, r3}
    Deciders = {d1, d2, d3}
    Runs = {r1, r2, r3, d1, d2, d3}
    Requester = d3
    MaxId = 4
SPECIFICATION Spec
INVARIANTS
    StoresConsistent
    OneExecution
    

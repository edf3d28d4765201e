SPECIFICATION FairSpec
CONSTANTS
    Workers = {w1, w2}
    RetryBound = 4
    MaxCuts = 1
INVARIANTS
    RowAgreesWithAccount

    

SPECIFICATION FairSpec
CONSTANTS
    Batches = {b1, b2}
    MaxFiles = 5
INVARIANTS
    TypeOK
    
    HiddenByEarlierBatch

    
    
CHECK_DEADLOCK FALSE

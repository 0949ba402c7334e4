SPECIFICATION FairSpec
CONSTANTS
    t1 = t1
    t2 = t2
    NoThread = NoThread
    Threads = {t1, t2}
    Programs <- TwoThreads
    SharesFile <- OneProcess
    MaxPolls = 1
INVARIANTS
    CancelledStaysAway
    
    
PROPERTIES
    
    CallsReturn

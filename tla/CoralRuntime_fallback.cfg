SPECIFICATION RuntimeSpec
CONSTANTS
    p1 = p1
    p2 = p2
    NoThread = NoThread
    Threads = {p1, p2}
    Programs <- RuntimeCalls
    SharesFile <- OwnFiles
    MaxPolls = 2
    MaxSignals = 0
    Environments <- FreeTransports
INVARIANTS
    DriverSelected

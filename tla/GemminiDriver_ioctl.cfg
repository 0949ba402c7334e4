SPECIFICATION DFairSpec
CONSTANTS
    Addrs = {0, 1, 2, 3, 4, 5, 6, 7}
    MaxReqs = 2
    Jobs <- MCJobs
    DirectJobs <- SmallJobs
    Callers = {c1, c2}
    Requests <- MCRequests
    Pool = {0, 1, 2, 3, 4, 5}
    ChunkBytes = 16
    ElementSize = 4
    Mod = 128
    MaxTimeouts = 1
INVARIANTS
    NoPanic
    ResultIsOwn
    DmaInBuffers
    ReadsBeforeWrites
PROPERTIES
    CallReturns

SPECIFICATION Spec
CONSTANTS
    Addrs = {0, 1, 2, 3, 4}
    MaxReqs = 2
    Memory <- SmallMemory
    MaxSize = 4
    Keys = {1, 3}
    Commands = {0}
INVARIANTS
    ResultMatchesBaseline

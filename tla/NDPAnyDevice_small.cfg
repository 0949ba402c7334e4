SPECIFICATION Spec
CONSTANTS
    Addrs = {0, 1, 2}
    MaxReqs = 2
    MaxBursts = 3
    MaxPackets = 3
    Bursts <- SmallBursts
INVARIANTS
    SingleSender
    RequestsBacked

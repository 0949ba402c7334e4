SPECIFICATION FairSpec
CONSTANTS
    MaxBeats = 3
    Words = 2
    U = 4096
    ExtmemBase = 512
    ExtmemSize = 192
    StagingOffset = 64
    StagingSize = 128
    Convs <- MCConvs
    Configs <- MCConfigs
INVARIANTS
    PerformedOnce
    OwnResponse
    AddCorrect
    StagedApart
    DescriptorAccepted
    HybridHonest
PROPERTIES
    ImplementsBridge
    ProgramEnds

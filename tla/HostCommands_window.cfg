SPECIFICATION FairSpec
CONSTANTS
    MaxElements = 2
    Jobs = {1, 2}
    Builds <- MCBuilds
    Models <- MCModels
INVARIANTS
    SuccessIsFresh
    RefusalHasCause
    DriverSurvives
PROPERTIES
    PreparedKept
    RunEnds

CONSTANTS
    FreshWindow = 1
    CatchUpMaxAge = 2
    HorizonSlack = 1
    NumActions = 2
    MaxRuns = 2
    Plan <- HeadlessAndTab
    MaxClock = 2
    MaxEvents = 1
SPECIFICATION FairSpec
INVARIANTS
    TypeOK
    ListAgreesWithRun
    ExecutedIsOnRecord
    SuccessIsWhole
    RunningHoldsPermit
PROPERTIES
    KeepsContract
    SlotIsFreed
CHECK_DEADLOCK FALSE

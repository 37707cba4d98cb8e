CONSTANTS
    NumSteps = 1
    Definitions <- SingleSteps
    MaxCrashes = 2
    MaxRetries = 1
    MaxCancels = 1
SPECIFICATION FairSpec
INVARIANTS
    TypeOK
    TypedApplyIsRecorded
    ReportDescribesRun
    SuccessIsEarned
    CopiesAgree
    DecisionWillCommit
    PendingApprovalHoldsRun
PROPERTIES
    HonoursContract
    ApplyNeedsFreshCheck
    CancelEndsRun
    EngineComesToRest

CONSTANTS
    NumSteps = 2
    Definitions <- Pairs
    MaxCrashes = 1
    MaxRetries = 0
    MaxCancels = 1
SPECIFICATION Spec
INVARIANTS
    SuccessIsEarned
    ChecklistInOrder
    CopiesAgree
    DecisionWillCommit
PROPERTIES
    HonoursContract
    ApplyNeedsFreshCheck

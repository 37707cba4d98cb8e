CONSTANTS
    NumSteps = 1
    Definitions <- OneRemedy
    MaxCrashes = 1
    MaxRetries = 0
    MaxCancels = 1
SPECIFICATION Spec
INVARIANT ResumedDecisionIsAccepted

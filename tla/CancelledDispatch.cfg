CONSTANTS
    NumSteps = 1
    Definitions <- OneRemedy
    MaxCrashes = 0
    MaxRetries = 0
    MaxCancels = 1
SPECIFICATION Spec
PROPERTY CancelledRunDispatchesNothing

CONSTANTS
    NumSteps = 2
    Definitions <- StopFirst
    MaxCrashes = 1
    MaxRetries = 0
    MaxCancels = 1
SPECIFICATION Spec
PROPERTY StopIsFinal

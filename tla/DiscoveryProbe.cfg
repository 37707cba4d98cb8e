CONSTANTS
    NumSteps = 1
    Definitions <- OneDiscovery
    MaxCrashes = 0
    MaxRetries = 0
    MaxCancels = 0
SPECIFICATION Spec
INVARIANT DiscoveryIsNotFatal

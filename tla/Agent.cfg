\* One run of at most three rounds with two commands, one steering message and
\* one stop, change of mode or change of the terminal.
SPECIFICATION FairSpec
CONSTANTS
    MaxIterations = 1
    MaxMail = 1
    Steers = {s1}
    Ceiling = "auto_all"
    Proposals <- MCProposals
    MaxInFlight = 3
    MaxWork = 2
    StartModes = {"auto_smart", "full"}
    MaxEvents = 1
INVARIANTS
    TypeOK
    NothingRunsUnasked
    SteersToldTruly
    NothingIsLeftBehind
PROPERTIES
    KeepsCommandContract
    RunEnds
CHECK_DEADLOCK FALSE

CONSTANTS
    FreshWindow = 1
    CatchUpMaxAge = 2
    HorizonSlack = 1
    NumActions = 2
    MaxRuns = 2
    Plan <- HeadlessAndTab
    MaxClock = 0
    MaxEvents = 1
SPECIFICATION Spec
INVARIANT SchedulerRunsWhileOn

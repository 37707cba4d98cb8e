CONSTANTS
    Tabs = {t1, t2}
    NoTab = NoTab
    MaxProcs = 2
    HighWatermark = 1
    ReadMax = 1
    Talkative = {1}
    MaxFailures = 1
    MaxEvents = 1
SPECIFICATION FairSpec
INVARIANTS
    TypeOK
    HandleKept
    NoOrphans
    CleanQuitIsVerified
    MarkerNeedsBarrier
PROPERTIES
    DecisionStands
    QuitEnds
    ReaderMoves
CHECK_DEADLOCK FALSE

\* Two machines, three jobs, two revisions, and two gestures, crashes or
\* faults beyond the first start of each job.
SPECIFICATION FairSpec
CONSTANTS
    here = here
    there = there
    doc = doc
    fill = fill
    rival = rival
    NoJob = NoJob
    Machine = {here, there}
    Job = {doc, fill, rival}
    Home <- MCHome
    Headless = {fill, rival}
    Remote = {doc, rival}
    MaxRevision = 2
    MaxEvents = 2
PROPERTIES
    KeepsReplacementContract
    QueuedIsServed
CHECK_DEADLOCK FALSE

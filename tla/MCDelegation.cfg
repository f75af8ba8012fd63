SPECIFICATION FairSpec
CONSTANTS
    t1 = t1
    t2 = t2
    Tasks <- TwoTasks
    MaxJobs = 1
    NoGroup = NoGroup
    Troubles <- Everything
INVARIANTS
    GroupSound
    AtMostOneSummary
    SummaryIsComplete
PROPERTIES
    OnlyForward
    SealedIsSummarized
CHECK_DEADLOCK FALSE

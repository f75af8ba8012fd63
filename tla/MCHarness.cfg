SPECIFICATION Spec
CONSTANTS
    JobIds <- OneToTwo
    Boots <- OneToTwo
    Infos <- Kinds
    NoBoot = NoBoot
    NoJob = NoJob
    NoRun = NoRun
    NoState = NoState
    MaxAttempts = 2
    MaxRetries = 1
    MaxTaskRevisions = 1
    MaxCrashes = 1
    MaxFaults = 1
    MaxIterations = 2
    MaxTurns = 2
    MaxGoalAttempts = 2
INVARIANTS
    KnowsWhatRan
    WorkIsBounded
    TaskTellsOutcome
    RunIsReleased
PROPERTIES
    WorkEnds
CHECK_DEADLOCK FALSE

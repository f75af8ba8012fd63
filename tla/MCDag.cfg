SPECIFICATION FairSpec
CONSTANTS
    r1 = r1
    r2 = r2
    r3 = r3
    join = join
    last = last
    Nodes <- AllNodes
    Deps <- Graph
    MaxRetries <- Retries
    Max = 2
INVARIANTS
    SchedulerSound
    DepsFirst
    FailureIsExplained
PROPERTIES
    EndIsFinal
    ExecuteReturns
CHECK_DEADLOCK FALSE

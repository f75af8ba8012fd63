SPECIFICATION Spec
CONSTANTS
    j1 = j1
    info1 = info1
    boot1 = boot1
    boot2 = boot2
    c1 = c1
    c2 = c2
    c3 = c3
    JobIds <- MCJobIds
    Infos <- MCInfos
    Boots <- MCBoots
    Callers <- MCCallers
    NoBoot = NoBoot
    NoJob = NoJob
    MaxAttempts = 2
    MaxRetries = 1
    MAX_RETRIES = 2
    MaxCalls = 5
SYMMETRY CallerSymmetry
INVARIANTS
    NoStaleWinner
PROPERTIES
    ImplementsStore
CHECK_DEADLOCK FALSE

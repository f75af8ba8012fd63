SPECIFICATION Spec
CONSTANTS
    j1 = j1
    j2 = j2
    info1 = info1
    boot1 = boot1
    boot2 = boot2
    JobIds <- MCJobIds
    Infos <- MCInfos
    Boots <- MCBoots
    NoBoot = NoBoot
    NoJob = NoJob
    MaxAttempts = 2
    MaxRetries = 2
INVARIANTS
    RowDiscipline
PROPERTIES
    SettledIsFinal
    PromiseKept
CHECK_DEADLOCK FALSE

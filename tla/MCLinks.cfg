SPECIFICATION Spec
CONSTANTS
    Holders = {h1, h2}
    Syncs = {s1, s2}
    MaxToggles = 2
    MaxOpen = 3
    Calls = {c1, c2, c3, c4}
    FailureThreshold = 2
    SuccessThreshold = 2
    HalfOpenMaxCalls = 2
    Tasks = 5
    Concurrency = 2
    MaxWorkers = 3
INVARIANTS
    LeaseHonored
    ProbesBounded
    PoolSound
PROPERTIES
    LeasesEnd
    ReloadFollowsRow
CHECK_DEADLOCK FALSE

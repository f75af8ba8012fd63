SPECIFICATION FairSpec
CONSTANTS
    b1 = b1
    b2 = b2
    a1 = a1
    a2 = a2
    a3 = a3
    c1 = c1
    c2 = c2
    Batches <- TwoBatches
    CallsOf <- TheirCalls
    MainThread <- TheirMain
    PoolSize = 2
    Idle = Idle
INVARIANTS
    CallsAccounted
PROPERTIES
    NoLateStart
    BatchesReturn
CHECK_DEADLOCK FALSE

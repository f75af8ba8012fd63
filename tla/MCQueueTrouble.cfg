SPECIFICATION Spec
CONSTANTS
    d1 = d1
    d2 = d2
    c1 = c1
    c2 = c2
    JobIds <- OneJob
    Infos <- KeyedAndUnknown
    Boots <- OneLife
    NoBoot = 0
    NoJob = NoJob
    MaxAttempts = 2
    MaxRetries = 1
    Lanes = {"a"}
    ChatTurn = "chat_turn"
    Registered = {"work", "chat_turn"}
    NoKey = "none"
    MaxGlobal = 2
    Clients <- OneClient
    Slots <- TwoSlots
    Dispatchers <- OneDispatcher
    MaxCancels = 1
    ClockMayJump = TRUE
    MayGiveUp = TRUE
    MayStop = TRUE
INVARIANTS
    CountersExact
PROPERTIES
    UsesStore

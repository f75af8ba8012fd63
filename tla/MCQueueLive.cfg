SPECIFICATION FairSpec
CONSTANTS
    d1 = d1
    d2 = d2
    c1 = c1
    c2 = c2
    JobIds <- TwoJobs
    Infos <- WorkAndChat
    Boots <- TwoLives
    NoBoot = 0
    NoJob = NoJob
    MaxAttempts = 2
    MaxRetries = 1
    Lanes = {"a", "b"}
    ChatTurn = "chat_turn"
    Registered = {"work", "chat_turn"}
    NoKey = "none"
    MaxGlobal = 1
    Clients <- OneClient
    Slots <- TwoSlots
    Dispatchers <- OneDispatcher
    MaxCancels = 0
    ClockMayJump = FALSE
    MayGiveUp = FALSE
    MayStop = FALSE
PROPERTIES
    EveryJobSettles
    StartedIsReported

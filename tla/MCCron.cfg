SPECIFICATION EitherSpec
CONSTANTS
    c1 = c1
    Tasks <- SomeTasks
    Callers <- OneCaller
    k1 = k1
    k2 = k2
    e1 = e1
    e2 = e2
    Crons <- TwoCrons
    Runs <- TwoRuns
    Room <- SomeRoom
    NoJob = NoJob
    MaxErrors = 2
    MaxFailures = 2
    MaxFire = 2
    MaxCrashes = 1
    MaxThrows = 1
    DayLength = 8
    MonthLength = 3
    WeekLength = 2
    Forward = 11
    Back = 25
    Shift = 2
    Last = 38
    ClockJobs <- SomeJobs
SYMMETRY Interchangeable
INVARIANTS
    RunsSound
    
    DueIsRight
CHECK_DEADLOCK FALSE

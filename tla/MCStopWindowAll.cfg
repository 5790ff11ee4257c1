SPECIFICATION FairSpec
CONSTANTS
    Second = 6
    DefaultStop = 12
    Lag = 1
    Deadlines <- SomeDeadlines
    Works <- SomeWorks
    None = None
    MaxStart = 3
    MaxNow = 24
CHECK_DEADLOCK FALSE
INVARIANTS StopWindowTypeOK EnoughTimeRemoves KilledOnlyAtTheEnd
PROPERTIES StopEnds

SPECIFICATION FairSpec
CONSTANTS
    Images = {1, 2, 3}
    Links = {4, 5}
    Old = {1, 2, 4}
    Same <- MCSame
    Exact <- MCExact
    Near <- MCNear
    MemeSub = {3}
    HighMatch = 1
    Watched = 1
    Rows = {1, 2}
    InitialRows = {{}, {1}, {1, 2}}
    Workers = {w1, w2}
    MaxRetries = 1
    MaxWishes = 2
    MaxFaults = 2
INVARIANTS TypeOK RecordedOnce OldestIsNamed EndedStaysEnded
PROPERTY EventuallyEnded
CHECK_DEADLOCK FALSE

SPECIFICATION Spec
CONSTANTS
    PostTypes <- MCPostTypes
    DayRanges <- MCDayRanges
    Keys = {a, b}
    StatWorkers = {v1, v2}
    MaxTasks = 3
    MaxStatFaults = 1
    Users = {u1, u2}
    Requests = {r1, r2}
    Ids = {1, 2}
    HasTemplate0 = {2}
    Needed = 2
    MaxMoves = 5
    Subs = {s1, s2}
    SubWorkers = {w1, w2}
    MaxTries = 3
    MaxSaves = 3
    MaxBads = 4
    MaxSubFaults = 1
    AllPosts = {1, 2, 3, 4}
    Limit = 3
    BatchSize = 2
    ChunkSize = 1
    UpdateSize = 1
    MaxChanges = 2
    MaxDelFaults = 1
INVARIANTS TypeOK RowsAreCounted VotesAddUp
PROPERTIES SubredditGetsData RecheckedInTime
CHECK_DEADLOCK FALSE

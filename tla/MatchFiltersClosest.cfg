SPECIFICATION Spec
CONSTANTS
    Config <- MCConfig
    SubRow <- MCSubRow
    Orders <- MCOrders
    Answers <- MCAnswers
    Checked <- MCChecked
    HashSize = 20
    MemeHashSize = 40
    ChunkSize = 2
INVARIANT ClosestIsKept
CHECK_DEADLOCK FALSE

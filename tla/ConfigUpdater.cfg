CONSTANTS
    Options <- MCOptions
    Flags <- MCFlags
    Default <- MCDefault
    ModDocs <- MCModDocs
    Broken = Broken
    Workers = {w1, w2}
    Max <- MCMax
    MaxTotal = 1
SPECIFICATION FairSpec
INVARIANTS TypeOK ToldTheTruth NotifiedIsInForce
PROPERTIES PageComesIntoForce
CHECK_DEADLOCK FALSE

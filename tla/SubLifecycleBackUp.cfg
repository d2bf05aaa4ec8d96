SPECIFICATION FairSpec
CONSTANTS
    Perms = {"wiki"}
    Workers = {w1, w2}
    Site = site
    Exempt = FALSE
    Max <- MCMax
    MaxTotal = 2
    MaxFails = 5

PROPERTY SetsItselfBackUp
CHECK_DEADLOCK FALSE

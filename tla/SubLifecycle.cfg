SPECIFICATION FairSpec
CONSTANTS
    Perms = {"wiki"}
    Workers = {w1, w2}
    Site = site
    Exempt = FALSE
    Max <- MCMax
    MaxTotal = 2
    MaxFails = 5
INVARIANTS TypeOK WelcomeIsTrue
PROPERTIES RemovedAfterWarning InvitationIsAnswered LostSubIsRemoved
CHECK_DEADLOCK FALSE

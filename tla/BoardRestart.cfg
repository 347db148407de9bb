SPECIFICATION RestartSpec
CONSTANTS
    a = a
    b = b
    Junk = Junk
    Texts <- Lines
    NoticeCap = 2
    MaxPosts = 2
    MaxKills = 2
INVARIANTS
    CostOfRestart
PROPERTIES
    WholePairs
\* A semaphore left at 0 by a killed program may stop the other one.
CHECK_DEADLOCK FALSE

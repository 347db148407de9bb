SPECIFICATION FairSpec
CONSTANT Ranks <- ThreeRanks
INVARIANTS
    TypeOK
    ViewAgrees
    ResultRight
    LostOnlyToEarlyLeave
PROPERTY StandEndsGame
\* The game is over, or the player thinks.
CHECK_DEADLOCK FALSE

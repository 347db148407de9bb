SPECIFICATION FairSpec
CONSTANT Ranks <- ThreeRanks
PROPERTY GameEndsWithResult
CHECK_DEADLOCK FALSE

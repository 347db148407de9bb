SPECIFICATION RestartSpec
CONSTANTS
    N <- MCN
    QueueCap <- RoomyQueue
    MaxKills = 2
    MaxReruns = 2
INVARIANTS
    CostOfRestart
PROPERTIES
    LeftByKill
CHECK_DEADLOCK FALSE

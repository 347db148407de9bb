SPECIFICATION TimedSpec
CONSTANTS
    N <- MCN
    QueueCap <- RoomyQueue
    MaxStart <- WholeRun
INVARIANTS
    SleepsSuffice
CHECK_DEADLOCK FALSE

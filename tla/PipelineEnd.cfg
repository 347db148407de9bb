SPECIFICATION Spec
CONSTANTS
    N <- MCN
    QueueCap <- RoomyQueue
INVARIANTS
    EndsAtMessage0
CHECK_DEADLOCK FALSE

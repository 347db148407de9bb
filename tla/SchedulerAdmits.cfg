SPECIFICATION Spec
CONSTANTS
    NT = 3
INVARIANT AtMostTwo
\* Threads that unlocked with another one's sem_op may wait for ever.
CHECK_DEADLOCK FALSE

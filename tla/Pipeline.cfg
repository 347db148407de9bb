SPECIFICATION FairSpec
CONSTANTS
    N <- MCN
    QueueCap <- TightQueue
INVARIANTS
    OrderlyRelay
    NothingLostAfterSend
PROPERTIES
    BothEndUnlessFull
    MarkerEndsRecorder
    ImplementsRegister
\* The recorder may wait for an empty message that is never sent.
CHECK_DEADLOCK FALSE

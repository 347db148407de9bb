SPECIFICATION ProgramsSpec
CONSTANTS
    NT = 3
    Clients <- MCClients
    ProcLimits <- MCProcLimits
    CommandLines <- MCCommandLines
    MaxCommands = 2
    Capacity = 1
    Runs <- MCRuns
    Files <- MCFiles
    LineNumbers <- MCLineNumbers
    FirstText <- MCFirstText
    Inodes <- MCInodes
    K = 3
    Shooters = 3
    RoundPoints = 2
    P_MAX = 3
    Second = 5
    Seconds <- MCSeconds
    MaxSignals = 3
    Texts <- MCTexts
    Counts <- MCCounts
    Modes <- MCModes
    Entries <- MCEntries
    ListSize = 3
    Chunks <- MCChunks
    FileSize = 3
    Words <- MCWords
    Lengths <- MCLengths
    Wishes <- MCWishes
    Pids <- MCPids
    Priority <- MCPriority
    Times = 2
    Limit = 2
    First <- MCFirst
    MaxEvents = 2
INVARIANTS
    TypesOK
    PermitsUnlessClobbered
    ServersKeepUp
    RightGetsAll
    NoLineLost
    TotalsRight
    TimeIsKept
    TextsRight
    Helped
PROPERTIES
    SchedulerEnds
    Answered
    CommandsEnd
    AllWakeUp
\* Programs end, and threads that unlocked with another one's sem_op may wait for ever.
CHECK_DEADLOCK FALSE

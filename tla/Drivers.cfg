SPECIFICATION DriversSpec
CONSTANTS
    Users = {u1, u2}
    MaxWrites = 3
    MEM_SIZE = 2
    BLK_SIZE = 2
    Parameters <- MCParameters
    Counts <- MCCounts
    MaxVersion = 2
    Geometries <- MCGeometries
    Blocks <- MCBlocks
    Lengths <- MCLengths
    MaxStamp = 2
INVARIANTS
    TypesOK
    RestIsLit
    TimerGoneWithModule
    ReadsLastWrite
    StrayOnlyByRace
    IsFile
    NoLeak
PROPERTY FollowsRequest
\* The module has been removed, or a process has crashed in it.
CHECK_DEADLOCK FALSE

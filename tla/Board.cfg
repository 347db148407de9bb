SPECIFICATION FairSpec
CONSTANTS
    a = a
    b = b
    Junk = Junk
    Texts <- Lines
    NoticeCap = 2
    MaxPosts = 4
INVARIANTS
    OrderlyBoard
PROPERTIES
    PostsGetShown
    ExitEndsReader
    ImplementsRegister
\* The writer may have been given all its lines.
CHECK_DEADLOCK FALSE

SPECIFICATION Spec
CONSTANTS
    a = a
    b = b
    Junk = Junk
    Texts <- Lines
    NoticeCap = 2
    MaxPosts = 3
INVARIANT PostsWereEntered
CHECK_DEADLOCK FALSE

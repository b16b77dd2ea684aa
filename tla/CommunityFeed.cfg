SPECIFICATION Spec
CONSTANTS
    Posts <- MCPosts
    Earlier = {1, 2}
    Author <- MCAuthor
    Place <- MCPlace
    Searches = {"lisbon"}
    Reader = "bob"
    Cap = 2
    PageSize = 1
    MaxClock = 1
    MaxAsks = 3
    MaxTyped = 1
    All = All
    None = None
INVARIANTS
    AuthorCap
    ReadingComplete
PROPERTIES
    TrimsOldest
    LoadingEnds
CHECK_DEADLOCK FALSE

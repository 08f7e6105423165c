SPECIFICATION FairSpec
CONSTANTS
    c1 = c1
    c2 = c2
    c3 = c3
    c4 = c4
    d1 = d1
    d2 = d2
    d3 = d3
    d4 = d4
    None = None
    Conns = {c1, c2}
    Requests = {d1, d2}
    Parts = 2
    Window = 3
    FDs = {5, 6}
    Posix = FALSE
PROPERTIES
    RequestsTaken
    RepliesRelayed
    LostServersForgotten
    SendReturns

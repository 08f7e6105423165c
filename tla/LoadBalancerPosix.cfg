SPECIFICATION Spec
CONSTANTS
    c1 = c1
    c2 = c2
    c3 = c3
    c4 = c4
    d1 = d1
    d2 = d2
    d3 = d3
    d4 = d4
    None = None
    Conns = {c1, c2, c3}
    Requests = {d1, d2, d3}
    Parts = 1
    Window = 3
    FDs = {5, 6, 7}
    Posix = TRUE
CHECK_DEADLOCK FALSE
SYMMETRY Symmetry
INVARIANTS
    TypeOK
    SocketsSound
    ClientsWatched
    WatchedUntilLoss
    NeverUndercounts
PROPERTIES
    ImplementsRelay

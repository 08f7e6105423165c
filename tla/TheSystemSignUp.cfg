SPECIFICATION System
CONSTANTS
    s1 = s1
    s2 = s2
    r1 = r1
    r2 = r2
    r3 = r3
    k1 = k1
    k2 = k2
    Bob = Bob
    Eve = Eve
    p1 = p1
    None = None
    Servers = {s1}
    Requests = {r1, r2}
    Clients = {k1}
    Names = {Bob, Eve}
    Passwords = {p1}
    Fold <- FoldNone
    MaxFaults = 0
    MaxStops = 0
    MaxMishaps = 0
INVARIANT ErrorsAreTrue

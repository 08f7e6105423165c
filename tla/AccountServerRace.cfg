SPECIFICATION Spec
CONSTANTS
    s1 = s1
    s2 = s2
    r1 = r1
    r2 = r2
    r3 = r3
    Bob = Bob
    bob = bob
    p1 = p1
    None = None
    Servers <- TwoServers
    Requests <- TwoRequests
    Names = {Bob, bob}
    Passwords = {p1}
    Fold <- FoldCase
    MaxFaults = 0
    MaxStops = 0
INVARIANT UsernamesUnique

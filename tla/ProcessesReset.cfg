SPECIFICATION Spec
CONSTANTS
    s1 = s1
    s2 = s2
    here = here
    None = None
    lbHost = lbHost
    svHost = svHost
    Servers = {s1}
    Files <- FilesAny
    Localhost = here
    Window = 1
    MaxRequests = 2
    MaxFailures = 0
    MaxLaunches = 1
INVARIANTS
    LostBalancerNoticed

SPECIFICATION FairSpec
CONSTANTS
    s1 = s1
    s2 = s2
    here = here
    None = None
    lbHost = lbHost
    svHost = svHost
    Servers = {s1, s2}
    Files <- FilesAny
    Localhost = here
    Window = 2
    MaxRequests = 4
    MaxFailures = 1
    MaxLaunches = 2
INVARIANTS
    TypeOK
PROPERTIES
    ListenerFound
    ProcessesEnd
    ServersAccepted

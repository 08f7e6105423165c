SPECIFICATION Spec
CONSTANTS
    c1 = c1
    c2 = c2
    Clients = {c1, c2}
    Address <- AddressMC
    Forms <- FormsMC
    Results <- ResultsMC
    BadPacket <- BadPacketMC
    Sids = {1, 4}
    Junk = {3}
    Base = 4
    WordLen = 2
    IPLen = 2
    StrLen = 2
    MaxRequests = 2
    MaxRelayed = 2
    MaxCuts = 1
INVARIANTS
    TypeOK
    ExecutedAsTyped
    ShownWasPacked
PROPERTIES
    ReadsAnswered

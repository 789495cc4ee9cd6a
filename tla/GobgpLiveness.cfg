CONSTANTS
    Victims = {v1}
    PortProtocols = {"TCP"}
    Ports = {p1, p2}
    Uuids = {u1, u2}
    NoProtocol = NoProtocol
    NoPort = NoPort
    NoUuid = NoUuid
    MaxPortRules = 1
    Workers = {w1, w2}
    RefreshResults <- MCTwoProtocolResults
    MaxLate = 0
SPECIFICATION FairSpec
PROPERTIES
    ThreadsFinish
    FenceReleased

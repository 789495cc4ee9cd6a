CONSTANTS
    Victims = {v1}
    PortProtocols = {}
    Ports = {}
    Uuids = {u1}
    NoProtocol = NoProtocol
    NoPort = NoPort
    NoUuid = NoUuid
    MaxPortRules = 1
    Workers = {w1}
    RefreshResults <- MCIcmpResults
    MaxLate = 0
    BanProtocols = {NoProtocol}
    ApiCalls = {}
    BufferCapacity = 1
    RefreshEnabled = TRUE
    UnbanEnabled = TRUE
SPECIFICATION FairMitigationSpec
PROPERTIES
    CapturesEnd
    BucketsEnd

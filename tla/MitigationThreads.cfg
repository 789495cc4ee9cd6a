CONSTANTS
    Victims = {v1}
    PortProtocols = {}
    Ports = {}
    Uuids = {u1}
    NoProtocol = NoProtocol
    NoPort = NoPort
    NoUuid = NoUuid
    MaxPortRules = 1
    Workers = {w1, w2}
    RefreshResults <- MCIcmpResults
    MaxLate = 0
    BanProtocols = {NoProtocol}
    ApiCalls = {c1}
    BufferCapacity = 1
    RefreshEnabled = TRUE
    UnbanEnabled = TRUE
SPECIFICATION MitigationSpec
SYMMETRY Symmetry
INVARIANTS
    CapturesAccounted
    AutomaticBanOnce

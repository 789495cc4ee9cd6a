CONSTANTS
    Victims = {v1}
    PortProtocols = {"TCP"}
    Ports = {p1, p2}
    Uuids = {u1, u2}
    NoProtocol = NoProtocol
    NoPort = NoPort
    NoUuid = NoUuid
    MaxPortRules = 1
    Workers = {w1, w2, w3}
    RefreshResults <- MCRefreshResults
    MaxLate = 0
SPECIFICATION Spec
SYMMETRY Symmetry
INVARIANTS
    TypeOK
    OneAnnouncer
    OneDeleter
    NoIgnoredCompletion
    OneRefresh
    NoPathAfterUnban
    FenceHasReason
    FenceExcludesLive
    EscalationCovered
PROPERTIES
    RefreshRespectsLimit
    UsesTableMethods

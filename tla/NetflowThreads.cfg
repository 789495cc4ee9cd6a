CONSTANTS
    Threads = {t1, t2}
    Addresses = {"a"}
    SourceIds = {1, 2}
    TemplateIds = {1, 2}
    Packets <- MCPackets
    Rates = {5, 7}
    Timeouts = {"t"}
    ZeroTimeouts = ZeroTimeouts
    NoTimeouts = NoTimeouts
    NoTemplate = NoTemplate
    SetsMaximum = 4
    FlowsMaximum = 3
    RecordsMaximum = 3
    ConfiguredRatio = 1
    MaxPackets = 3
SPECIFICATION FairSpec
INVARIANTS
    ReadsStayInSet
    ExportersKeptApart
    RatesAreReported
PROPERTIES
    CleanPacketsLearnt
    PacketsEnd

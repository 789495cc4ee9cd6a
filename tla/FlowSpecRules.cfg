CONSTANTS
    MaxWeight = 30
    victim_ipv4 = "victim"
    client_ip <- MCSeenAddress
    Packets <- MCPackets
    Attacks <- MCAttacks
    FlowSpecActions <- MCFlowSpecActions
    min_samples = 2
    dominance_percent = 70
    min_share_percent = 30
    active_protocols = {"ICMP", "TCP", "UDP"}
    capacity = 4
    Rules <- MCRules
    Foreign <- MCForeign
    MaxValues = 3
    BufferSize = 64
    Refused = Refused
    NoBuffer = NoBuffer
    Lines <- MCLines
    MaxLines = 2
    Seen <- MCSeen
    Malformed = Malformed
    NoRule = NoRule
    NoPacketYet = NoPacketYet
    MaxUint32 = 100000
SPECIFICATION RulesSpec
CHECK_DEADLOCK FALSE
INVARIANTS
    ClassifierMatchesReference
    RefreshPortsCarryTheirShare
    BanAndRefreshAgree
    AnnouncedRuleReadsBack
    KeysIdentifyPaths
    FilterMatchesReference
    PrintedRuleReadsBack

SPECIFICATION Spec
CONSTANTS
  Collectors = {c1}
  Mixes <- MCMixes
  Hosts4 = {"h1"}
  Hosts6 = {"k1"}
  NetworkOf <- MCNetworkOf
  NoNetwork = nonet
  NoPacket = nopacket
  Whitelisted <- MCWhitelisted
  process_incoming_traffic = TRUE
  process_outgoing_traffic = TRUE
  enable_connection_tracking = TRUE
  Thresholds <- MCThresholds
  ExpNum = 1
  ExpDen = 2
  Periods = {1, 2}
  MaxPerPeriod = 1
INVARIANTS
  CountersConserved
  PartsWithinTotal
  FlowLossConfined
PROPERTIES
  AverageSettles

SPECIFICATION SflowSpec
CONSTANTS
  read_packet_length_from_ip_header = FALSE
  Datagrams <- MCDatagrams
  NoSample = nosample
  MaxSamples = 2
  MaxRecords = 4
  PortBase <- MCPortBase
  MaxDatagrams = 2
CHECK_DEADLOCK FALSE
INVARIANTS
  SamplesAccounted
  PacketsAreWhatWasSampled

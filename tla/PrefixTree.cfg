SPECIFICATION TreeSpec
CONSTANTS
  MaxBits = 3
  Lines <- MCLines
  Unreadable = unreadable
  Queries <- MCQueries
  Payloads = {d1}
  NoData = nodata
  NoPrefix = noprefix
  MaxNetworks = 4
INVARIANT TreeSound
PROPERTY ImplementsPrefixSet
CHECK_DEADLOCK FALSE

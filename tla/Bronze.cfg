\* Two writers, three moments, and documents enough for two to be equally old.
CONSTANTS
  Writers = {w1, w2}
  chart = chart
  artist = artist
  beatport = beatport
  Requests = {chart, artist}
  SourceOf <- MCSourceOf
  EndpointOf <- MCEndpointOf
  AnyEndpoint = AnyEndpoint
  Contents = {same}
  NoDoc = NoDoc
  MaxDocs = 3
  MaxTime = 3
SPECIFICATION BronzeSpec
INVARIANTS
  BronzeTypeOK
  LatestIsOne
  NeverUnguarded
PROPERTIES
  ReplaysExtend

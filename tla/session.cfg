SPECIFICATION FairSpec
CONSTANTS
  h1 = h1
  h2 = h2
  h3 = h3
  NoHost = NoHost
  NoFinding = NoFinding
  NoError = NoError
  Hosts = {h1, h2, h3}
  Repliers = {h1}
  Ranges <- TwoRanges
  N = 2
  HostsOf <- TwoAndOne
  Failures = {"context", "sockets", "direct_filter", "gateway_mac", "multicast_open", "partial_send"}
  UpHostsCap = 1
  FindingsCap = 1
  ErrorCap = 1
  OutCap = 1
  MaxHeard = 2
  MaxSeen = 1
  Rules <- SessionRules
INVARIANTS TypeOK ProbedAfterReport GatewayKnown NilMeansComplete
PROPERTIES SessionEnds

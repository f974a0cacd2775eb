SPECIFICATION Spec
CONSTANTS
  h1 = h1
  h2 = h2
  h3 = h3
  NoHost = NoHost
  NoFinding = NoFinding
  NoError = NoError
  Hosts = {h1, h2, h3}
  Repliers = {h3}
  Ranges <- OneRange
  N = 1
  HostsOf <- BothInOne
  Failures = {"context", "sockets", "gateway_mac", "multicast_open", "host_capture", "host_send", "port_filter", "direct_filter", "port_capture", "port_send", "partial_send", "capture_lost"}
  UpHostsCap = 1
  FindingsCap = 1
  ErrorCap = 1
  OutCap = 1
  MaxHeard = 2
  MaxSeen = 1
  Rules <- OneRangeRules
INVARIANTS WaitGroupCounts ClosedMeansSilent PanicOnlyAfterRefusal NilMeansComplete FirstErrorWins OneErrorEach
PROPERTIES FeedSpec
CHECK_DEADLOCK FALSE
SYMMETRY HostSymmetry

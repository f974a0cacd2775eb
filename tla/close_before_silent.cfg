SPECIFICATION Spec
CONSTANTS
  h1 = h1
  h2 = h2
  h3 = h3
  NoHost = NoHost
  NoFinding = NoFinding
  NoError = NoError
  Hosts = {h1, h2}
  Repliers = {h1}
  Ranges <- OneRange
  N = 1
  HostsOf <- BothInOne
  Failures = {"port_send"}
  UpHostsCap = 1
  FindingsCap = 1
  ErrorCap = 1
  OutCap = 1
  MaxHeard = 1
  MaxSeen = 1
  Rules <- OneRangeRules
CHECK_DEADLOCK FALSE
INVARIANT CloseAfterGoroutines

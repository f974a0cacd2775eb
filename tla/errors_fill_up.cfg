SPECIFICATION FairSpec
CONSTANTS
  h1 = h1
  h2 = h2
  h3 = h3
  NoHost = NoHost
  NoFinding = NoFinding
  NoError = NoError
  Hosts = {h1}
  Repliers = {h1}
  Ranges <- ThreeRanges
  N = 3
  HostsOf <- NobodyThere
  Failures = {"gateway_mac"}
  UpHostsCap = 1
  FindingsCap = 1
  ErrorCap = 1
  OutCap = 1
  MaxHeard = 1
  MaxSeen = 1
  Rules <- ThreeDirect
CHECK_DEADLOCK FALSE
PROPERTY SessionEnds

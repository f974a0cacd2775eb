SPECIFICATION Spec
CONSTANTS
  Hosts = {h1, h2, h3}
  NoHost = NoHost
  MaxTechniques = 3
  MaxPorts = 3
  Chunk = 4
  Fields <- SomeFields
  PortLimit = 8
  CommonPorts <- TheCommonPorts
SYMMETRY HostSymmetry
INVARIANTS TypeOK IndexInBounds RightFrames OnceEach NothingLeft PortsProbedOnce RulePortsProbed

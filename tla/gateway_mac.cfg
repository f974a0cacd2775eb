SPECIFICATION Spec
CONSTANTS
  g1 = g1 g2 = g2 other = other
  Ranges = {1, 2}
  Machines = {g1, g2, other}
  Gateways <- SomeGateways
  Families = {"v4", "v6"}
  Tables = {"absent", "incomplete", "known"}
  NoMac = NoMac
  ZeroMac = ZeroMac
  Talkers = {other}
  MaxAnswers = 3
INVARIANTS TypeOK WrongMacExplained
PROPERTIES RangesGoOn NeighborReadersEnd

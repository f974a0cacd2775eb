SPECIFICATION Spec
CONSTANTS
  s1 = s1 s2 = s2 c1 = c1 c2 = c2
  Scans = {c1, c2}
  Senders = {s1, s2}
  Rates = {1, 2}
  TicksPerSecond = 1
  ScanOf <- OwnScan
  Targets <- SomeTargets
  NoEnd = NoEnd
  Space = 8
  Chunk = 2
  ChunksCap = 1
INVARIANTS TypeOK EveryAddressAsked AskedInRange RefusedAtOnce RateBound
PROPERTIES SweepsEnd

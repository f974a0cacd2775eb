SPECIFICATION Spec
CONSTANTS
  Top = 15
  Octet = 8
  Prefixes <- AllPrefixes
  Tables <- SmallTables
  Networks <- SomeNetworks
INVARIANTS TypeOK Partition MostSpecificIfDistinct NoHostLost

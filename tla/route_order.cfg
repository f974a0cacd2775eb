SPECIFICATION Spec
CONSTANTS
  Top = 15
  Octet = 8
  Prefixes <- AllPrefixes
  Tables <- MiddleTables
  Networks <- MiddleNetwork
INVARIANT MostSpecific

SPECIFICATION Spec
CONSTANTS
  Top = 15
  Octet = 8
  Prefixes <- AllPrefixes
  Tables <- HalfTables
  Networks <- LastOfFour
INVARIANT StaysInside

SPECIFICATION Spec
CONSTANTS
  Names = {a, b, c, d}
  Temps = {}
  NoName = NoName
  Types <- FirstFitTypes
  Attributes <- FirstFitAttributes
  ZpMax = 6
  DataBase = 8
  AddrMax = 15
  SourceSymbols = {}
  CollidingPins = FALSE
  MaxInstrs = 4
SYMMETRY NameSymmetry
CONSTRAINT OneSegment
CHECK_DEADLOCK FALSE
INVARIANT TypeOK
INVARIANT PlacementSafe
INVARIANT UsedAccounts
PROPERTY RefusedOnlyWhenFull
PROPERTY ImplementsMemory

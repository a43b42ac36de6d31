SPECIFICATION Spec
CONSTANTS
  Names = {a, b, c}
  Temps = {t, u}
  NoName = NoName
  Types <- MixedTypes
  Attributes <- MixedAttributes
  ZpMax = 6
  DataBase = 8
  AddrMax = 15
  SourceSymbols = {a, b, c, t, u}
  CollidingPins = TRUE
  MaxInstrs = 3
SYMMETRY NameSymmetry
CHECK_DEADLOCK FALSE
INVARIANT OneForOne
INVARIANT NoDanglingSource
INVARIANT TablesAgree
INVARIANT PinsHonoured

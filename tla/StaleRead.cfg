SPECIFICATION Spec
CONSTANTS
  Byte = 16
  RamBase = 16
  DataBase = 32
  BankSize = 48
  VectorsSize = 6
  Types <- Scalars
  Literals = {1, 35}
  Gaps = {0, 9}
  MaxSymbols = 3
  Hazards = {"stale"}
CHECK_DEADLOCK FALSE
INVARIANT Initialised

SPECIFICATION Spec
CONSTANTS
  Byte = 16
  RamBase = 16
  DataBase = 32
  BankSize = 48
  VectorsSize = 6
  Types <- AllTypes
  Literals = {1, 35}
  Gaps = {0, 9, 44}
  MaxSymbols = 3
  Hazards = {}
CHECK_DEADLOCK FALSE
INVARIANT Initialised
INVARIANT Boots

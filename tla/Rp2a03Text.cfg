SPECIFICATION TextSpec
CONSTANTS
  PlainSizes = {0, 5}
  LoadSizes = {2, 3}
  RelRange = 16
  AbsRange = 64
  Bases = {7, 60}
  Programs <- AllPrograms
  MaxLength = 4
CHECK_DEADLOCK FALSE
INVARIANT TextTypeOK
INVARIANT BeqOperands
INVARIANT PendingIsExact
INVARIANT FinalJmpsLand

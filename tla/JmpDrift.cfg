SPECIFICATION Spec
CONSTANTS
  IpMax = 20
  MaxCode = 6
  PlainSizes = {0, 2, 5}
  LoadSizes = {2}
  RelRange = 16
  AbsRange = 64
  Bases = {7, 60}
CHECK_DEADLOCK FALSE
INVARIANT JmpsLand

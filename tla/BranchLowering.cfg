SPECIFICATION Spec
CONSTANTS
  IpMax = 6
  MaxCode = 8
  PlainSizes = {0, 5}
  LoadSizes = {2}
  RelRange = 16
  AbsRange = 64
  Bases = {60}
CHECK_DEADLOCK FALSE
INVARIANT ZirTypeOK
INVARIANT OnlyOpenIfsWait
INVARIANT StructuredExecution
INVARIANT MachineFollowsSource

SPECIFICATION UnificationSpec
CONSTANTS
  Types <- MCTypes
  Pool <- MCPool
  PointerSize = 2
  Slots = {1, 2, 3}
INVARIANT AssignableIsSafe
INVARIANT NeverNarrows
INVARIANT ConvertedTypesAgree
PROPERTY UnifiedTypesAgree

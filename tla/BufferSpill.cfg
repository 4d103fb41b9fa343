CONSTANTS
  kInitialSize = 3
  TmpSize = 12
  MaxAppend = 3
  MaxBytes = 12

SPECIFICATION Spec

INVARIANT SpaceIsMade

CHECK_DEADLOCK FALSE

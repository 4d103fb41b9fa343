CONSTANTS
  kInitialSize = 3
  TmpSize = 3
  MaxAppend = 3
  MaxBytes = 9

SPECIFICATION Spec

INVARIANTS
  TypeOK
  SpaceIsMade

PROPERTIES
  ImplementsByteQueue
  GrowsOnlyWhenFull

CHECK_DEADLOCK FALSE

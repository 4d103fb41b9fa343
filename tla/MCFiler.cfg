CONSTANTS
  p1 = p1
  p2 = p2
  i1 = i1
  i2 = i2
  Path <- TwoPaths
  Inode <- TwoInodes
  None = None
  MaxSize = 4
  MaxChanges = 1
  BIG_FILE_SIZE = 3
  Word = 8

SPECIFICATION Spec

INVARIANTS
  TypeOK
  WireIsFile
  FilesAreOwned

PROPERTIES
  AnswersAreFinal
  FileIsCompleted

CHECK_DEADLOCK FALSE

\* Partitions from nothing to twice a header; fields that stop at, before and
\* behind each boundary.
CONSTANTS
  HeaderSize = 3
  MagicSize = 1
  Width = 64
  Fields = {0, 1, 3, 4, 7}
  Sizes = {0, 2, 3, 4, 6}
  NoPartition = NoPartition
\* The function returns, or the kernel runs.
CHECK_DEADLOCK FALSE
SPECIFICATION Spec
INVARIANTS
  TypeOK
  ReadsFit
  ResultFitsImage

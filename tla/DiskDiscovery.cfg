\* Up to three nodes: a disk with something before it and a partition behind it.
CONSTANTS
  PathLengths = {0, 1, 2, 3}
  Devices <- MCDevices
\* bub_init returns once.
CHECK_DEADLOCK FALSE
SPECIFICATION Spec
INVARIANTS
  TypeOK
  HandsOutADisk
  FindsTheTopmost
  OnlyMovedPathsAreLost

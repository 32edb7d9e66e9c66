\* As PartitionIo.cfg, with offsets that start past the last block of a partition.
CONSTANTS
  Names = {"misc", "boot_a", "emoji"}
  Unrepresentable = {"emoji"}
  MaxEntries = 2
  IndexRange = 8
  Tables <- MCTables
  NULL = NULL
  Blank = Blank
  Unset = Unset
  BlockSize = 2
  DiskBlocks = 8
  Width = 64
  Values = {0, 1}
  Offsets <- MCOffsetsPastEnd
  Lengths = {1, 2}
  OffsetsPastEnd = TRUE
  None = None
CHECK_DEADLOCK FALSE
SPECIFICATION Spec
PROPERTY
  KeepsContractInReach

\* Offsets reach one byte before the start of a partition, and its end; lengths run
\* from nothing to all of it, which is too much behind an offset.
CONSTANTS
  Names = {"misc", "boot_a", "emoji"}
  Unrepresentable = {"emoji"}
  MaxEntries = 2
  IndexRange = 8
  Tables <- MCTables
  NULL = NULL
  Blank = Blank
  Unset = Unset
  BlockSize = 2
  DiskBlocks = 8
  Width = 64
  Values = {0, 1}
  Offsets <- MCOffsets
  Lengths = {0, 1, 2}
  OffsetsPastEnd = FALSE
  None = None
\* The machine stops where the code steps out of C (step = "wild").
CHECK_DEADLOCK FALSE
SPECIFICATION FairSpec
INVARIANTS
  TypeOK
  NothingLeaks
  FindsTheFirst
PROPERTIES
  WritesStayInThePartition
  KeepsContractInReach
  EveryCallReturns

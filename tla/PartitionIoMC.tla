----------------------------- MODULE PartitionIoMC -----------------------------
(* Two layouts of a disk of eight blocks of two bytes.  In the first, misc and    *)
(* boot_a lie side by side, with two blocks each; the second has no misc, and     *)
(* boot_a twice, the first of one block, which IMG_SIZE takes for none.           *)
EXTENDS PartitionIo

Entry(name, first, last) == [name |-> name, first_lba |-> first, last_lba |-> last]

MCTables ==
  { << Entry("misc", 3, 4), Entry("boot_a", 5, 6) >>,
    << Entry("boot_a", 3, 3), Entry("boot_a", 4, 6) >> }

\* From one byte before the start to the end of a partition of two bytes.
MCOffsets == {-3, -2, -1, 0, 1, 2}
MCOffsetsPastEnd == {0, 5}
================================================================================

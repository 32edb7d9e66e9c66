---------------------------- MODULE DiskDiscoveryMC ----------------------------
(* Paths of up to three nodes over every kind of device that the walk tells apart. *)
EXTENDS DiskDiscovery

Sound == [magic |-> TRUE, header_size |-> 92, crc |-> TRUE, revision |-> TRUE]

Disk == [protocols |-> {"BlockIo", "DiskIo"}, LogicalPartition |-> FALSE,
         MediaPresent |-> TRUE, BlockSize |-> 512, header |-> Sound]

MCDevices ==
  { Disk,
    [Disk EXCEPT !.protocols = {}],
    [Disk EXCEPT !.protocols = {"BlockIo"}],
    [Disk EXCEPT !.LogicalPartition = TRUE],
    [Disk EXCEPT !.MediaPresent = FALSE],
    [Disk EXCEPT !.BlockSize = 4096],
    [Disk EXCEPT !.header.magic = FALSE],
    [Disk EXCEPT !.header.header_size = 513] }
================================================================================
